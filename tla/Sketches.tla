------------------------------ MODULE Sketches ------------------------------
(***************************************************************************)
(* Clients that use one key with the commands of one data structure, while   *)
(* the memory list is flushed and the key may expire or be erased; and the   *)
(* containers that the program itself works with.                            *)
(***************************************************************************)
EXTENDS Filters, Containers, PairLayout, Encodings, Handles

CONSTANTS
  Kinds,       \* the data structures of the model
  MaxAdds,     \* bound on what has been put in
  MaxCounted,  \* ... into filters that count
  Numbers,     \* two numbers a and b of n bytes
  Words,       \* sets of bits
  BitVectors,  \* two bit vectors a and b
  ByteTexts    \* sequences of bytes

BFKinds    == {"BF", "CBF", "CMS", "CF"}
BoxKinds   == {"STATICVECTOR", "SMALLVECTOR", "HASHTABLE", "PAIR", "HANDLES", "NUMBER", "WORD", "BITS", "BYTES"}
SlotKinds  == {"HHINCR", "HHDECR", "MG", "RS"}

Asked(k) ==
  CASE k = "BF"          -> BFShapes \X Items
    [] k = "CBF"         -> CBFShapes \X Items
    [] k = "CMS"         -> CMSShapes \X Items
    [] k = "CF"          -> CFSizes \X Items
    [] k \in SlotKinds   -> SlotCounts \X Things
    [] k = "BITSET"      -> {0} \X BitNumbers
    [] OTHER             -> {}

InitBox ==
  CASE kind = "STATICVECTOR" -> /\ box \in {NewVectors(type, Capacity) : type \in ElementTypes}
                                /\ plain = NoElements
    [] kind = "SMALLVECTOR"  -> /\ box \in {NewVectors(type, BufferSize) : type \in ElementTypes \ {"throwing"}}
                                /\ plain = NoElements
    [] kind = "HASHTABLE"    -> /\ box \in {NewTable(k[1], k[2]) : k \in TableKinds}
                                /\ plain = [key \in TableKeys |-> 0]
    [] kind = "PAIR"         -> \E key \in PairKeys : box = NewPair(key) /\ plain = Said(key, TOMBSTONE, 0, 1)
    [] kind = "HANDLES"      -> /\ box \in {NewHandles(loader, mode, vm) : loader \in TableLoaders, mode \in Modes, vm \in BOOLEAN}
                                             \cup {NewHandles(user, "NORMAL", FALSE) : user \in Users}
                                /\ plain = <<>>
    [] kind = "NUMBER"       -> box \in Numbers /\ plain = <<>>
    [] kind = "WORD"         -> box \in {[bits |-> x] : x \in Words} /\ plain = <<>>
    [] kind = "BITS"         -> box \in BitVectors /\ plain = <<>>
    [] kind = "BYTES"        -> box \in {[bytes |-> bytes] : bytes \in ByteTexts} /\ plain = <<>>
    [] OTHER -> box = <<>> /\ plain = <<>>

Init ==
  /\ kind \in Kinds
  /\ InitBox
  /\ val = <<>> /\ mem = FALSE /\ log = <<>> /\ clipped = FALSE /\ answer = None
  /\ truth = [k \in Asked(kind) |-> 0]

Total(t) == MapThenSumSet(LAMBDA k : IF t[k] < 0 THEN - t[k] ELSE t[k], DOMAIN t)

(* What is put in is bounded; a filter that was clipped is not used further. *)
Room ==
  /\ kind \in {"MG", "RS"} => Total(truth) < MaxAdds
  /\ kind \in {"CBF", "CMS"} => Total(truth) < MaxCounted /\ ~ clipped

Pairs == {<<<<x, n>>>> : x \in Items, n \in Incs}

BFNext ==
  /\ kind = "BF"
  /\ \E s \in BFShapes :
       \/ \E xs \in ItemLists : BFADD(s, xs)
       \/ BFRESERVE(s)

CBFNext ==
  \E s \in CBFShapes :
    \/ \E ps \in Pairs : CBFADD(s, ps)
    \/ \E ps \in Pairs : CBFREM(s, ps)
    \/ \E x \in Items, n \in Incs : CBFADDCOUNT(s, x, n)
    \/ \E x \in Items, n \in Incs : CBFREMCOUNT(s, x, n)
    \/ CBFRESERVE(s)

CMSNext ==
  \E s \in CMSShapes :
    \/ \E ps \in Pairs : CMSADD(s, ps)
    \/ \E ps \in Pairs : CMSREM(s, ps)
    \/ \E x \in Items, n \in Incs : CMSADDCOUNT(s, x, n)
    \/ \E x \in Items, n \in Incs : CMSREMCOUNT(s, x, n)
    \/ CMSRESERVE(s)

CFNext ==
  \E w \in CFSizes :
    \/ \E x \in Items : CFADD(w, x)
    \/ \E xs \in ItemLists : CFMADD(w, xs)
    \/ \E x \in Items : CFREM(w, x)
    \/ \E xs \in ItemLists : CFMREM(w, xs)
    \/ CFRESERVE(w)

HHNext ==
  \E n \in SlotCounts :
    \/ \E x \in Things, s \in Scores : HHINCR(n, <<<<x, s>>>>)
    \/ \E x \in Things, s \in Scores : HHDECR(n, <<<<x, s>>>>)
    \/ HHRESERVE(n)

MGNext ==
  \E n \in SlotCounts :
    \/ \E xs \in ThingLists : MGADD(n, xs)
    \/ \E x \in Things : MGADDGET(n, x)
    \/ MGRESERVE(n)

RSNext == \E n \in SlotCounts : (\E xs \in ThingLists : RSADD(n, xs)) \/ RSRESERVE(n)

RBNext == \E n \in SlotCounts : (\E xs \in ThingLists : RBADD(n, xs)) \/ RBPOP(n) \/ RBRESERVE(n)

SLNext == \E xs \in ThingLists : SLADD(xs) \/ SLADDPACK(xs)

BitNext == \E n, m \in BitNumbers, b, c \in {0, 1} : BITSET(<<<<n, b>>, <<m, c>>>>)

Names(schema) == {schema[i][2] : i \in DOMAIN schema}

ISAMNext ==
  \E schema \in Schemas :
    \/ \E v, w \in FieldVals, n \in {1, Len(schema)} :
         ISETALL(schema, [i \in 1 .. n |-> IF i = 1 THEN v ELSE w])
    \/ \E n \in Names(schema), v \in FieldVals : ISET(schema, <<<<n, v>>>>)
    \/ \E n, m \in Names(schema), v \in FieldVals : ISET(schema, <<<<n, v>>, <<m, v>>>>)
    \/ \E n \in Names(schema) : IDEL(schema, <<n>>)
    \/ IRESERVE(schema)

ValueNext ==
  \/ Room /\ (BFNext \/ CBFNext \/ CMSNext \/ CFNext \/ HHNext \/ MGNext \/ RSNext
              \/ RBNext \/ SLNext \/ BitNext \/ ISAMNext)
  \/ Flush
  \/ Vanish

BoxNext ==
  \/ kind = "STATICVECTOR" /\ StaticVectorNext
  \/ kind = "SMALLVECTOR" /\ SmallVectorNext
  \/ kind = "HASHTABLE" /\ TableNext
  \/ kind = "PAIR" /\ PairNext
  \/ kind = "HANDLES" /\ HandlesNext

Next ==
  \/ kind \notin BoxKinds /\ ValueNext /\ UNCHANGED boxVars
  \/ BoxNext /\ UNCHANGED vars

Spec == Init /\ [][Next]_<<vars, boxVars>>

-----------------------------------------------------------------------------
(* A filter never denies an item that is in it: BFEXISTS and BFMEXISTS after *)
(* BFADD with the same parameters (whatever other parameters the same bytes were used   *)
(* with), CFEXISTS after CFADD answered 1, when the width is a power of two  *)
(* and no item it cannot be told apart from was removed.                     *)
NoFalseNegatives ==
  \A k \in DOMAIN truth :
    /\ kind = "BF" /\ truth[k] = 1 =>
         /\ BFEXISTS(k[1], k[2]) = {TRUE}
         /\ \A x \in Items : BFMEXISTS(k[1], <<x, k[2]>>)[2] = {TRUE}
    /\ kind = "CF" /\ truth[k] = 1 /\ IsPow2(k[1]) =>
         /\ CFEXISTS(k[1], k[2])
         /\ \A x \in Items : CFMEXISTS(k[1], <<x, k[2]>>)[2]

(* Counts are never too low: as long as no cell was clipped and nothing was  *)
(* removed that had not been added, CBFCOUNT, CMSCOUNT and the answers of    *)
(* ADDCOUNT and REMCOUNT are at least the true count, for every shape that   *)
(* shares the bytes; and a count-min sketch never counts more than went in.  *)
CountsNotLow ==
  kind \in {"CBF", "CMS"} /\ ~ clipped /\ (\A k \in DOMAIN truth : truth[k] >= 0) =>
    /\ \A k \in DOMAIN truth : Found(Size(k[1])) =>
         /\ kind = "CBF" =>
              /\ CBFCOUNT(k[1], k[2]) >= truth[k]
              /\ CBFMCOUNT(k[1], <<k[2], k[2]>>)[2] >= truth[k]
         /\ kind = "CMS" =>
              /\ CMSCOUNT(k[1], k[2]) \in truth[k] .. Total(truth)
              /\ CMSMCOUNT(k[1], <<k[2], k[2]>>)[2] \in truth[k] .. Total(truth)
    /\ answer.is = "count" => answer.n >= truth[answer.of]

(* Filters and counters err on one side only, whatever they are used for in  *)
(* between.                                                                  *)
FiltersSound == NoFalseNegatives /\ CountsNotLow

(* HHGET holds the items with the best scores ever sent: each at its best    *)
(* score, and no item outside has a better one than an item inside.          *)
BestKept ==
  kind \in {"HHINCR", "HHDECR"} =>
    LET up == kind = "HHINCR"
    IN  \A n \in SlotCounts : Found(n) =>
          LET got == HHGET(n)
              in  == {e.item : e \in got}
          IN  /\ \A e \in got : e.score = truth[<<n, e.item>>]
              /\ \A x \in Things \ in : truth[<<n, x>>] # 0 =>
                   Cardinality(in) = n /\ \A e \in got : ~ comp(up, truth[<<n, x>>], e.score)

(* MGGET misses at most one in slots + 1 of the additions of an item and     *)
(* never counts too many; RSGET holds items that were added, as many as      *)
(* there is room for, and RSGETCOUNT has seen every one.                     *)
SamplesSound ==
  \A n \in SlotCounts :
    /\ kind = "MG" /\ Found(n) =>
         \A x \in Things :
           LET est == MapThenSumSet(LAMBDA e : e.score, {e \in MGGET(n) : e.item = x})
           IN  /\ est <= truth[<<n, x>>]
               /\ (truth[<<n, x>>] - est) * (n + 1) <= Total(truth)
    /\ kind = "RS" /\ Found(n + 1) =>
         /\ RSGETCOUNT(n) = Total(truth)
         /\ Len(RSGET(n)) = Min({n, Total(truth)})
         /\ \A x \in Things :
              Cardinality({i \in DOMAIN RSGET(n) : RSGET(n)[i] = x}) <= truth[<<n, x>>]

(* What a full list of heavy hitters, summary or sample dropped was not what *)
(* it had to keep.                                                           *)
SelectionsSound == BestKept /\ SamplesSound

(* A ring buffer is the queue of its last slots items; a list has its items  *)
(* in the order they came, and SLMGET finds what SLGET finds on each of its  *)
(* paths; BITGET, BITMGET and BITCOUNT see the bits that BITSET wrote;       *)
(* IGET, IMGET and IGETALL read back what ISETALL, ISET and IDEL wrote; and  *)
(* the vectors and tables they work with hold what was put into them, and    *)
(* numbers, bits and bytes that are written as text or swapped keep their    *)
(* order and are read back.                                                  *)
ContainersFaithful ==
  /\ kind \in {"STATICVECTOR", "SMALLVECTOR"} => VectorsFaithful
  /\ kind = "HASHTABLE" => TableFaithful
  /\ kind = "PAIR" => PairFaithful
  /\ kind = "HANDLES" => HandlesOwned
  /\ kind = "NUMBER" => HexExact(box.a, box.b, box.n) /\ OrderExact(box.a, box.b, box.n)
  /\ kind = "WORD" => MortonExact(box.bits)
  /\ kind = "BITS" => BitsExact(box.a, box.b)
  /\ kind = "BYTES" => Base64Exact(box.bytes)
  /\ kind = "RB" =>
       /\ \A n \in SlotCounts : Found(n + 2) => RBGET(n) = log /\ RBCOUNT(n) = Len(log)
       /\ answer.is = "pop" => answer.item = answer.due
  /\ kind = "SL" =>
       /\ SLGETALL = log /\ SLCOUNT = Len(log)
       /\ val # <<>> => Sum(val[2]) <= val[1]
       /\ \A n, m \in 0 .. Len(log) - 1 :
            /\ SLMGET(<<n>>) = <<SLGET(n)>>
            /\ SLMGET(<<n, m>>) = <<SLGET(n), SLGET(m)>>
  /\ kind = "BITSET" =>
       /\ BITCOUNT = Total(truth)
       /\ \A n \in BitNumbers :
            /\ BITGET(n) = truth[<<0, n>>] /\ truth[<<0, n>>] \in BITMGET(<<n>>)[1]
            /\ truth[<<0, n>>] = 1 => n < BITMAX
  /\ kind = "ISAM" /\ val # <<>> /\ log # <<>> =>
       LET schema == log[1]
       IN  \A i, j \in DOMAIN schema :
             /\ IGET(schema, schema[i][2]) = log[2][schema[i][2]]
             /\ IMGET(schema, <<schema[i][2], schema[j][2]>>)
                  = <<log[2][schema[i][2]], log[2][schema[j][2]]>>
             /\ IGETALL(schema)[i] = <<schema[i][2], log[2][schema[i][2]]>>
             /\ IMGET(schema, IGETKEYS(schema))[i] = log[2][schema[i][2]]

(* After a RESERVE command the structure is empty, as its description says:  *)
(* "Create new, empty bloom filter", "Create new, empty heavy hitter".       *)
ReserveEmpties ==
  answer = Reserved =>
    val = zeros(Len(val), IF kind \in {"HHINCR", "HHDECR", "MG"} THEN EmptyItem ELSE 0)

-----------------------------------------------------------------------------
(* A small instance of the data structures; the hashes collide.              *)
MCHash(x, i)  == (x * (2 * i + 3)) + i
MCHashFP(fp)  == 2 * fp + 1
MCMixer(n)    == n \div 2
MCItems       == 1 .. 3
MCItemLists   == {<<1>>, <<2>>, <<3>>, <<1, 3>>}
MCBFShapes    == {<<4, 2>>, <<3, 1>>, <<6, 2>>}
MCCBFShapes   == {<<3, 2>>, <<3, 1>>, <<0, 1>>}
MCCMSShapes   == {<<2, 2>>, <<4, 1>>, <<0, 1>>, <<9, 9>>}
MCCFSizes     == {2, 3, 99}
MCThingLists  == {<<1>>, <<2>>, <<3>>, <<2, 1>>}
MCScores      == {1, 2, 3, 4}
MCBytes(x)    == IF x = 1 THEN 1 ELSE 2
MCSchemas     == {<<<<1, 1>>, <<2, 2>>>>, <<<<2, 2>>, <<1, 3>>>>, <<<<1, 1>>, <<1, 2>>, <<2, 3>>>>}
MCFieldVals   == {<<1>>, <<1, 2>>, <<2, 1, 1>>}
MCNumbers     == {[a |-> a, b |-> b, n |-> 1] : a \in Values(1), b \in Values(1)}
                   \cup {[a |-> a, b |-> b, n |-> 2] : a \in Values(2), b \in {0, 85, 86, 170}}
                   \cup {[a |-> a, b |-> b, n |-> 4] : a \in {0, 1, 4660, 32768, 65535}, b \in {4659, 13330}}
MCWords       == {{i, j} : i \in Bits32, j \in {0, 7, 13, 31}} \cup {{}, Bits32}
MCBitVectors  == {[a |-> a, b |-> b] : a \in [1 .. 8 -> {0, 1}],
                                       b \in {<<1, 0, 1, 0, 1, 0, 1, 0>>, <<0, 1, 1, 0, 0, 1, 1, 1>>}}
MCByteTexts   == UNION {[1 .. n -> {0, 1, 130, 255}] : n \in 0 .. 4}
MCPairKeys    == {<<1>>, <<2, 1, 1>>}
MCPairVals    == {<<>>, <<1>>, <<1, 2>>, <<2, 1, 1>>, <<1, 1, 1, 1>>}
MCIdLists     == {<<>>, <<1>>, <<2>>, <<1, 2>>, <<2, 1>>, <<3, 1>>}
MCTableFates  == {<<0, "data", "none">>} \cup ({1, 2} \X {"data"} \X {"meta", "open", "lseek", "read", "mmap"})
                   \cup ({1, 2} \X {"indx"} \X {"size", "open"}) \cup {<<1, "tree", "open">>, <<1, "keys", "read">>}
MCFileSize(id, p) ==
  CASE id = 0 -> -1
    [] id = 1 -> IF p = "line" THEN 1 ELSE 2
    [] id = 2 -> IF p \in {"data", "hash"} THEN 5 ELSE IF p = "tree" THEN -1 ELSE 2
    [] id = 3 -> IF p = "indx" THEN 0 ELSE IF p = "data" THEN 2 ELSE -1
MCTableKinds  == {<<"array", TRUE>>, <<"compact", TRUE>>, <<"compact", FALSE>>}
MCTableHash(k) == IF k = 1 THEN 4 ELSE 3 + 4 * (k % 2)
=============================================================================
