------------------------------ MODULE AVLTree ------------------------------
(***************************************************************************)
(* The memory list of the server, hm4/avllist.cc: an AVL tree whose nodes  *)
(* carry a parent pointer with the balance packed into its low bits.  The  *)
(* module works on the pointers themselves, because what is hard in the    *)
(* code is which of root_, l, r and p_ every step has to mend.             *)
(*                                                                         *)
(* A tree is [root, n]: n maps every node that is allocated to             *)
(* [l, r, p, b, pair]; a node that is freed leaves the domain of n.  The   *)
(* node of key k is k, or k + AltNode while it replaces a node of k that   *)
(* is still there.  A pair is [created, bytes]; a key is a number.         *)
(***************************************************************************)
EXTENDS Integers, Sequences, FiniteSets

NIL == 0

AltNode == 100

KeyOf(x) == x % AltNode

NoPair == [created |-> 0, bytes |-> 0]

EmptyTree == [root |-> NIL, n |-> << >>]

RemoveNode(f, x) == [y \in DOMAIN f \ {x} |-> f[y]]

---------------------------------------------------------------------------
(***************************************************************************)
(* Node: the links, and the balance that shares the word of the parent.    *)
(***************************************************************************)

NodeClear(parent, pair) ==
    [l |-> NIL, r |-> NIL, p |-> parent, b |-> 0, pair |-> pair]

setL(t, x, y) == [t EXCEPT !.n[x].l = y]

setR(t, x, y) == [t EXCEPT !.n[x].r = y]

setP(t, x, y) == [t EXCEPT !.n[x].p = y]

setBalance(t, x, b) == [t EXCEPT !.n[x].b = b]

incBalance(t, x) == [t EXCEPT !.n[x].b = @ + 1]

decBalance(t, x) == [t EXCEPT !.n[x].b = @ - 1]

deallocate_(t, x) == [t EXCEPT !.n = RemoveNode(t.n, x)]

RECURSIVE getMaxValueNode(_, _)
getMaxValueNode(t, x) ==
    IF t.n[x].r = NIL THEN x ELSE getMaxValueNode(t, t.n[x].r)

RECURSIVE getMinValueNode(_, _)
getMinValueNode(t, x) ==
    IF t.n[x].l = NIL THEN x ELSE getMinValueNode(t, t.n[x].l)

RECURSIVE UpWhileLeft(_, _, _)
UpWhileLeft(t, x, parent) ==
    IF parent # NIL /\ t.n[parent].l = x
    THEN UpWhileLeft(t, parent, t.n[parent].p)
    ELSE parent

getPredecessorNode(t, x) ==
    IF t.n[x].l # NIL
    THEN getMaxValueNode(t, t.n[x].l)
    ELSE UpWhileLeft(t, x, t.n[x].p)

RECURSIVE UpWhileRight(_, _, _)
UpWhileRight(t, x, parent) ==
    IF parent # NIL /\ t.n[parent].r = x
    THEN UpWhileRight(t, parent, t.n[parent].p)
    ELSE parent

getSuccessorNode(t, x) ==
    IF t.n[x].r # NIL
    THEN getMinValueNode(t, t.n[x].r)
    ELSE UpWhileRight(t, x, t.n[x].p)

\* height(): down the side the balances call the higher one.
RECURSIVE HeightFrom(_, _)
HeightFrom(t, x) ==
    IF x = NIL THEN 0
    ELSE 1 + HeightFrom(t, IF t.n[x].b < 0 THEN t.n[x].l ELSE t.n[x].r)

height(t) == HeightFrom(t, t.root)

---------------------------------------------------------------------------
(***************************************************************************)
(* Rotations.  fixParentAndChildren_ takes its three template arguments    *)
(* as the set of the links to mend, a subset of {"P", "L", "R"}.           *)
(***************************************************************************)

FixParent(t, node, original) ==
    LET parent == t.n[node].p IN
    CASE parent = NIL -> [t EXCEPT !.root = node]
      [] parent # NIL /\ t.n[parent].l = original -> setL(t, parent, node)
      [] OTHER -> setR(t, parent, node)

FixChild(t, node, child) == IF child = NIL THEN t ELSE setP(t, child, node)

fixParentAndChildren_(t, fix, node, original) ==
    LET tP == IF "P" \in fix THEN FixParent(t, node, original) ELSE t
        tL == IF "L" \in fix THEN FixChild(tP, node, tP.n[node].l) ELSE tP
    IN  IF "R" \in fix THEN FixChild(tL, node, tL.n[node].r) ELSE tL

rotateL_(t, n) ==
    LET r  == t.n[n].r
        c  == t.n[r].l
        t1 == FixChild(setR(t, n, c), n, c)
        t2 == setP(setL(t1, r, n), r, t1.n[n].p)
    IN  fixParentAndChildren_(t2, {"P", "L"}, r, n)

rotateR_(t, n) ==
    LET l  == t.n[n].l
        c  == t.n[l].r
        t1 == FixChild(setL(t, n, c), n, c)
        t2 == setP(setR(t1, l, n), l, t1.n[n].p)
    IN  fixParentAndChildren_(t2, {"P", "R"}, l, n)

rotateRL_(t, n) == rotateL_(rotateR_(t, t.n[n].r), n)

rotateLR_(t, n) == rotateR_(rotateL_(t, t.n[n].l), n)

\* Mutant: the balances of the two lower nodes are taken to be zero.
RightLeftZero(t, n) ==
    LET r  == t.n[n].r
        rl == t.n[r].l
    IN  rotateRL_(setBalance(setBalance(setBalance(t, rl, 0), r, 0), n, 0), n)

\* The right child is one higher: the double rotation of a right heavy node.
RightLeft(t, n) ==
    LET r  == t.n[n].r
        rl == t.n[r].l
        b  == t.n[rl].b
        t1 == setBalance(setBalance(setBalance(t, rl, 0), r, 0), n, 0)
        t2 == CASE b = 1  -> setBalance(t1, n, -1)
                [] b = -1 -> setBalance(t1, r, 1)
                [] OTHER  -> t1
    IN  rotateRL_(t2, n)

LeftRight(t, n) ==
    LET l  == t.n[n].l
        lr == t.n[l].r
        b  == t.n[lr].b
        t1 == setBalance(setBalance(setBalance(t, lr, 0), l, 0), n, 0)
        t2 == CASE b = -1 -> setBalance(t1, n, 1)
                [] b = 1  -> setBalance(t1, l, -1)
                [] OTHER  -> t1
    IN  rotateLR_(t2, n)

RECURSIVE rebalanceAfterInsert_(_, _)
rebalanceAfterInsert_(t, node) ==
    LET b == t.n[node].b
        l == t.n[node].l
        r == t.n[node].r
        parent == t.n[node].p
    IN  CASE b = 0 -> t
          [] b = 2 /\ t.n[r].b = 1 ->
                rotateL_(setBalance(setBalance(t, node, 0), r, 0), node)
          [] b = 2 /\ t.n[r].b # 1 -> RightLeft(t, node)
          [] b = -2 /\ t.n[l].b = -1 ->
                rotateR_(setBalance(setBalance(t, node, 0), l, 0), node)
          [] b = -2 /\ t.n[l].b # -1 -> LeftRight(t, node)
          [] OTHER ->
                CASE parent = NIL -> t
                  [] parent # NIL /\ t.n[parent].l = node ->
                        rebalanceAfterInsert_(decBalance(t, parent), parent)
                  [] OTHER ->
                        rebalanceAfterInsert_(incBalance(t, parent), parent)

---------------------------------------------------------------------------
(***************************************************************************)
(* rebalanceAfterErase_: unlike an insert it may rotate at every level.    *)
(***************************************************************************)

\* One turn of the loop at a node out of balance: [t, node, done].
RotateAfterErase(t, node) ==
    LET b == t.n[node].b
        l == t.n[node].l
        r == t.n[node].r
        Up(u) == [t |-> u, node |-> u.n[node].p, done |-> FALSE]
        Stop(u) == [t |-> u, node |-> node, done |-> TRUE]
    IN  CASE b = 2 /\ t.n[r].b = 1 ->
                Up(rotateL_(setBalance(setBalance(t, node, 0), r, 0), node))
          [] b = 2 /\ t.n[r].b = 0 ->
                Stop(rotateL_(setBalance(setBalance(t, node, 1), r, -1), node))
          [] b = 2 /\ t.n[r].b = -1 -> Up(RightLeft(t, node))
          [] b = -2 /\ t.n[l].b = -1 ->
                Up(rotateR_(setBalance(setBalance(t, node, 0), l, 0), node))
          [] b = -2 /\ t.n[l].b = 0 ->
                Stop(rotateR_(setBalance(setBalance(t, node, -1), l, 1), node))
          [] b = -2 /\ t.n[l].b = 1 -> Up(LeftRight(t, node))
          [] OTHER -> [t |-> t, node |-> node, done |-> FALSE]

RECURSIVE rebalanceAfterErase_(_, _)
rebalanceAfterErase_(t, start) ==
    LET s      == RotateAfterErase(t, start)
        parent == s.t.n[s.node].p
        left   == s.t.n[parent].l = s.node
        u      == IF left THEN incBalance(s.t, parent)
                          ELSE decBalance(s.t, parent)
    IN  CASE s.done \/ parent = NIL -> s.t
          [] ~s.done /\ parent # NIL /\ u.n[parent].b = (IF left THEN 1 ELSE -1) -> u
          [] OTHER -> rebalanceAfterErase_(u, parent)

---------------------------------------------------------------------------
(***************************************************************************)
(* swapLinks_ and copyLinks_: one node takes the place of another.         *)
(***************************************************************************)

SwapFields(t, a, b) ==
    [t EXCEPT !.n[a] = [t.n[b] EXCEPT !.pair = t.n[a].pair],
              !.n[b] = [t.n[a] EXCEPT !.pair = t.n[b].pair]]

\* a is the parent of b.
swapLinksRelative_(t, a, b) ==
    LET t1 == fixParentAndChildren_(SwapFields(t, a, b), {"P"}, b, a)
        t2 == setP(fixParentAndChildren_(t1, {"L", "R"}, a, NIL), a, b)
    IN  IF t2.n[b].l = b
        THEN fixParentAndChildren_(setL(t2, b, a), {"R"}, b, NIL)
        ELSE setR(fixParentAndChildren_(t2, {"L"}, b, NIL), b, a)

swapLinksNormal_(t, a, b) ==
    fixParentAndChildren_(
        fixParentAndChildren_(SwapFields(t, a, b), {"P", "L", "R"}, a, b),
        {"P", "L", "R"}, b, a)

swapLinks_(t, a, b) ==
    CASE t.n[b].p = a -> swapLinksRelative_(t, a, b)
      [] t.n[b].p # a /\ t.n[a].p = b -> swapLinksRelative_(t, b, a)
      [] OTHER -> swapLinksNormal_(t, a, b)

copyLinks_(t, a, b) ==
    LET t1 == [t EXCEPT !.n[a] = [t.n[b] EXCEPT !.pair = t.n[a].pair]]
        t2 == fixParentAndChildren_(t1, {"P", "L", "R"}, a, b)
    IN  [t2 EXCEPT !.n[b] = [@ EXCEPT !.l = NIL, !.r = NIL, !.p = NIL]]

---------------------------------------------------------------------------
(***************************************************************************)
(* The operations of the list.                                             *)
(***************************************************************************)

\* The descent all of them share: the last node met on the way to key.
RECURSIVE Descend(_, _, _)
Descend(t, x, key) ==
    LET next == IF KeyOf(x) > key THEN t.n[x].l ELSE t.n[x].r IN
    IF KeyOf(x) = key \/ next = NIL THEN x ELSE Descend(t, next, key)

getPair___(t, key) ==
    LET x == IF t.root = NIL THEN NIL ELSE Descend(t, t.root, key) IN
    IF x # NIL /\ KeyOf(x) = key THEN t.n[x].pair ELSE NoPair

\* find: the node of the key, or of the next key.
find(t, key) ==
    LET x == IF t.root = NIL THEN NIL ELSE Descend(t, t.root, key) IN
    CASE x = NIL -> NIL
      [] x # NIL /\ KeyOf(x) >= key -> x
      [] OTHER -> getSuccessorNode(t, x)

allocateNode(t, key, parent, pair) ==
    LET x == IF key \in DOMAIN t.n THEN key + AltNode ELSE key IN
    [node |-> x,
     t    |-> [t EXCEPT !.n = [y \in DOMAIN t.n \cup {x} |->
                    IF y = x THEN NodeClear(parent, pair) ELSE t.n[y]]]]

isValidForReplace(pair, old) == pair.created >= old.created

\* canInsertHintAllocatorF: the new pair fits into the bytes of the old one.
tryUpdateInPlace(pair, old) == old.bytes >= pair.bytes

\* UPDATE of the node x that holds the key already.
UpdateNode(t, x, pair, mem) ==
    LET old == t.n[x].pair
        neo == allocateNode(t, KeyOf(x), x, pair)
    IN  CASE ~isValidForReplace(pair, old) ->
                [t |-> t, status |-> "SKIP_INSERTED"]
          [] isValidForReplace(pair, old) /\ tryUpdateInPlace(pair, old) ->
                [t |-> [t EXCEPT !.n[x].pair = pair],
                 status |-> "UPDATED_IN_PLACE"]
          [] isValidForReplace(pair, old) /\ ~tryUpdateInPlace(pair, old) /\ ~mem ->
                [t |-> t, status |-> "ERROR_NO_MEMORY"]
          [] OTHER ->
                [t |-> deallocate_(copyLinks_(neo.t, neo.node, x), x),
                 status |-> "REPLACED"]

\* insertF; mem says whether the allocator has room for one more node.
insertF(t, key, pair, mem) ==
    LET x   == IF t.root = NIL THEN NIL ELSE Descend(t, t.root, key)
        neo == allocateNode(t, key, x, pair)
        Linked ==
            CASE x = NIL -> [neo.t EXCEPT !.root = neo.node]
              [] x # NIL /\ KeyOf(x) > key ->
                    rebalanceAfterInsert_(
                        decBalance(setL(neo.t, x, neo.node), x), x)
              [] OTHER ->
                    rebalanceAfterInsert_(
                        incBalance(setR(neo.t, x, neo.node), x), x)
    IN  CASE x # NIL /\ KeyOf(x) = key -> UpdateNode(t, x, pair, mem)
          [] ~(x # NIL /\ KeyOf(x) = key) /\ ~mem ->
                [t |-> t, status |-> "ERROR_NO_MEMORY"]
          [] OTHER -> [t |-> Linked, status |-> "INSERTED"]

\* Cases 1 and 2 of erase___: x has at most one child.
Unlink(t, x) ==
    LET child  == IF t.n[x].l # NIL THEN t.n[x].l ELSE t.n[x].r
        parent == t.n[x].p
        t1     == IF child = NIL THEN t ELSE setP(t, child, parent)
        left   == t1.n[parent].l = x
        t2     == IF left THEN incBalance(setL(t1, parent, child), parent)
                          ELSE decBalance(setR(t1, parent, child), parent)
        t3     == deallocate_(t2, x)
    IN  CASE parent = NIL -> [deallocate_(t1, x) EXCEPT !.root = child]
          [] parent # NIL /\ t3.n[parent].b = (IF left THEN 1 ELSE -1) -> t3
          [] OTHER -> rebalanceAfterErase_(t3, parent)

erase___(t, key) ==
    LET x    == IF t.root = NIL THEN NIL ELSE Descend(t, t.root, key)
        both == t.n[x].l # NIL /\ t.n[x].r # NIL
    IN  CASE x = NIL \/ KeyOf(x) # key -> [t |-> t, status |-> "SKIP_DELETED"]
          [] OTHER ->
                [t |-> Unlink(IF both
                              THEN swapLinks_(t, x, getMinValueNode(t, t.n[x].r))
                              ELSE t, x),
                 status |-> "DELETED"]

---------------------------------------------------------------------------
(***************************************************************************)
(* deallocateTree_: Morris traversal without a stack.  The answer is the   *)
(* sequence of the nodes freed, and whether a freed node was read.         *)
(***************************************************************************)

RECURSIVE MorrisThread(_, _, _)
MorrisThread(n, tmp, node) ==
    IF n[tmp].r = NIL \/ n[tmp].r = node THEN tmp
    ELSE MorrisThread(n, n[tmp].r, node)

RECURSIVE deallocateTree_(_, _, _)
deallocateTree_(n, node, freed) ==
    CASE node = NIL -> freed
      [] node # NIL /\ node \notin DOMAIN n -> Append(freed, node)
      [] node \in DOMAIN n /\ n[node].l = NIL ->
            deallocateTree_(RemoveNode(n, node), n[node].r, Append(freed, node))
      [] OTHER ->
            LET tmp == MorrisThread(n, n[node].l, node)
            IN  IF n[tmp].r # NIL THEN freed
                ELSE deallocateTree_(
                        [n EXCEPT ![tmp].r = node, ![node].l = NIL],
                        n[node].l, freed)

clear(t) == [t |-> EmptyTree, freed |-> deallocateTree_(t.n, t.root, << >>)]

---------------------------------------------------------------------------
(***************************************************************************)
(* Iterators: a node, NIL past the end.                                    *)
(***************************************************************************)

begin(t) == IF t.root = NIL THEN NIL ELSE getMinValueNode(t, t.root)

itNext(t, x) == getSuccessorNode(t, x)

itPrev(t, x) ==
    IF x = NIL THEN getMaxValueNode(t, t.root) ELSE getPredecessorNode(t, x)

Deref(t, x) == [key |-> KeyOf(x), pair |-> t.n[x].pair]

RECURSIVE Forward(_, _, _)
Forward(t, x, fuel) ==
    IF x = NIL \/ fuel = 0 THEN << >>
    ELSE <<Deref(t, x)>> \o Forward(t, itNext(t, x), fuel - 1)

\* From rbegin() to rend(): -- before every read, down to begin().
RECURSIVE Backward(_, _, _)
Backward(t, x, fuel) ==
    IF x = begin(t) \/ fuel = 0 THEN << >>
    ELSE LET y == itPrev(t, x) IN <<Deref(t, y)>> \o Backward(t, y, fuel - 1)

\* testALVTreeIntegrity<true>: parents, balances and the order of the keys.
RECURSIVE RealHeight(_, _)
RealHeight(t, x) ==
    IF x = NIL THEN 0
    ELSE LET hl == RealHeight(t, t.n[x].l)
             hr == RealHeight(t, t.n[x].r)
         IN  1 + (IF hl > hr THEN hl ELSE hr)

RECURSIVE testIntegrity(_, _, _)
testIntegrity(t, x, parent) ==
    x # NIL =>
        /\ t.n[x].p = parent
        /\ t.n[x].b \in -1..1
        /\ t.n[x].b = RealHeight(t, t.n[x].r) - RealHeight(t, t.n[x].l)
        /\ t.n[x].l # NIL => KeyOf(t.n[x].l) < KeyOf(x)
        /\ t.n[x].r # NIL => KeyOf(t.n[x].r) > KeyOf(x)
        /\ testIntegrity(t, t.n[x].l, x)
        /\ testIntegrity(t, t.n[x].r, x)

=============================================================================
