---------------------------- MODULE RedisProtocol ----------------------------
(***************************************************************************)
(* From the bytes of a request to the bytes of its answer: the parser        *)
(* (net/protocol/redisprotocol.cc), the responses (redisprotocol.h), the     *)
(* result of a command (keyvaluecommands/base.h), the worker                 *)
(* (keyvalueworker.h) and the reads and writes of AsyncLoop around it.       *)
(*                                                                         *)
(* Parameters are views into the client's buffer, and the answer is made in  *)
(* the one buffer all clients share, which then changes places with the      *)
(* client's.  BufferMemory is the memory under both.                         *)
(*                                                                         *)
(* A byte is a string: a digit, a sign, CR, LF or a whole name such as       *)
(* "ECHO", whose letters nothing here looks at.                              *)
(***************************************************************************)
EXTENDS BufferMemory, FiniteSets, SequencesExt

CONSTANTS
  Client,
  system_buffer,         \* the worker's buffer
  MAX_PARAMS,
  MAX_PARAM_SIZE,
  INT_BUFFER_SIZE,       \* characters readInt_ takes at most
  INT_RANGE,             \* int is -INT_RANGE .. INT_RANGE - 1
  to_string_buffer_size, \* room for a number
  UINT64_RANGE,          \* uint64_t is below it
  NUMBER_LIMIT,          \* numbers above it are answered as strings
  STANDARD_READ_SIZE,
  conf_maxRequestSize,
  murmur(_, _),          \* murmur_hash64a of a text and a seed
  mixer(_),              \* murmur_hash_mixer64_nz
  Wishes,                \* Wishes[c]: what c may ask for (bounds the model)
  Lumps                  \* bytes a socket gives or takes at a time (bounds the model)

(* 10 to the power of i, for the digits of a number.                         *)
power[i \in 0 .. to_string_buffer_size] == IF i = 0 THEN 1 ELSE 10 * power[i - 1]

ASSUME ProtocolAssumption ==
  /\ Buffer = Client \union {system_buffer} /\ system_buffer \notin Client
  /\ {STANDARD_READ_SIZE, conf_maxRequestSize, INT_RANGE} \subseteq Nat \ {0}
  /\ {MAX_PARAMS, MAX_PARAM_SIZE, INT_BUFFER_SIZE, NUMBER_LIMIT} \subseteq Nat
  /\ Lumps \subseteq Nat \ {0}
  /\ \A c \in Client : \A w \in Wishes[c] : w.wire \in Seq(Range(w.wire))

(* A number, a length and a count are written in a buffer of their own.      *)
ASSUME NumberAssumption ==
  /\ to_string_buffer_size \in Nat \ {0}
  /\ UINT64_RANGE \in Nat /\ UINT64_RANGE <= power[to_string_buffer_size]
  /\ {3, to_string_buffer_size, MAX_PARAMS, MAX_PARAM_SIZE} \subseteq 0 .. UINT64_RANGE - 1

VARIABLES
  m,       \* the memory of the buffers
  conn,    \* conn[c]: not connected, or what the loop waits for
  wish,    \* wish[c]: what c has asked for last
  inq,     \* inq[c]: sent by c, not read
  got,     \* got[c]: what c got of the answer
  reset,   \* reset[c]: the peer reset the connection after the event of its input
  broken   \* the assertion that stopped the process, or "no"

vars == <<m, conn, wish, inq, got, reset, broken>>

CR == "CR"
LF == "LF"
ENDLN == <<CR, LF>>
Digit == <<"0", "1", "2", "3", "4", "5", "6", "7", "8", "9">>
Digits == {Digit[i] : i \in 1 .. 10}
Signs == {"-", "+"}

-----------------------------------------------------------------------------
(* Numbers as text.                                                          *)

ValueOf(ch) == CHOOSE d \in 0 .. 9 : Digit[d + 1] = ch

(* The longest piece of src behind pos, of at most most characters of set.   *)
Run(src, pos, set, most) ==
  CHOOSE n \in 0 .. Least(most, Len(src) - pos) :
    /\ \A i \in 1 .. n : src[pos + i] \in set
    /\ n < Least(most, Len(src) - pos) => src[pos + n + 1] \notin set

(* A signed number of the width of int.                                      *)
AsInt(v) == ((v + INT_RANGE) % (2 * INT_RANGE)) - INT_RANGE

(* A sign, then digits, then anything; no digits are 0.                      *)
atoi(s) ==
  LET sign == Run(s, 0, Signs, 1)
      n    == Run(s, sign, Digits, Len(s))
      value[i \in 0 .. n] ==
        IF i = 0 THEN 0 ELSE AsInt(10 * value[i - 1] + ValueOf(s[sign + i]))
  IN  IF sign = 1 /\ s[1] = "-" THEN AsInt(- value[n]) ELSE value[n]

(* from_string<uint64_t>: digits, then anything; too large is 0.             *)
from_string(s) ==
  LET n == Run(s, 0, Digits, Len(s))
      value[i \in 0 .. n] ==
        IF i = 0 THEN 0 ELSE Least(10 * value[i - 1] + ValueOf(s[i]), UINT64_RANGE)
  IN  IF value[n] < UINT64_RANGE THEN value[n] ELSE 0

to_string(n) ==
  LET width == CHOOSE w \in 1 .. to_string_buffer_size :
                 n < power[w] /\ (w > 1 => n >= power[w - 1])
  IN  [i \in 1 .. width |-> Digit[((n \div power[width - i]) % 10) + 1]]

-----------------------------------------------------------------------------
(* RedisProtocolParser.  pos characters are behind the parser; a parameter   *)
(* is where it begins and how long it is.                                    *)

At(src, pos) == src[pos + 1]

(* A request, or what was wrong with it.                                     *)
Parsed(status, pos, params) == [status |-> status, pos |-> pos, params |-> params]

readInt_(src, pos) ==
  LET n == Run(src, pos, Digits \union Signs, INT_BUFFER_SIZE)
  IN  [value |-> atoi(SubSeq(src, pos + 1, pos + n)), pos |-> pos + n]

readLn_(src, pos) ==
  IF pos + 2 > Len(src) THEN "BUFFER_NOT_READ"
  ELSE IF At(src, pos) = CR /\ At(src, pos + 1) = LF THEN "OK"
  ELSE "ERROR"

(* Mutant: the end of the line behind a parameter is not looked for.         *)
readParamOnly(src, st) ==
  LET int == readInt_(src, st.pos + 1)
      off == int.pos + 2
  IN  IF st.status # "OK" THEN st
      ELSE IF st.pos + 2 > Len(src) \/ off + int.value > Len(src) THEN Parsed("BUFFER_NOT_READ", st.pos, <<>>)
      ELSE Parsed("OK", off + int.value + 2, Append(st.params, [off |-> off, len |-> int.value]))

(* The parameter behind st, when all before it were right.                   *)
readParam_(src, st) ==
  LET int  == readInt_(src, st.pos + 1)
      size == int.value
      head == readLn_(src, int.pos)
      off  == int.pos + 2
      tail == readLn_(src, off + size)
  IN  IF st.status # "OK" THEN st
      ELSE IF st.pos + 2 > Len(src) THEN Parsed("BUFFER_NOT_READ", st.pos, <<>>)
      ELSE IF At(src, st.pos) # "$" THEN Parsed("ERROR", st.pos, <<>>)
      ELSE IF size < 0 \/ size > MAX_PARAM_SIZE THEN Parsed("ERROR", st.pos, <<>>)
      ELSE IF head # "OK" THEN Parsed(head, st.pos, <<>>)
      ELSE IF off + size > Len(src) THEN Parsed("BUFFER_NOT_READ", st.pos, <<>>)
      ELSE IF tail # "OK" THEN Parsed(tail, st.pos, <<>>)
      ELSE Parsed("OK", off + size + 2, Append(st.params, [off |-> off, len |-> size]))

Parse(src) ==
  LET int   == readInt_(src, 1)
      count == int.value
      line  == readLn_(src, int.pos)
      upto[i \in 0 .. count] ==
        IF i = 0 THEN Parsed(line, int.pos + 2, <<>>) ELSE readParam_(src, upto[i - 1])
  IN  IF 2 > Len(src) THEN Parsed("BUFFER_NOT_READ", 0, <<>>)
      ELSE IF src[1] # "*" THEN Parsed("ERROR", 0, <<>>)
      ELSE IF count <= 0 \/ count > MAX_PARAMS THEN Parsed("ERROR", 1, <<>>)
      ELSE upto[count]

-----------------------------------------------------------------------------
(* RedisProtocol::Response.  A text is bytes of the program's own, or a view *)
(* of a block.  A response is the room it asks for and what it writes.       *)

Literal(bytes) == [blk |-> NoBlock, off |-> 0, len |-> Len(bytes), bytes |-> bytes]
View(k, off, len) == [blk |-> k, off |-> off, len |-> len, bytes |-> <<>>]

Chars(mem, t) == IF t.blk = NoBlock THEN t.bytes ELSE Held(mem, t.blk, t.off, t.len)

calc_size_int == to_string_buffer_size

calc_size_str(t) == 1 + calc_size_int + Len(ENDLN) + t.len + Len(ENDLN)

Response(size, texts) == [size |-> size, texts |-> texts]

(* One line: a mark, a text, the end.                                        *)
Line(mark, t) == <<Literal(mark), t, Literal(ENDLN)>>

responceNumberSV__(t) == Line(<<":">>, t)
responceStringNR__(t) == Line(<<"$">>, Literal(to_string(t.len))) \o <<t, Literal(ENDLN)>>

OK_ == Response(2 + Len(ENDLN), <<Literal(<<"+", "OK">>), Literal(ENDLN)>>)

Bool(b) == Response(2 + Len(ENDLN), <<Literal(IF b THEN <<":", "1">> ELSE <<":", "0">>), Literal(ENDLN)>>)

(* Mutant: the end of the line is not counted.                               *)
ErrorTooLong(msg) == Response(1 + msg.len, Line(<<"-ERR ">>, msg))

Error(msg) == Response(1 + msg.len + Len(ENDLN), Line(<<"-ERR ">>, msg))

String(msg) == Response(calc_size_str(msg), responceStringNR__(msg))

SimpleString(msg) == Response(1 + msg.len + Len(ENDLN), Line(<<"+">>, msg))

NumberU64(n) ==
  IF n > NUMBER_LIMIT
  THEN Response(calc_size_str(Literal(to_string(UINT64_RANGE - 1))), responceStringNR__(Literal(to_string(n))))
  ELSE Response(1 + calc_size_int + Len(ENDLN), responceNumberSV__(Literal(to_string(n))))

Strings(list) ==
  LET size[i \in 0 .. Len(list)] ==
        IF i = 0 THEN 1 + calc_size_int + Len(ENDLN) ELSE size[i - 1] + calc_size_str(list[i])
  IN  Response(size[Len(list)],
               Line(<<"*">>, Literal(to_string(Len(list))))
                 \o FlattenSeq([i \in DOMAIN list |-> responceStringNR__(list[i])]))

(* What a response writes, as the memory is.                                 *)
Written(mem, resp) == FlattenSeq([i \in DOMAIN resp.texts |-> Chars(mem, resp.texts[i])])

-----------------------------------------------------------------------------
(* Commands that need no database.  p holds the parameters, the name first;  *)
(* the same command answers to a name in capitals and in small letters.      *)

Answer(status, resp) == [status |-> status, resp |-> resp]
SetOK == Answer("OK", OK_)
set_error(msg) == Answer("OK", Error(Literal(msg)))
set(t) == Answer("OK", String(t))

NEED_EXACT_PARAMS_1   == <<"one parameter">>
NEED_EXACT_PARAMS_01  == <<"at most", "one parameter">>
NEED_EXACT_PARAMS_234 == <<"two, three", "or four">>
NEED_MORE_PARAMS_1    == <<"one parameter", "or more">>
SYS_NOT_IMPLEMENTED   == <<"Not", "Implemented">>

ECHO(p) == IF Len(p) # 2 THEN set_error(NEED_EXACT_PARAMS_1) ELSE set(p[2])

PING(p)    == Answer("OK", SimpleString(Literal(<<"pong">>)))
VERSION(p) == set(Literal(<<"1", ".", "3">>))
TYPE(p)    == Answer("OK", SimpleString(Literal(<<"string">>)))
TOUCH(p)   == Answer("OK", Bool(TRUE))
COMMAND(p) == set_error(SYS_NOT_IMPLEMENTED)
REM(p)     == SetOK
SELECT(p)  == SetOK
TEST(p)    == SetOK

EXIT(p)     == Answer("DISCONNECT", OK_)
SHUTDOWN(p) == Answer("SHUTDOWN", OK_)

MURMUR(mem, p) ==
  LET number(i) == IF Len(p) >= i THEN from_string(Chars(mem, p[i])) ELSE 0
      hash == murmur(Chars(mem, p[2]), number(3))
  IN  IF Len(p) \notin 2 .. 4 THEN set_error(NEED_EXACT_PARAMS_234)
      ELSE Answer("OK", NumberU64(IF number(4) # 0 THEN hash % number(4) ELSE hash))

RANDOM(mem, p) ==
  IF Len(p) \notin 1 .. 2 THEN set_error(NEED_EXACT_PARAMS_01)
  ELSE Answer("OK", NumberU64(mixer(IF Len(p) = 1 THEN 0 ELSE from_string(Chars(mem, p[2])))))

MRANDOM(mem, p) ==
  IF Len(p) < 2 THEN set_error(NEED_MORE_PARAMS_1)
  ELSE Answer("OK", Strings([i \in 1 .. Len(p) - 1 |->
                               Literal(to_string(mixer(from_string(Chars(mem, p[i + 1])))))]))

(* StorageCommands: the command of a name.                                   *)
Names == {"ECHO", "PING", "VERSION", "TYPE", "TOUCH", "COMMAND", "REM", "SELECT", "TEST",
          "EXIT", "SHUTDOWN", "MURMUR", "RANDOM", "MRANDOM"}

Known(mem, p) == \E name \in Names : Chars(mem, p[1]) = <<name>>

Execute(mem, p) ==
  CASE Chars(mem, p[1]) = <<"ECHO">>     -> ECHO(p)
    [] Chars(mem, p[1]) = <<"PING">>     -> PING(p)
    [] Chars(mem, p[1]) = <<"VERSION">>  -> VERSION(p)
    [] Chars(mem, p[1]) = <<"TYPE">>     -> TYPE(p)
    [] Chars(mem, p[1]) = <<"TOUCH">>    -> TOUCH(p)
    [] Chars(mem, p[1]) = <<"COMMAND">>  -> COMMAND(p)
    [] Chars(mem, p[1]) = <<"REM">>      -> REM(p)
    [] Chars(mem, p[1]) = <<"SELECT">>   -> SELECT(p)
    [] Chars(mem, p[1]) = <<"TEST">>     -> TEST(p)
    [] Chars(mem, p[1]) = <<"EXIT">>     -> EXIT(p)
    [] Chars(mem, p[1]) = <<"SHUTDOWN">> -> SHUTDOWN(p)
    [] Chars(mem, p[1]) = <<"MURMUR">>   -> MURMUR(mem, p)
    [] Chars(mem, p[1]) = <<"RANDOM">>   -> RANDOM(mem, p)
    [] Chars(mem, p[1]) = <<"MRANDOM">>  -> MRANDOM(mem, p)

-----------------------------------------------------------------------------
(* Result and KeyValueWorker.                                                *)

(* Mutant: what the buffer held before is not cleared.                       *)
processSetBehind(mem, b, resp) ==
  LET provided == provideBuffer(mem, b, resp.size)
      off      == mem.ctx[b].size
      bytes    == Written(provided.m, resp)
  IN  IF ~ provided.ok THEN [m |-> provided.m, fits |-> TRUE]
      ELSE [m |-> finalizeBuffer(copy(provided.m, b, off, bytes), b, off, Len(bytes)),
            fits |-> Len(bytes) <= resp.size]

(* processSet: clear, find room, write, tell how much it was.  Without room  *)
(* the buffer stays empty; fits: nothing was written past the room.          *)
processSet(mem, b, resp) ==
  LET cleared  == clear(mem, b)
      provided == provideBuffer(cleared, b, resp.size)
      off      == cleared.ctx[b].size
      bytes    == Written(provided.m, resp)
  IN  IF ~ provided.ok THEN [m |-> provided.m, fits |-> TRUE]
      ELSE [m |-> finalizeBuffer(copy(provided.m, b, off, bytes), b, off, Len(bytes)),
            fits |-> Len(bytes) <= resp.size]

Outcome(status, made) == [status |-> status, m |-> made.m, fits |-> made.fits]

(* The answer in the client's own buffer.                                    *)
emitError(mem, c, msg) ==
  LET made == processSet(mem, c, Error(Literal(msg)))
  IN  Outcome(IF Size(made.m, c) = 0 THEN "DISCONNECT_ERROR" ELSE "WRITE", made)

(* What the loop does next, and the buffers after the command.               *)
translate_(status, made, c) ==
  IF Size(made.m, system_buffer) = 0 THEN Outcome("DISCONNECT_ERROR", made)
  ELSE IF status # "OK" THEN Outcome(status, made)
  ELSE Outcome("WRITE", [made EXCEPT !.m = swap(@, system_buffer, c)])

(* The parameters where they are in the buffer.                              *)
Views(ctx, params) ==
  [i \in DOMAIN params |-> View(ctx.data, ctx.head + params[i].off, params[i].len)]

(* The answer to a command goes into the buffer all clients share.           *)
workerAnswer(mem, c, answer) ==
  translate_(answer.status, processSet(mem, system_buffer, answer.resp), c)

workerCommand(mem, c, parsed, p) ==
  LET idle == [m |-> mem, fits |-> TRUE]
  IN  IF Size(mem, c) = 0 THEN Outcome("PASS", idle)
      ELSE IF parsed.status = "BUFFER_NOT_READ" THEN Outcome("PASS", idle)
      ELSE IF parsed.status = "ERROR" THEN Outcome("DISCONNECT_ERROR", idle)
      ELSE IF ~ Known(mem, p) THEN emitError(mem, c, SYS_NOT_IMPLEMENTED)
      ELSE workerAnswer(mem, c, Execute(mem, p))

worker(mem, c) ==
  LET parsed == Parse(Data(mem, c))
  IN  workerCommand(mem, c, parsed, Views(mem.ctx[c], parsed.params))

-----------------------------------------------------------------------------
(* Clients.                                                                  *)

NoWish == [params |-> <<>>, wire |-> <<>>]

Init ==
  /\ m = InitMemory
  /\ conn = [c \in Client |-> "none"]
  /\ wish = [c \in Client |-> NoWish]
  /\ inq = [c \in Client |-> <<>>]
  /\ got = [c \in Client |-> <<>>]
  /\ reset = [c \in Client |-> FALSE]
  /\ broken = "no"

Running == broken = "no"

(* A client that is new, or has the answer to its last wish, asks.           *)
Ask(c, w) ==
  /\ Running
  /\ \/ conn[c] = "none"
     \/ conn[c] = "READ" /\ inq[c] = <<>> /\ got[c] # <<>> /\ ~ reset[c]
  /\ conn' = [conn EXCEPT ![c] = "READ"]
  /\ wish' = [wish EXCEPT ![c] = w]
  /\ inq' = [inq EXCEPT ![c] = w.wire]
  /\ got' = [got EXCEPT ![c] = <<>>]
  /\ UNCHANGED <<m, reset, broken>>

(* The connection breaks when the turn has noticed its input, not read it.   *)
Reset(c) ==
  /\ Running
  /\ conn[c] = "READ" /\ inq[c] # <<>> /\ ~ reset[c]
  /\ reset' = [reset EXCEPT ![c] = TRUE]
  /\ UNCHANGED <<m, conn, wish, inq, got, broken>>

(* The connection is forgotten, its buffer destroyed; mem: the memory before. *)
client_Disconnect(c, mem) ==
  /\ m' = clear(mem, c)
  /\ conn' = [conn EXCEPT ![c] = "none"]
  /\ wish' = [wish EXCEPT ![c] = NoWish]
  /\ inq' = [inq EXCEPT ![c] = <<>>]
  /\ got' = [got EXCEPT ![c] = <<>>]
  /\ reset' = [reset EXCEPT ![c] = FALSE]

(* A timeout, an error the selector reports, or the end of the input.        *)
Disconnect(c) ==
  /\ Running
  /\ conn[c] # "none"
  /\ client_Disconnect(c, m)
  /\ UNCHANGED broken

(* The process ends and is started again.                                    *)
Restart ==
  /\ m' = InitMemory
  /\ conn' = [c \in Client |-> "none"]
  /\ wish' = [c \in Client |-> NoWish]
  /\ inq' = [c \in Client |-> <<>>]
  /\ got' = [c \in Client |-> <<>>]
  /\ reset' = [c \in Client |-> FALSE]

(* What comes of a worker that left the buffers as out and rest in the socket.*)
client_WorkerDone(c, out, rest) ==
  /\ broken' = IF out.fits THEN "no" ELSE "answer"
  /\ CASE out.status \in {"PASS", "WRITE"} ->
            /\ m' = out.m
            /\ conn' = [conn EXCEPT ![c] = IF out.status = "WRITE" THEN "WRITE" ELSE @]
            /\ inq' = [inq EXCEPT ![c] = rest]
            /\ UNCHANGED <<wish, got, reset>>
       [] out.status \in {"DISCONNECT", "DISCONNECT_ERROR"} -> client_Disconnect(c, out.m)
       [] out.status = "SHUTDOWN" -> Restart

(* client_Worker_, after a read that left the buffers as mem.                 *)
client_Worker(c, mem, rest) == client_WorkerDone(c, worker(mem, c), rest)

Room(c) == provideBufferAtLeast(m, c, STANDARD_READ_SIZE)

Readable(c) == Running /\ conn[c] = "READ" /\ inq[c] # <<>>

(* client_Read_: without memory, disconnect.                                 *)
ReadNoRoom(c) ==
  /\ Readable(c)
  /\ ~ Room(c).ok
  /\ client_Disconnect(c, m)
  /\ UNCHANGED broken

(* read(2) of n bytes, or as many as there are and fit.                      *)
Read(c, n) ==
  LET off   == m.ctx[c].size
      size  == Least(n, Least(Len(inq[c]), Room(c).m.ctx[c].size - off))
      mem   == finalizeBuffer(copy(Room(c).m, c, off, SubSeq(inq[c], 1, size)), c, off, size)
  IN  /\ Readable(c) /\ ~ reset[c]
      /\ Room(c).ok
      /\ IF Size(mem, c) > conf_maxRequestSize
         THEN client_Disconnect(c, mem) /\ UNCHANGED broken
         ELSE client_Worker(c, mem, SubSeq(inq[c], size + 1, Len(inq[c])))

(* read(2) answers -1, which is not "<= 0" once it is a size_t: the buffer    *)
(* ends one byte before what was read last, or finalizeBuffer's assertion    *)
(* fails.  There is nothing to read after that.                              *)
ReadFails(c) ==
  LET off == m.ctx[c].size
      mem == finalizeBuffer(Room(c).m, c, off, - 1)
  IN  /\ Readable(c) /\ reset[c]
      /\ Room(c).ok
      /\ IF off = 0
         THEN broken' = "read" /\ UNCHANGED <<m, conn, wish, inq, got, reset>>
         ELSE client_Worker(c, mem, <<>>)

(* write(2) of n bytes, or as many as are left; then wait to read again.     *)
Write(c, n) ==
  LET size  == Least(n, Size(m, c))
      left  == pop(m, c, size)
  IN  /\ Running /\ conn[c] = "WRITE"
      /\ m' = left
      /\ got' = [got EXCEPT ![c] = @ \o SubSeq(Data(m, c), 1, size)]
      /\ conn' = [conn EXCEPT ![c] = IF Size(left, c) = 0 THEN "READ" ELSE @]
      /\ UNCHANGED <<wish, inq, reset, broken>>

Next ==
  \E c \in Client :
    \/ \E w \in Wishes[c] : Ask(c, w)
    \/ \E n \in Lumps : Read(c, n) \/ Write(c, n)
    \/ ReadNoRoom(c) \/ ReadFails(c) \/ Reset(c) \/ Disconnect(c)

Spec == Init /\ [][Next]_vars

-----------------------------------------------------------------------------
(* Properties.                                                               *)

(* The variables keep their types, and no input grows beyond the largest      *)
(* request (conf_maxRequestSize_); contexts are in ContextsInside.           *)
TypeOK ==
  /\ conn \in [Client -> {"none", "READ", "WRITE"}]
  /\ \A c \in Client : wish[c] \in Wishes[c] \union {NoWish}
  /\ reset \in [Client -> BOOLEAN]
  /\ broken \in {"no", "read", "answer"}
  /\ \A c \in Client : conn[c] = "READ" => Size(m, c) <= conf_maxRequestSize

(* Every block of memory is free or held by one buffer, whatever buffers     *)
(* were swapped, grown, refused or destroyed (TieredMemoryManager, IOBuffer). *)
BlocksOwned == WellKept(m)

Encode(params) ==
  Written(InitMemory, Strings([i \in DOMAIN params |-> Literal(params[i])]))

(* The bytes of an answer to parameters, made from the parameters themselves. *)
Expected(params) ==
  LET p == [i \in DOMAIN params |-> Literal(params[i])]
  IN  Written(InitMemory, IF Known(InitMemory, p) THEN Execute(InitMemory, p).resp
                          ELSE Error(Literal(SYS_NOT_IMPLEMENTED)))

(* What a client got, with what is still to be written, is the answer to its *)
(* own request, although the answer was made in a buffer all clients share   *)
(* from views into a buffer that changed places with it.  A request that is   *)
(* sent twice may be answered once: what is in the buffer behind a request    *)
(* goes away with it.  Who sends nonsense gets nothing.                      *)
(* (KeyValueWorker::translate_, Result::processSet)                          *)
AnswersExact ==
  broken = "no" =>
    \A c \in Client :
      LET all   == got[c] \o (IF conn[c] = "WRITE" THEN Data(m, c) ELSE <<>>)
          times == Len(wish[c].wire) \div Len(Encode(wish[c].params))
      IN  all # <<>> => /\ wish[c].params # <<>>
                        /\ \E n \in 1 .. times :
                             all = FlattenSeq([i \in 1 .. n |-> Expected(wish[c].params)])

(* A request is not mistaken for another while it is not complete, is found  *)
(* with its parameters when it is, and nonsense never becomes a command      *)
(* (RedisProtocolParser).                                                    *)
ParserExact ==
  \A c \in Client :
    conn[c] = "READ" /\ inq[c] = wish[c].wire /\ (\A d \in Client \ {c} : conn[d] = "none") =>
      LET wire   == wish[c].wire
          whole  == Len(Encode(wish[c].params))
          parsed == [n \in 1 .. Len(wire) |-> Parse(SubSeq(wire, 1, n))]
          params(n) == [i \in DOMAIN parsed[n].params |->
                          SubSeq(wire, parsed[n].params[i].off + 1,
                                 parsed[n].params[i].off + parsed[n].params[i].len)]
      IN  \A n \in 1 .. Len(wire) :
            IF wish[c].params = <<>> THEN parsed[n].status # "OK"
            ELSE IF n < whole THEN parsed[n].status = "BUFFER_NOT_READ"
            ELSE parsed[n].status = "OK" /\ params(n) = wish[c].params

(* No answer is longer than the room it asks for (Response::size() and        *)
(* Response::operator() count the same bytes).                               *)
AnswersFit == broken # "answer"

(* "assert(size <= buffer_.capacity())" (net/iobuffer.h): what read(2) tells  *)
(* is never more than the buffer has room for.                               *)
ReadsFit == broken # "read"

-----------------------------------------------------------------------------
(* A small instance: what clients ask for, blocks of two sizes.              *)

Says(params) == [params |-> params, wire |-> Encode(params)]

FewWishes == {Says(<< <<"ECHO">>, <<CR, LF>> >>)}

ManyWishes ==
  {Says(params) : params \in
     {<< <<"ECHO">>, <<>> >>, << <<"ECHO">> >>, << <<"ECHO">>, <<"$", "1", CR, LF>> >>,
      << <<"ECHO">>, [i \in 1 .. 20 |-> "*"] >>,
      << <<"VERSION">> >>, << <<"TYPE">> >>, << <<"TOUCH">> >>, << <<"COMMAND">> >>,
      << <<"REM">> >>, << <<"SELECT">> >>, << <<"TEST">> >>, << <<"GET">>, <<"$">> >>,
      << <<"EXIT">> >>, << <<"SHUTDOWN">> >>,
      << <<"RANDOM">> >>, << <<"RANDOM">>, <<"9", "9", "9">> >>,
      << <<"MRANDOM">> >>, << <<"MRANDOM">>, <<"1", "x">>, <<"4">> >>,
      << <<"MURMUR">> >>, << <<"MURMUR">>, <<"*", "1", CR, LF>>, <<"2">> >>,
      << <<"MURMUR">>, <<"a">>, <<"2">>, <<"7">> >>}}
  \union {[Says(<< <<"PING">> >>) EXCEPT !.wire = @ \o @]}
  \union {[params |-> <<>>, wire |-> wire] : wire \in
     {<<"*", "0", CR, LF>>, <<"*", "9", CR, LF>>, <<"*", "-", "1", CR, LF>>,
      <<"PING", CR, LF>>, <<"*", "1", LF>>, <<"*", "1", CR, LF, "4">>,
      <<"*", "1", CR, LF, "$", "-", "1", CR, LF>>,
      <<"*", "1", CR, LF, "$", "9", "9", CR, LF>>,
      <<"*", "1", CR, LF, "$", "3", CR, LF, "PING", CR, LF, "*", CR, LF>>}}

OneAsksMuch == [c \in Client |-> IF c = CHOOSE d \in Client : TRUE THEN FewWishes \union ManyWishes
                                 ELSE FewWishes]

TwoSizes    == <<18, 40>>
TwoDivisors == <<1, 4>>
TwoAndOne == <<2, 1>>
ManyChars(text, seed) == (7 * Len(text) + seed) % UINT64_RANGE
Shuffled(n) == (11 * n + 5) % UINT64_RANGE
===============================================================================
