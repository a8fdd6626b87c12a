------------------------------- MODULE Buffers -------------------------------
(* The two buffers of the client: DataBuffer (databuffer.ts), the list of  *)
(* arrays that is written to and read from the socket, and DenoBuffer      *)
(* (denobuffer.ts), the growing array the parser puts arguments and        *)
(* payloads together in. The bytes written are told apart by their turn, a *)
(* few numbers that come round; memory nobody wrote to holds 0.            *)
EXTENDS Naturals, Sequences, SequencesExt, FiniteSetsExt

CONSTANTS
  MAX_SIZE, MIN_READ,   \* denobuffer.ts
  MaxArray,             \* bound: length of an array that is given or asked for
  MaxHeld               \* bound: bytes and arrays in a DataBuffer

VARIABLES
  bufUse,               \* the buffer that is in use, or "none"
  data,                 \* DataBuffer
  deno,                 \* DenoBuffer: mem is its ArrayBuffer, len the length of _buf
  turn,                 \* the number of the last byte written
  held                  \* the queue the buffer stands for: what was written
                        \* and neither taken out nor discarded

bufVars == <<bufUse, data, deno, turn, held>>

(* An array with the next n bytes, which go to the end of the queue. *)
Turns == 3
New(n) == [k \in 1..n |-> ((turn + k - 1) % Turns) + 1]
Put(n) == held' = held \o New(n) /\ turn' = (turn + n) % Turns

ASSUME BuffersAssumption ==
  /\ {MAX_SIZE, MIN_READ, MaxArray, MaxHeld} \subseteq Nat /\ MAX_SIZE >= Turns

(* n bytes are taken out; the first n bytes are kept. *)
Taken(n) == held' = SubSeq(held, n + 1, Len(held)) /\ UNCHANGED turn
Kept(n)  == held' = SubSeq(held, 1, n) /\ UNCHANGED turn
----------------------------------------------------------------------------
(* DataBuffer. *)
NoData == [buffers |-> <<>>, byteLength |-> 0]

fill(m, n) ==
  /\ data.byteLength + m + n <= MaxHeld /\ Len(data.buffers) < MaxHeld
  /\ data' = [buffers |-> Append(data.buffers, New(m))
                            \o (IF n = 0 THEN <<>> ELSE <<SubSeq(New(m + n), m + 1, m + n)>>),
              byteLength |-> data.byteLength + m + n]
  /\ Put(m + n)

pack(d) == IF Len(d.buffers) > 1 THEN [d EXCEPT !.buffers = <<FlattenSeq(@)>>] ELSE d

shift ==
  /\ data.buffers # <<>>
  /\ data' = [buffers |-> Tail(data.buffers), byteLength |-> data.byteLength - Len(Head(data.buffers))]
  /\ Taken(Len(Head(data.buffers)))

(* drain(n), all of it when n is undefined or too large. *)
drain(n) ==
  /\ data.buffers # <<>>
  /\ \E v \in Range(pack(data).buffers) :
       LET k == IF n > data.byteLength THEN data.byteLength ELSE n
       IN /\ Taken(k)
          /\ data' = [buffers |-> IF data.byteLength > k THEN <<SubSeq(v, k + 1, Len(v))>> ELSE <<>>,
                      byteLength |-> data.byteLength - k]

peek == data' = pack(data) /\ Taken(0)

resetData == data' = NoData /\ Kept(0)

DataStep ==
  /\ \/ \E m, n \in 0..MaxArray : fill(m, n)
     \/ \E n \in 0..MaxArray : drain(n)
     \/ shift \/ peek \/ resetData
  /\ UNCHANGED deno
----------------------------------------------------------------------------
(* DenoBuffer. *)
DenoBuffer(ab) == [mem |-> ab, len |-> Len(ab), off |-> 0]

capacity(b) == Len(b.mem)
length(b)   == b.len - b.off
bytes(b)    == SubSeq(b.mem, b.off + 1, b.len)

_reslice(b, n) == [b EXCEPT !.len = n]
reset(b)       == [_reslice(b, 0) EXCEPT !.off = 0]

copy(src, dst, off) ==
  [i \in DOMAIN dst |-> IF i \in off + 1 .. off + Len(src) THEN src[i - off] ELSE dst[i]]

(* _grow(n), and the index to write at: there is room behind the contents, *)
(* or enough of it once they slide down, or a larger array is needed.      *)
Grown(b, i) == [b |-> b, i |-> i]
TryGrowByReslice(b, n) == n <= capacity(b) - b.len
TooLarge(b, n) == capacity(b) + n > MAX_SIZE

(* Faulty variant: the bytes already read are not left behind. *)
Slid_All(b) == [b EXCEPT !.mem = copy(SubSeq(b.mem, 1, b.len), @, 0), !.off = 0]
Slid(b) == [b EXCEPT !.mem = copy(bytes(b), @, 0), !.off = 0]

Reallocated(b, n) ==
  [b EXCEPT !.mem = copy(bytes(b), [i \in 1..Min({2 * capacity(b) + n, MAX_SIZE}) |-> 0], 0), !.off = 0]

Slides(b, n) == length(b) + n <= capacity(b) \div 2

_grow(b, n) ==
  IF TryGrowByReslice(b, n) THEN Grown(_reslice(b, b.len + n), b.len)
  ELSE Grown(_reslice(IF Slides(b, n) THEN Slid(b) ELSE Reallocated(b, n), Min({length(b) + n, MAX_SIZE})),
             length(b))

(* An empty buffer is reset to recover its space. *)
Recovered(b) == IF length(b) = 0 THEN reset(b) ELSE b
Throws(b, n) == ~TryGrowByReslice(b, n) /\ ~Slides(b, n) /\ TooLarge(b, n)

write(n) ==
  LET b == Recovered(deno)
  IN IF Throws(b, n)
     THEN deno' = b /\ Taken(0)
     ELSE deno' = [_grow(b, n).b EXCEPT !.mem = copy(New(n), @, _grow(b, n).i)] /\ Put(n)

grow(n) ==
  /\ LET b == Recovered(deno)
     IN deno' = IF Throws(b, n) THEN b ELSE _reslice(_grow(b, n).b, _grow(b, n).i)
  /\ Taken(0)

(* read() into an array of n bytes. *)
read(n) ==
  LET nread == Min({n, length(deno)})
  IN /\ deno' = IF length(deno) = 0 THEN reset(deno) ELSE [deno EXCEPT !.off = @ + nread]
     /\ Taken(nread)

truncate(n) ==
  /\ n <= length(deno)
  /\ deno' = IF n = 0 THEN reset(deno) ELSE _reslice(deno, deno.off + n)
  /\ Kept(n)

(* A round of readFrom(), called by readAll() on a buffer that nothing was *)
(* read from: into the room that is there, or through an array of its own. *)
readFrom(nread) ==
  /\ deno.off = 0
  /\ IF capacity(deno) - length(deno) < MIN_READ
     THEN nread <= MIN_READ /\ write(nread)
     ELSE /\ nread <= capacity(deno) - length(deno)
          /\ deno' = _reslice([deno EXCEPT !.mem = copy(New(nread), @, length(deno))], length(deno) + nread)
          /\ Put(nread)

DenoStep ==
  /\ \E n \in 0..MaxArray : write(n) \/ grow(n) \/ read(n) \/ truncate(n) \/ readFrom(n)
  /\ UNCHANGED data
----------------------------------------------------------------------------
DataBuffer == data = NoData /\ deno = DenoBuffer(<<>>) /\ turn = 0 /\ held = <<>>

BuffersInit ==
  \/ bufUse = "DataBuffer" /\ DataBuffer
  \/ /\ bufUse = "DenoBuffer" /\ data = NoData
     /\ turn \in 0 .. Turns - 1 /\ held = [k \in 1..turn |-> k] /\ deno = DenoBuffer(held)
BuffersUnused == bufUse = "none" /\ DataBuffer

BuffersNext ==
  /\ \/ bufUse = "DataBuffer" /\ DataStep
     \/ bufUse = "DenoBuffer" /\ DenoStep
  /\ UNCHANGED bufUse

BuffersSpec == BuffersInit /\ [][BuffersNext]_bufVars
----------------------------------------------------------------------------
(* However a buffer grows, slides, packs or is cut, it is a queue: what is *)
(* in it are the bytes that were written, each once and in order, without  *)
(* those that were taken out or discarded (databuffer.ts drain(), pack();  *)
(* denobuffer.ts _grow(), read(), readFrom()).                             *)
BuffersAreQueues ==
  /\ held = IF bufUse = "DataBuffer" THEN FlattenSeq(data.buffers) ELSE bytes(deno)
  /\ data.byteLength = Len(FlattenSeq(data.buffers))
  /\ deno.off <= deno.len /\ deno.len <= capacity(deno)
=============================================================================
