-------------------------------- MODULE KFifo --------------------------------
(***************************************************************************)
(* The byte ring of linux/kernel/kfifo.c and include/linux/kfifo.h.        *)
(*                                                                         *)
(* A FIFO is used in one of two ways. Without a lock: one producer in      *)
(* __kfifo_put() and one consumer in __kfifo_get(), interleaved between    *)
(* any two bytes of their copies. Locked: any number of callers of         *)
(* kfifo_put(), kfifo_get() and kfifo_reset(), of which fifo->lock lets    *)
(* only one at a time be inside.                                           *)
(*                                                                         *)
(* in and out are unsigned and free running: they count modulo Modulus     *)
(* (2^32 in the code) and are reduced to a slot only when used.            *)
(***************************************************************************)
EXTENDS Integers, Sequences

CONSTANTS Values,    \* what a byte can be
          Size,      \* fifo->size, the power of two kfifo_alloc() rounds up to
          Modulus,   \* how far an unsigned int counts
          MaxLen     \* bound: the longest put or get a caller asks for

ASSUME SizeAssumption == /\ Size \in Nat \ {0} /\ Modulus \in Nat /\ MaxLen \in Nat
                         /\ \E k \in 2..Modulus : Modulus = k * Size

VARIABLES buffer,    \* fifo->buffer
          in,        \* fifo->in
          out,       \* fifo->out
          putting,   \* the bytes __kfifo_put() has accepted
          put,       \* how many of them it has copied, -1 outside __kfifo_put()
          getting,   \* how many bytes __kfifo_get() is after, -1 outside it
          copied,    \* the bytes it has copied
          got,       \* the caller's buffer when the last get returned
          locked     \* whether its users call the functions that take fifo->lock

vars == <<buffer, in, out, putting, put, getting, copied, got, locked>>
producer == <<buffer, in, putting, put>>
consumer == <<out, getting, copied, got>>

Requests == UNION {[1..n -> Values] : n \in 0..MaxLen}

Init == /\ buffer \in [0..Size - 1 -> Values]
        /\ in = 0 /\ out = 0
        /\ putting = <<>> /\ put = -1
        /\ getting = -1 /\ copied = <<>> /\ got = <<>>
        /\ locked \in BOOLEAN

-----------------------------------------------------------------------------
Least(a, b) == IF a < b THEN a ELSE b

\* __kfifo_len(): unsigned subtraction.
KfifoLen == (in - out) % Modulus

\* fifo->size - fifo->in + fifo->out.
Room == (Size - in + out) % Modulus

\* Where byte j of a copy of len bytes that starts at index start lies: the first
\* memcpy() runs to the end of the buffer, the second goes on at its beginning.
Slot(start, len, j) ==
    LET l == Least(len, Size - (start % Size))
    IN IF j < l THEN (start % Size) + j ELSE j - l

-----------------------------------------------------------------------------
(* __kfifo_put().                                                          *)

\* Mutant: one byte more than there is room for.
PutSample_OneMore(d) ==
    /\ put = -1
    /\ putting' = SubSeq(d, 1, Least(Len(d), Room + 1))
    /\ put' = 0
    /\ UNCHANGED <<buffer, in>> /\ UNCHANGED consumer

\* out is sampled once and len cut to the room it leaves.
PutSample(d) ==
    /\ put = -1
    /\ putting' = SubSeq(d, 1, Least(Len(d), Room))
    /\ put' = 0
    /\ UNCHANGED <<buffer, in>> /\ UNCHANGED consumer

PutCopy ==
    /\ put # -1 /\ put < Len(putting)
    /\ buffer' = [buffer EXCEPT ![Slot(in, Len(putting), put)] = putting[put + 1]]
    /\ put' = put + 1
    /\ UNCHANGED <<in, putting>> /\ UNCHANGED consumer

\* Mutant: without the write barrier, in can be seen before the last byte.
PutPublish_Early ==
    /\ put # -1 /\ put + 1 >= Len(putting)
    /\ in' = (in + Len(putting)) % Modulus
    /\ putting' = <<>> /\ put' = -1
    /\ UNCHANGED buffer /\ UNCHANGED consumer

PutPublish ==
    /\ put # -1 /\ put = Len(putting)
    /\ in' = (in + Len(putting)) % Modulus
    /\ putting' = <<>> /\ put' = -1
    /\ UNCHANGED buffer /\ UNCHANGED consumer

-----------------------------------------------------------------------------
(* __kfifo_get().                                                          *)

\* in is sampled once and len cut to the bytes there are.
GetSample(n) ==
    /\ getting = -1
    /\ getting' = Least(n, KfifoLen)
    /\ UNCHANGED <<out, copied, got>> /\ UNCHANGED producer

GetCopy ==
    /\ Len(copied) < getting
    /\ copied' = Append(copied, buffer[Slot(out, getting, Len(copied))])
    /\ UNCHANGED <<out, getting, got>> /\ UNCHANGED producer

GetPublish ==
    /\ getting # -1 /\ Len(copied) = getting
    /\ out' = (out + getting) % Modulus
    /\ got' = copied
    /\ getting' = -1 /\ copied' = <<>>
    /\ UNCHANGED producer

-----------------------------------------------------------------------------
(* kfifo_put(), kfifo_get() and kfifo_reset(): the same under fifo->lock.  *)

\* kfifo_get() rewinds the indices of a FIFO that it has emptied.
GetPublishLocked ==
    /\ getting # -1 /\ Len(copied) = getting
    /\ LET o == (out + getting) % Modulus
       IN IF in = o THEN in' = 0 /\ out' = 0 ELSE UNCHANGED in /\ out' = o
    /\ got' = copied
    /\ getting' = -1 /\ copied' = <<>>
    /\ UNCHANGED <<buffer, putting, put>>

KfifoReset ==
    /\ put = -1 /\ getting = -1
    /\ in' = 0 /\ out' = 0
    /\ UNCHANGED <<buffer, putting, put, getting, copied, got>>

-----------------------------------------------------------------------------
FreeNext == \/ \E d \in Requests : PutSample(d)
            \/ PutCopy \/ PutPublish
            \/ \E n \in 0..MaxLen : GetSample(n)
            \/ GetCopy \/ GetPublish

LockedNext == \/ getting = -1 /\ \E d \in Requests : PutSample(d)
              \/ PutCopy \/ PutPublish
              \/ put = -1 /\ \E n \in 0..MaxLen : GetSample(n)
              \/ GetCopy \/ GetPublishLocked
              \/ KfifoReset

Next == /\ \/ ~locked /\ FreeNext
           \/ locked /\ LockedNext
        /\ UNCHANGED locked

Spec == Init /\ [][Next]_vars

-----------------------------------------------------------------------------
(* Properties.                                                             *)

TypeOK == /\ buffer \in [0..Size - 1 -> Values]
          /\ in \in 0..Modulus - 1 /\ out \in 0..Modulus - 1
          /\ putting \in Seq(Values)
          /\ put \in Nat \cup {-1} /\ getting \in Nat \cup {-1}
          /\ copied \in Seq(Values) /\ got \in Seq(Values) /\ locked \in BOOLEAN

\* What the producer has accepted on a sample of out that may be old fits beside
\* what the consumer has not released, also when the indices have wrapped.
NeverOverfull ==
    KfifoLen + Len(putting) <= Size

\* The bytes between out and in.
Contents == [i \in 1..KfifoLen |-> buffer[(out + i - 1) % Size]]

\* While the consumer copies, the bytes it has copied and the ones it is still
\* after stay at the front of the queue: the producer never overtakes it.
ReadStable ==
    getting # -1 => /\ Len(copied) <= getting /\ getting <= KfifoLen
                    /\ copied = SubSeq(Contents, 1, Len(copied))

\* The ring never holds more than it can, and what is being read stays in it.
Consistent == TypeOK /\ NeverOverfull /\ ReadStable

Abstract == INSTANCE BoundedFifo
            WITH queue <- Contents, accepted <- putting, resettable <- locked

\* Without a lock, and across wrap-around of indices and buffer, the ring is a
\* FIFO: every get returns the oldest bytes, in order, each once, none torn. Under the
\* lock the same holds, rewinding the indices included, and only kfifo_reset() drops
\* bytes.
RefinesFifo == Abstract!FSpec
=============================================================================
