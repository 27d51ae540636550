----------------------------- MODULE ReadUntil -----------------------------
(***************************************************************************)
(* util.c, read_until: everything a client sends is read by it into the    *)
(* recvline of its connection.  It calls read() until `size' bytes have    *)
(* come; read() may return fewer bytes than it is asked for, 0 at the end  *)
(* of the stream, and -1 for an error, which becomes the largest size_t.   *)
(***************************************************************************)
EXTENDS Integers

CONSTANTS
  Word,      \* the number of values of a size_t, 2^64 in the code
  MaxSize    \* the largest size asked for (a bound)

ASSUME WordAssumption == Word \in Nat /\ MaxSize \in Nat /\ MaxSize < Word - 1

VARIABLES
  size,      \* the argument
  sum,       \* the local sum
  off,       \* _buf - buf
  start,     \* how many bytes of the stream had been consumed at the call
  got,       \* how many have been consumed
  buf,       \* buf[k] is the number of the stream byte in it, 0 if none
  ret,       \* what was returned, -1 before
  failed,    \* history: whether a read() of this call has failed
  closed     \* whether the client has closed the stream

callVars == <<size, sum, off, start, ret, failed>>
ruVars == <<callVars, got, buf, closed>>

\* Nothing has been read, and the first call asks for n bytes.
ReadInit(n) ==
  /\ size = n /\ sum = 0 /\ off = 0 /\ start = 0 /\ ret = -1 /\ failed = FALSE
  /\ got = 0
  /\ buf = [k \in 0..MaxSize - 1 |-> 0]
  /\ closed = FALSE

\* A call; all of a call is local, but the bytes in buf stay.
Call(n) ==
  /\ size' = n /\ sum' = 0 /\ off' = 0 /\ start' = got /\ ret' = -1 /\ failed' = FALSE
  /\ UNCHANGED <<got, buf, closed>>

Advance_Not(n) == off             \* mutant: _buf is not moved on
Advance(n) == off + n

Remaining_All == size             \* mutant: the whole size is asked for again
Remaining == size - sum

Reading == ret = -1 /\ sum < size

\* read() copies n bytes of the `stream' that the client sends, at least one
\* and at most as many as remain.
ReadBytes(stream) ==
  /\ Reading /\ ~closed
  /\ \E n \in 1..Remaining :
       /\ got + n <= stream
       /\ buf' = [k \in DOMAIN buf |->
                    IF k \in off..off + n - 1 THEN got + 1 + k - off ELSE buf[k]]
       /\ got' = got + n
       /\ sum' = sum + n
       /\ off' = Advance(n)
  /\ UNCHANGED <<size, start, ret, failed, closed>>

\* read() returns 0, and so does read_until.
ReadEnd ==
  /\ Reading
  /\ ret' = 0
  /\ closed' = TRUE
  /\ UNCHANGED <<size, sum, off, start, got, buf, failed>>

\* read() returns -1: it is added to sum, modulo the word, and to _buf.
ReadError ==
  /\ Reading /\ ~closed
  /\ sum' = (sum + Word - 1) % Word
  /\ off' = off - 1
  /\ failed' = TRUE
  /\ UNCHANGED <<size, start, got, buf, ret, closed>>

Return ==
  /\ ret = -1 /\ sum >= size
  /\ ret' = sum
  /\ UNCHANGED <<size, sum, off, start, got, buf, failed, closed>>

-----------------------------------------------------------------------------
\* However the stream is cut into pieces, while no read() has failed a return
\* of `size' means that buf holds the next `size' bytes of it, in order and
\* without a gap, and that nothing behind them was taken from the stream.
ReadsInOrder ==
  ret = size /\ size > 0 /\ ~failed =>
    /\ \A k \in 0..size - 1 : buf[k] = start + k + 1
    /\ got = start + size

\* No byte of this call is stored behind the `size' bytes asked for, also when
\* reads have failed and sum and _buf have gone back.
InBounds == \A k \in DOMAIN buf : buf[k] > start => k < size

\* util.h: read_until returns the size itself, or 0, unless a read() has
\* failed: only after that can it return what its callers do not expect.
SizeOrZero == ~failed => ret \in {-1, 0, size}

=============================================================================
