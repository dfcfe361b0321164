------------------------------ MODULE LogRing -------------------------------
(***************************************************************************)
(* The ring of log messages (log.cpp on the ESP8266): every line goes      *)
(* through one line buffer into the ring, and the ring is printed in       *)
(* chunks, to a browser, the serial port, or a file at a restart or crash. *)
(*                                                                         *)
(* Text is the numbers of its bytes, counted since the start; 0 is the     *)
(* terminating NUL.  While a chunk is on its way callbacks run, and log.   *)
(***************************************************************************)
EXTENDS Integers, Sequences

CONSTANTS Size,       \* of msgBuffer->buffer, a multiple of 4
          LineLens,   \* lengths of a line; all shorter than the ring
          Chunk,      \* bytes printed at a time
          MaxBytes    \* bound of the model: bytes logged

ASSUME LogRingAssumption ==
    /\ Size \in Nat \ {0} /\ Size % 4 = 0
    /\ LineLens \subseteq 1..(Size - 1)
    /\ Chunk \in Nat \ {0} /\ MaxBytes \in Nat

VARIABLES
    ring,      \* msgBuffer->buffer
    ringHead,  \* msgBuffer->head: the NUL after the newest line
    wrapped,   \* msgBuffer->wrapped
    total,     \* history: bytes logged so far
    printing,  \* printMessageLog: "no", "old" part, "new" part, "done"
    start, len,
    out,       \* what has been printed
    calm       \* history: nothing was logged since the print began

ringVars == <<ring, ringHead, wrapped, total, printing, start, len, out, calm>>

Slots == 0..(Size - 1)

RingTypeOK ==
    /\ ring \in [Slots -> 0..MaxBytes]
    /\ ringHead \in Slots /\ ring[ringHead] = 0
    /\ wrapped \in BOOLEAN
    /\ total \in 0..MaxBytes
    /\ printing \in {"no", "old", "new", "done"}
    /\ start \in 0..Size /\ len \in 0..Size
    /\ out \in Seq(0..MaxBytes) /\ Len(out) <= 2 * Size
    /\ calm \in BOOLEAN

\* The constructor of LOG: the ring is zeroed.
RingInit ==
    /\ ring = [i \in Slots |-> 0] /\ ringHead = 0 /\ wrapped = FALSE /\ total = 0
    /\ printing = "no" /\ start = 0 /\ len = 0 /\ out = <<>> /\ calm = TRUE
-----------------------------------------------------------------------------
\* The state of the ring.
Logged == [slots |-> ring, head |-> ringHead, wrapped |-> wrapped, total |-> total]

\* A state of the ring with n more bytes; an exact fill wraps too, as the NUL
\* needs a place.
Appended(r, n) ==
    LET head == (r.head + n) % Size
        new(i) == \E k \in 0..(n - 1) : i = (r.head + k) % Size
        byte(i) == r.total + 1 + (IF i >= r.head THEN i ELSE i + Size) - r.head
    IN  [slots |-> [i \in Slots |-> IF i = head THEN 0
                                    ELSE IF new(i) THEN byte(i) ELSE r.slots[i]],
         head |-> head,
         wrapped |-> r.wrapped \/ r.head + n >= Size,
         total |-> r.total + n]

\* logToBuffer.  Telling the browsers of a line may log another one, which goes
\* to the ring as well, but is not passed on itself (inFn).
LogToBuffer ==
    \E n \in LineLens, nested \in LineLens \cup {0} :
        LET once == Appended(Logged, n)
            all  == IF nested = 0 THEN once ELSE Appended(once, nested)
        IN  /\ all.total <= MaxBytes
            /\ ring' = all.slots /\ ringHead' = all.head
            /\ wrapped' = all.wrapped /\ total' = all.total
            /\ calm' = FALSE
            /\ UNCHANGED <<printing, start, len, out>>

\* (mutant) Rounded down, to where the newest text is.
OldestDown == ((ringHead \div 4) * 4) % Size
\* Where the oldest text begins: behind the NUL, rounded up to a multiple of 4.
Oldest == (((ringHead + 1 + 3) \div 4) * 4) % Size

\* strlen(msgBuffer->buffer).
TextLen == CHOOSE n \in Slots : ring[n] = 0 /\ \A i \in 0..(n - 1) : ring[i] # 0

PrintBegins ==
    /\ printing \in {"no", "done"}
    /\ calm' = TRUE /\ out' = <<>>
    /\ IF wrapped
       THEN printing' = "old" /\ start' = Oldest /\ len' = Size - Oldest
       ELSE printing' = "new" /\ start' = 0 /\ len' = TextLen
    /\ UNCHANGED <<ring, ringHead, wrapped, total>>

\* The next chunk, and the new part after the old one.
PrintChunk ==
    /\ printing \in {"old", "new"}
    /\ LET chunk == IF len < Chunk THEN len ELSE Chunk
       IN  IF len > 0
           THEN /\ out' = out \o [i \in 1..chunk |-> ring[start + i - 1]]
                /\ start' = start + chunk /\ len' = len - chunk
                /\ UNCHANGED printing
           ELSE /\ UNCHANGED out
                /\ IF printing = "old"
                   THEN printing' = "new" /\ start' = 0 /\ len' = TextLen
                   ELSE printing' = "done" /\ UNCHANGED <<start, len>>
    /\ UNCHANGED <<ring, ringHead, wrapped, total, calm>>

RingNext == LogToBuffer \/ PrintBegins \/ PrintChunk
RingSpec == RingInit /\ [][RingNext]_ringVars
-----------------------------------------------------------------------------
\* What is printed is the end of everything logged, once, in order and up to its
\* last byte, and of a ring that has wrapped at most three bytes fewer than it
\* holds - if nothing is logged meanwhile, and the head is not within the last four
\* places of the ring, where Oldest is 0 and the whole ring is printed before its
\* first part is printed again.
LogReadsInOrder ==
    printing = "done" /\ calm /\ (wrapped => ringHead < Size - 4) =>
        /\ out = [i \in 1..Len(out) |-> total - Len(out) + i]
        /\ Len(out) >= IF wrapped THEN Size - 4 ELSE total
=============================================================================
