---------------------------------- MODULE Pipe ----------------------------------
(***************************************************************************)
(* What a stream over a file promises (module/io/stream.h): who reads it   *)
(* gets what was written, in order, whatever the sizes of the reads and    *)
(* writes; a read returns less than it was asked for only if nothing is    *)
(* left, and fails only if nothing was left before.                        *)
(***************************************************************************)
EXTENDS Integers, Sequences

VARIABLES
    mode,       \* "writing", "closed", "reading"
    sent,       \* what was given to write
    got,        \* what read gave
    answer      \* of the last read: <<>>, or <<its size, what it returned>>

pipeVars == <<mode, sent, got, answer>>

IsShorter(s, t) == Len(s) <= Len(t) /\ s = SubSeq(t, 1, Len(s))
Left == SubSeq(sent, Len(got) + 1, Len(sent))
AtMost(n, s) == IF n < Len(s) THEN SubSeq(s, 1, n) ELSE s

Init == mode = "writing" /\ sent = <<>> /\ got = <<>> /\ answer = <<>>

Write ==
    /\ mode = "writing"
    /\ Len(sent') > Len(sent) /\ IsShorter(sent, sent')
    /\ UNCHANGED <<mode, got, answer>>

Close == mode = "writing" /\ mode' = "closed" /\ UNCHANGED <<sent, got, answer>>
Open == mode = "closed" /\ mode' = "reading" /\ UNCHANGED <<sent, got, answer>>

Read(n) ==
    /\ mode = "reading"
    /\ got' = got \o AtMost(n, Left)
    /\ answer' = <<n, Len(AtMost(n, Left))>>
    /\ UNCHANGED <<mode, sent>>

Fail ==
    /\ mode = "reading"
    /\ Left = <<>>
    /\ answer' = <<>>
    /\ UNCHANGED <<mode, sent, got>>

Next == Write \/ Close \/ Open \/ Fail \/ (answer' # <<>> /\ Read(answer'[1]))

Spec == Init /\ [][Next]_pipeVars
=============================================================================
