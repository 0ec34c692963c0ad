-------------------------------- MODULE Zipper --------------------------------
(***************************************************************************)
(* Zipper::zip (compiler/zipper.cpp): before a graph is folded, the        *)
(* convolutions that winograd computes faster are replaced.  The only      *)
(* option is Conv2dZipperOption, and only ARM builds have it; without      *)
(* options the graph is left alone.                                        *)
(***************************************************************************)
EXTENDS Translator

Zipping == phase = "zipping" /\ UNCHANGED module

\* KernelCommonFunc::winograd_check and the tests before it
Fits(p, n) ==
    /\ module.device = "cpu"
    /\ OpOf(p, n) \in {"conv2d", "conv2d_v2"}
    /\ {"NCHW", "winograd"} \subseteq p.bubbles[n].flags

\* Mistake: kernel_packed is copied as well.
WinogradPacked(p, n) ==
    Made(p, [p.bubbles[n] EXCEPT !.op = "conv2d_winograd"], p.links[n])

\* bubble::op, and the parameters that winograd has
Winograd(p, n) ==
    Made(p, [Bubble("conv2d_winograd", p.bubbles[n].name) EXCEPT !.flags = {"NCHW"}], p.links[n])

Zipped(p, n) == IF Fits(p, n) THEN Winograd(p, n) ELSE p

\* The kernel's value is read, also if it is not a Const.
ZipThrows(p, n) ==
    /\ module.device = "cpu" /\ OpOf(p, n) \in {"conv2d", "conv2d_v2"}
    /\ "NCHW" \in p.bubbles[n].flags
    /\ ~IsConst(p, p.links[n][PackedBy(p, n)])

-----------------------------------------------------------------------------
\* if (options.empty()) return nodes;
SkipZip ==
    /\ Zipping
    /\ ~(Arm /\ Chosen("winograd"))
    /\ phase' = "folding"
    /\ UNCHANGED <<pool, outputs, calls, results, ready>>

StartsZip == Zipping /\ Arm /\ Chosen("winograd")

UseZipped ==
    /\ StartsZip /\ Looking
    /\ LookedAt \in DOMAIN ready
    /\ ReturnTo(calls, LookedAt, ready[LookedAt], TRUE)
    /\ UNCHANGED <<phase, pool, outputs, ready>>

ZipNode ==
    /\ StartsZip /\ Looking
    /\ LookedAt \notin DOMAIN ready
    /\ ~ZipThrows(pool, LookedAt)
    /\ pool' = Zipped(pool, LookedAt)
    /\ calls' = Append(calls, CallOn(LookedAt, IF pool' = pool THEN LookedAt ELSE Newest(pool')))
    /\ UNCHANGED <<phase, outputs, results, ready>>

RejectWinograd ==
    /\ StartsZip /\ Looking
    /\ LookedAt \notin DOMAIN ready
    /\ ZipThrows(pool, LookedAt)
    /\ Rejected

\* A node some input of which is another one now is copied and linked to them.
LinkZipped ==
    /\ StartsZip /\ Seen
    /\ pool' = IF Caller.changed THEN Made(pool, pool.bubbles[Caller.new], Caller.inputs) ELSE pool
    /\ LET zipped == IF Caller.changed THEN Newest(pool') ELSE Caller.new
       IN  /\ ready' = WithEntry(ready, Caller.node, zipped)
           /\ ReturnTo(Callers, Caller.node, zipped, TRUE)
    /\ UNCHANGED <<phase, outputs>>

EndZip == StartsZip /\ AllSeen /\ NextPass("folding")

ZipNext == SkipZip \/ UseZipped \/ ZipNode \/ RejectWinograd \/ LinkZipped \/ EndZip
=============================================================================
