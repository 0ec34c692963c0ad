-------------------------------- MODULE MCModules --------------------------------
(***************************************************************************)
(* Small modules that are joined, small modules that are saved to an       *)
(* enciphered file and loaded from it, and clients that write and read     *)
(* such a file in pieces of any size.                                      *)
(***************************************************************************)
EXTENDS ModuleFiles

CONSTANTS
    MaxSent, MaxPiece,          \* bounds of a client that is free
    x, y, c, f, g, h,           \* nodes
    Idle                        \* no description, or no routes

\* A block turned around, every byte raised by one
TurnedCipher(block) == [i \in 1 .. BlockLen |-> (block[BlockLen + 1 - i] + 1) % Base]
TurnedInvCipher(block) == [i \in 1 .. BlockLen |-> (block[BlockLen + 1 - i] + Base - 1) % Base]

\* What strings there are are short.
OpParam == <<1>>
OpConst == <<2>>
OpCopy  == <<3>>
KeyOp   == <<4>>
KeyName == <<5, 1>>
KeyData == <<6>>
BytesOf(dtype) == dtype + 1

-----------------------------------------------------------------------------
\* To be saved: x and y are parameters, c is data, f, g and h are operators.
Names == (x :> <<1>>) @@ (y :> <<2>>) @@ (c :> <<3>>) @@ (f :> <<4, 4>>) @@ (g :> <<5>>) @@ (h :> <<>>)
Packed == << Field(1, <<2, 1>>, <<3, 7, 0, 5>>), Field(0, <<>>, <<6>>), Field(0, <<0>>, <<>>) >>
BubbleMade(n) ==
    CASE n \in {x, y} -> [op |-> OpParam, name |-> Names[n], params |-> IF n = y THEN KeyData :> StringTensor(<<2>>) ELSE <<>>]
      [] n = c        -> [op |-> OpConst, name |-> Names[n], params |-> KeyData :> Packed]
      [] OTHER        -> [op |-> <<7, 0>>, name |-> Names[n], params |-> <<>>]

Described(links, outs, byName, sorted) ==
    [graph   |-> Graph([n \in {x, y, c, f, g, h} |-> BubbleMade(n)],
                       [n \in {x, y, c, f, g, h} |-> IF n \in DOMAIN links THEN links[n] ELSE <<>>]),
     outputs |-> [i \in DOMAIN outs |-> Names[outs[i]]],
     byName  |-> byName,
     inputs  |-> IF byName THEN [i \in DOMAIN sorted |-> Names[sorted[i]]] ELSE sorted]

SmallDescriptions ==
    { Described((f :> <<x, c>>) @@ (g :> <<f, f>>), <<g>>, TRUE, <<x>>),
      Described((f :> <<x>>) @@ (g :> <<f, x>>) @@ (h :> <<g, f, y>>), <<h, f>>, TRUE, <<y, x>>),
      Described((f :> <<x>>) @@ (g :> <<y>>) @@ (h :> <<g, x>>), <<f, h>>, TRUE, <<x, y>>),
      Described(f :> <<x>>, <<f>>, FALSE, <<y, x>>),
      Described(f :> <<c>>, <<x, f, x>>, FALSE, <<x>>) }

-----------------------------------------------------------------------------
\* To be joined: in module i, p and q are parameters, d is data.
FusedNodes == {"p", "q", "d", "f", "g"}
Part(i, linksF, linksG, outs, firstQ) ==
    LET own(s) == [j \in DOMAIN s |-> <<i, s[j]>>]
        graph == Graph([n \in {i} \X FusedNodes |->
                           [name |-> <<n[2]>>,
                            op |-> CASE n[2] \in {"p", "q"} -> OpParam [] n[2] = "d" -> OpConst [] OTHER -> n]],
                       [n \in {i} \X FusedNodes |->
                           own(CASE n[2] = "f" -> linksF [] n[2] = "g" -> linksG [] OTHER -> <<>>)])
        needs == {n \in Needed(graph, own(outs)) : IsParam(graph, n)}
    IN  Module(graph, SelectSeq(own(IF firstQ THEN <<"q", "p">> ELSE <<"p", "q">>), LAMBDA n : n \in needs), own(outs))

Parts(i) ==
    {Part(i, linksF, linksG, outs, firstQ) :
        linksF \in {<<"p">>, <<"d", "q">>}, linksG \in {<<"f">>, <<"f", "q", "f">>, <<"q", "p">>},
        outs \in {<<"g">>, <<"g", "f">>, <<"f", "p">>}, firstQ \in {TRUE, FALSE}}

RouteOf(in, slotOut, out, slotIn) == [in |-> in, in_out_slot |-> slotOut, out |-> out, out_in_slot |-> slotIn]

Asks(parts, wants) == [subs |-> parts, routes |-> wants]

OneRoute == {<<RouteOf(i, a, j, b)>> : i, j \in 0 .. 1, a, b \in -1 .. 1}

\* ts_Module_Fusion: one route, made by the constructor
ApiFusions ==
    {Asks(<<a, b>>, <<Route(0, slots[1], 1, slots[2])>>) :
        a \in {p \in Parts(0) : Len(p.outputs) = 2}, b \in {p \in Parts(1) : Len(p.inputs) = 2},
        slots \in (0 .. 1) \X (0 .. 1)}

\* Two modules and a route; a chain and a fork of three modules, in both orders
Last3(i) == Part(i, <<"p">>, <<"f", "q", "f">>, <<"g">>, FALSE)
SmallFusions ==
    ApiFusions
    \union
    {Asks(<<a, b>>, wants) : a \in Parts(0), b \in Parts(1), wants \in OneRoute}
    \union
    {Asks(<<a, b, Last3(2)>>, wants) : a \in Parts(0), b \in Parts(1),
        wants \in {<<RouteOf(0, 0, 1, 0), RouteOf(1, 0, 2, 0)>>, <<RouteOf(1, 0, 2, 0), RouteOf(0, 0, 1, 0)>>,
                   <<RouteOf(0, 0, 2, 1), RouteOf(1, 1, 2, 0)>>, <<RouteOf(0, 0, 1, 0), RouteOf(0, 0, 2, 1)>>,
                   <<RouteOf(0, 0, 1, 0), RouteOf(0, 1, 1, 1)>>, <<RouteOf(0, 0, 1, 0), RouteOf(1, 0, 0, 0)>>}}

-----------------------------------------------------------------------------
NoFusion ==
    /\ subs = <<>> /\ routes = <<>> /\ followed = 0
    /\ linked = <<>> /\ fused = Graph(<<>>, <<>>) /\ result = Pending

NoFile ==
    /\ wanted = Idle /\ saved = <<>> /\ writes = <<>> /\ todo = <<>> /\ asking = FALSE
    /\ input_index = <<>> /\ output_index = <<>> /\ nodes = <<>> /\ key = <<>> /\ loaded = Pending

Init ==
    /\ OpenToWrite
    /\ \/ FusionInit /\ NoFile
       \/ NoFusion /\ FilesInit
       \/ NoFusion /\ NoFile

\* A client that is not Save or Load; its bytes look like padding now and then.
IsFree == wanted = Idle /\ subs = <<>>
FreeWrite == \E n \in 1 .. MaxPiece :
                /\ Len(sent) + n <= MaxSent
                /\ Write([i \in 1 .. n |-> (Len(sent) + i) % (BlockLen + 1)])
FreeClient ==
    /\ IsFree
    /\ FreeWrite \/ Close \/ Open \/ (\E n \in 0 .. MaxPiece : Read(n)) \/ Turn
    /\ UNCHANGED moduleVars /\ UNCHANGED fusionVars

Fuse  == subs # <<>> /\ FusionNext /\ UNCHANGED fileVars /\ UNCHANGED moduleVars
Store == wanted # Idle /\ FilesNext /\ UNCHANGED fusionVars

Next == Fuse \/ Store \/ FreeClient

vars == <<fusionVars, fileVars, moduleVars>>
Spec == Init /\ [][Next]_vars
=============================================================================
