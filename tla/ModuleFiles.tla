------------------------------- MODULE ModuleFiles -------------------------------
(***************************************************************************)
(* Module::Save and Module::Load (module/module.cpp) with what they call:  *)
(* serialize_nodes (module/menu.cpp), Bubble::serialize (module/bubble.cpp)*)
(* and Tensor::serialize (core/tensor.cpp), and their counterparts.        *)
(*                                                                         *)
(* A file says nothing of its structure but sizes, so that Load must ask   *)
(* for what Save wrote, piece by piece; here they do so through an         *)
(* enciphered file.  One action writes or asks for one piece; todo is what *)
(* the functions that run have yet to read, the innermost first.           *)
(***************************************************************************)
EXTENDS EncryptedFile, Modules

CONSTANTS
    WordLen,            \* bytes of an uint32_t
    HeaderLen,          \* Header::data
    ModuleCode,         \* TS_MODULE_CODE_V1
    OpKey, NameKey,     \* the parameters a bubble keeps its op and name in
    TypeBytes(_),       \* by dtype
    Descriptions        \* what is saved: graph, names of outputs and of inputs

VARIABLES
    wanted,     \* what the file is to say: a member of Descriptions
    saved,      \* the module that is made and saved: <<>> before
    writes,     \* the pieces Save has yet to write
    todo,       \* the pieces Load has yet to read
    asking,     \* a read was called
    input_index, output_index,  \* the lists Load has read
    nodes,      \* what externalize_nodes has made
    key,        \* the parameter that is read
    loaded      \* Pending, Thrown, or Made(the module)

loadVars == <<todo, asking, input_index, output_index, nodes, key, loaded>>
moduleVars == <<wanted, saved, writes, todo, asking, input_index, output_index, nodes, key, loaded>>

-----------------------------------------------------------------------------
\* An uint32_t, its low byte first
Word(n) == [i \in 1 .. WordLen |-> (n \div Base ^ (i - 1)) % Base]
Number(bytes) == FoldLeftDomain(LAMBDA sum, i : sum + bytes[i] * Base ^ (i - 1), 0, bytes)

\* A tensor is the sequence of its fields; tensor::from(string) has one, of chars.
Chars == 0
Field(dtype, sizes, memory) == [dtype |-> dtype, sizes |-> sizes, memory |-> memory]
StringTensor(s) == << Field(Chars, <<Len(s)>>, s) >>

\* m_params: op and name are among them
Params(b) == b.params @@ (OpKey :> StringTensor(b.op)) @@ (NameKey :> StringTensor(b.name))
BubbleWith(op, name, params) ==
    [op |-> op, name |-> name, params |-> [k \in DOMAIN params \ {OpKey, NameKey} |-> params[k]]]

\* Sequences of pieces.  Those of a field, of a parameter, of a bubble:
FieldPieces(f) == <<<<f.dtype>>, Word(Len(f.sizes))>>
                    \o [i \in DOMAIN f.sizes |-> Word(f.sizes[i])] \o <<f.memory>>
ParamPieces(k, tensor) ==
    <<Word(Len(k)), k, Word(Len(tensor))>> \o FlattenSeq([i \in DOMAIN tensor |-> FieldPieces(tensor[i])])
BubblePieces(b, keys) ==
    LET own == SelectSeq(keys, LAMBDA k : k \in DOMAIN Params(b))
    IN  <<Word(Len(own))>> \o FlattenSeq([i \in DOMAIN own |-> ParamPieces(own[i], Params(b)[own[i]])])

ListPieces(s) == <<Word(Len(s))>> \o [i \in DOMAIN s |-> Word(s[i])]

\* Indices into order are counted from 0.
IndexIn(order, n) == (CHOOSE i \in DOMAIN order : order[i] = n) - 1
IndicesIn(order, s) == [i \in DOMAIN s |-> IndexIn(order, s[i])]

\* The depth list_reference_nodes arrives at: see NodeRefs
RECURSIVE Below(_, _, _)
Below(mod, outputs, n) ==
    LET users == {m \in Needed(mod, outputs) : n \in Range(mod.links[m])}
    IN  IF users = {} THEN 1 ELSE 1 + Max({Below(mod, outputs, m) : m \in users})

\* Nodes the outputs need, the deepest first, in any order that is left
Schedules(mod) ==
    {s \in SetToSeqs(Needed(mod, mod.outputs)) :
        \A i, j \in DOMAIN s : i < j => Below(mod, mod.outputs, s[i]) >= Below(mod, mod.outputs, s[j])}

\* The nodes that are written: inputs no output needs come behind the others.
WrittenNodes(mod, schedule) ==
    schedule \o SelectSeq(mod.inputs, LAMBDA n : n \notin Range(schedule))

\* Save: header, inputs, outputs, nodes.  The order of the keys of a bubble is
\* that of a hash table.
SavedPieces(mod, order, keys) ==
    <<Word(0), Word(ModuleCode), [i \in 1 .. HeaderLen |-> 0]>>
    \o ListPieces(IndicesIn(order, mod.inputs))
    \o ListPieces(IndicesIn(order, mod.outputs))
    \o <<Word(Len(order))>>
    \o FlattenSeq([i \in DOMAIN order |->
           BubblePieces(mod.bubbles[order[i]], keys) \o ListPieces(IndicesIn(order, mod.links[order[i]]))])

-----------------------------------------------------------------------------
FilesInit ==
    /\ wanted \in Descriptions
    /\ saved = <<>> /\ writes = <<>>
    /\ todo = <<>> /\ asking = FALSE
    /\ input_index = <<>> /\ output_index = <<>> /\ nodes = <<>> /\ key = <<>>
    /\ loaded = Pending

\* Inputs are sorted by their names, or are given as nodes and may be more than needed.
Sorted(mod) == IF wanted.byName THEN sort_named(mod, wanted.inputs) ELSE sort_inputs(mod, wanted.inputs)

\* Module::Load(graph, outputs) and sort_inputs; Save begins.
Make ==
    /\ saved = <<>>
    /\ \E mod \in load_named(wanted.graph, wanted.outputs) : \E sorted \in Sorted(mod) :
          \E order \in {WrittenNodes(sorted, s) : s \in Schedules(sorted)},
             keys \in SetToSeqs(UNION {DOMAIN Params(sorted.bubbles[n]) : n \in Nodes(sorted)}) :
             /\ saved' = sorted
             /\ writes' = SavedPieces(sorted, order, keys)
    /\ UNCHANGED wanted /\ UNCHANGED loadVars /\ UNCHANGED fileVars

\* binio::write
SavePiece ==
    /\ writes # <<>>
    /\ Write(Head(writes))
    /\ writes' = Tail(writes)
    /\ UNCHANGED <<wanted, saved>> /\ UNCHANGED loadVars

Saved ==
    /\ saved # <<>> /\ writes = <<>>
    /\ Close
    /\ UNCHANGED moduleVars

-----------------------------------------------------------------------------
\* What is to be read: a number, or size bytes
Piece(what) == [what |-> what, size |-> WordLen]
Sized(what, size) == [what |-> what, size |-> size]
Times(n, pieces) == FlattenSeq([i \in 1 .. n |-> pieces])

\* Load: the header, two lists of indices, and the graph
StartLoad ==
    /\ saved # <<>>
    /\ Open
    /\ todo' = <<Piece("fake"), Piece("code"), Sized("data", HeaderLen),
                 Piece("inputs"), Piece("outputs"), Piece("nodes")>>
    /\ UNCHANGED <<wanted, saved, writes, asking, input_index, output_index, nodes, key, loaded>>

\* The node, and of its bubble the parameter and field, that are being read
This  == Len(nodes)
Param == nodes[This].params[key]

\* Prototype::count() * type_bytes()
MemorySize(f) == FoldLeft(LAMBDA count, size : count * size, 1, f.sizes) * TypeBytes(f.dtype)

SizeOf(piece) == IF piece.what = "memory" THEN MemorySize(Last(Param)) ELSE piece.size

\* binio::read; it returns after some turns.
Ask ==
    /\ todo # <<>> /\ ~asking
    /\ Read(SizeOf(Head(todo)))
    /\ asking' = TRUE
    /\ UNCHANGED <<wanted, saved, writes, todo, input_index, output_index, nodes, key, loaded>>

\* The bytes the last read returned
Given == SubSeq(got, Len(got) - answer[2] + 1, Len(got))

\* One of these has arrived; how many bytes came is not looked at.
Arrived(whats) ==
    /\ asking /\ CanRead /\ todo # <<>> /\ answer # <<>>
    /\ Head(todo).what \in whats
    /\ asking' = FALSE
    /\ UNCHANGED <<wanted, saved, writes>> /\ UNCHANGED fileVars

\* The rest of what is to be read, behind pieces
Then(pieces) == todo' = pieces \o Tail(todo)

Header ==
    /\ Arrived({"fake", "code", "data"})
    /\ Then(<<>>)
    /\ loaded' = IF Head(todo).what = "code" /\ Number(Given) # ModuleCode THEN Thrown ELSE loaded
    /\ UNCHANGED <<input_index, output_index, nodes, key>>

\* A count, and what is counted
Counted(what) ==
    CASE what = "inputs"  -> <<Piece("input")>>
      [] what = "outputs" -> <<Piece("output")>>
      [] what = "nodes"   -> <<Piece("params"), Piece("links")>>
      [] what = "links"   -> <<Piece("link")>>
      [] what = "fields"  -> <<Sized("dtype", 1), Piece("sizes")>>
      [] what = "sizes"   -> <<Piece("size")>>

Count ==
    /\ Arrived({"inputs", "outputs", "nodes", "links", "fields", "sizes"})
    /\ LET what == Head(todo).what
       IN  Then(Times(Number(Given), Counted(what))
                   \o (IF what = "sizes" THEN <<Sized("memory", 0)>> ELSE <<>>))
    /\ UNCHANGED <<input_index, output_index, nodes, key, loaded>>

Index ==
    /\ Arrived({"input", "output", "link"})
    /\ Then(<<>>)
    /\ LET what == Head(todo).what
           n    == Number(Given)
       IN  /\ input_index' = IF what = "input" THEN Append(input_index, n) ELSE input_index
           /\ output_index' = IF what = "output" THEN Append(output_index, n) ELSE output_index
           /\ nodes' = IF what = "link" THEN [nodes EXCEPT ![This].links = Append(@, n)] ELSE nodes
    /\ UNCHANGED <<key, loaded>>

\* Bubble::externalize begins with a bubble without parameters.
NewBubble ==
    /\ Arrived({"params"})
    /\ Then(Times(Number(Given), <<Piece("key size"), Piece("fields")>>))
    /\ nodes' = Append(nodes, [params |-> <<>>, links |-> <<>>])
    /\ UNCHANGED <<input_index, output_index, key, loaded>>

KeySize ==
    /\ Arrived({"key size"})
    /\ Then(<<Sized("key", Number(Given))>>)
    /\ UNCHANGED <<input_index, output_index, nodes, key, loaded>>

\* A tensor begins without fields.
Key ==
    /\ Arrived({"key"})
    /\ Then(<<>>)
    /\ key' = Given
    /\ nodes' = [nodes EXCEPT ![This].params = (Given :> <<>>) @@ @]
    /\ UNCHANGED <<input_index, output_index, loaded>>

\* The parameter that is read becomes tensor.
SetParam(tensor) == nodes' = [nodes EXCEPT ![This].params = (key :> tensor) @@ @]

\* externalize_prototype_memory: dtype, sizes, memory of a field
TakeField ==
    /\ Arrived({"dtype", "size", "memory"})
    /\ Then(<<>>)
    /\ LET what  == Head(todo).what
           field == Last(Param)
       IN  SetParam(CASE what = "dtype"  -> Append(Param, Field(Given[1], <<>>, <<>>))
                      [] what = "size"   -> Append(Front(Param), [field EXCEPT !.sizes = Append(@, Number(Given))])
                      [] what = "memory" -> Append(Front(Param), [field EXCEPT !.memory = Given]))
    /\ UNCHANGED <<input_index, output_index, key, loaded>>

\* externalize_nodes links what it has made; nodes are counted from 0.
Text(tensor) == tensor[1].memory
LoadedGraph ==
    Graph([i \in 0 .. Len(nodes) - 1 |->
              LET p == nodes[i + 1].params IN BubbleWith(Text(p[OpKey]), Text(p[NameKey]), p)],
          [i \in 0 .. Len(nodes) - 1 |-> nodes[i + 1].links])

\* Mistake: the inputs stay as graph_walker lists them.
FinishLoadUnsorted ==
    /\ mode = "reading" /\ todo = <<>> /\ saved # <<>> /\ loaded = Pending
    /\ \E mods \in {load(LoadedGraph, output_index)} : loaded' \in Outcomes(mods)
    /\ UNCHANGED <<wanted, saved, writes, todo, asking, input_index, output_index, nodes, key>>
    /\ UNCHANGED fileVars

\* Load ends: graph_walker may not list the inputs as the file does.
FinishLoad ==
    /\ mode = "reading" /\ todo = <<>> /\ saved # <<>> /\ loaded = Pending
    /\ \E mods \in {UNION {sort_inputs(mod, input_index) : mod \in load(LoadedGraph, output_index)}} :
          loaded' \in Outcomes(mods)
    /\ UNCHANGED <<wanted, saved, writes, todo, asking, input_index, output_index, nodes, key>>
    /\ UNCHANGED fileVars

FilesNext ==
    \/ Make \/ SavePiece \/ Saved \/ StartLoad \/ Ask
    \/ Header \/ Count \/ Index \/ NewBubble \/ KeySize \/ Key \/ TakeField \/ FinishLoad
    \/ Turn /\ UNCHANGED moduleVars

-----------------------------------------------------------------------------
\* The values of the outputs of mod, as terms over the bubbles of its parameters
Computes(mod) ==
    [i \in DOMAIN mod.outputs |->
        ValueOf(mod, mod.outputs[i], [n \in {m \in Nodes(mod) : IsParam(mod, m)} |-> <<"input", mod.bubbles[n]>>])]

Signature(mod) == [i \in DOMAIN mod.inputs |-> mod.bubbles[mod.inputs[i]]]

\* A module that is saved and loaded again is the module: the same inputs, in
\* their order, with the parameters they have, the same terms for its outputs,
\* and as many nodes, so that what was shared still is.  The file holds only
\* indices into an order that std::sort and two hash tables leave open.
LoadedAsSaved ==
    /\ loaded # Thrown
    /\ loaded.is = "made" =>
          /\ Signature(loaded.module) = Signature(saved)
          /\ Computes(loaded.module) = Computes(saved)
          /\ Cardinality(Nodes(loaded.module))
                = Cardinality(Needed(saved, saved.outputs) \union Range(saved.inputs))
=============================================================================
