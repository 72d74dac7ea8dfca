--------------------------- MODULE WorkflowDefinition ---------------------------
(***************************************************************************)
(* What a workflow is made of: nodes and the connections between them.     *)
(* The schema that every definition is parsed with when it is saved, the   *)
(* sanitizing of what is stored, and the validation on request, which      *)
(* looks for more than the schema does.  Definitions do not depend on one  *)
(* another: a behaviour has one that is sent, the workflow it is saved in, *)
(* which may be of the seed, and the copy that is made of that.            *)
(***************************************************************************)
EXTENDS Naturals, FiniteSets, FiniteSetsExt, Functions, Sequences

CONSTANTS
  None,
  Ids, Empty,              \* ids of nodes; the empty string is one
  Parameters, Dangerous,   \* keys of the parameters of a node
  MaxNodes, MaxLinks       \* bounds: nodes and links of a definition

ASSUME DefinitionAssumption ==
  Empty \in Ids /\ Dangerous \subseteq Parameters /\ {MaxNodes, MaxLinks} \subseteq Nat

VARIABLES
  sent,     \* the definition of the requests
  row,      \* the definition stored, or None
  copy,     \* the definition of its duplicate, or None
  seeded,   \* row was written by the seed
  answer    \* the last answer: refused, saved or the outcome of a validation

vars == <<sent, row, copy, seeded, answer>>

\* labels: those of the node's name and type that are not empty strings; placed: it has a
\* position; params: the keys of its parameters.
Labels == {"name", "type"}
Nodes == [id : Ids, labels : SUBSET Labels, placed : BOOLEAN, params : SUBSET Parameters]

\* A record of connections has sources, some without a target; an array is the form the
\* documents describe.
Links == UNION {kSubset(k, Ids \X Ids) : k \in 0..MaxLinks}
Connections ==
  [form : {"record"}, sources : SUBSET Ids, links : Links] \cup [form : {"array"}, sources : {{}}, links : Links]

SourcesNamed(c) == c.form = "record" => \A l \in c.links : l[1] \in c.sources

Definitions ==
  [nodes : UNION {[1..n -> Nodes] : n \in 0..MaxNodes}, connections : {c \in Connections : SourcesNamed(c)}]

TypeOK ==
  /\ \A d \in {sent, row, copy} \ {None} : SourcesNamed(d.connections) /\ \A i \in DOMAIN d.nodes : d.nodes[i] \in Nodes
  /\ seeded \in BOOLEAN /\ (seeded => row # None) /\ (copy # None => row # None)
  /\ answer \in {"none", "refused", "saved", "valid", "invalid"}

-----------------------------------------------------------------------------
\* The schema.  A string that is empty is a string: it takes nodes without a name or a type.

NodeParses(n) == n.placed

Parses(d) ==
  /\ \A i \in DOMAIN d.nodes : NodeParses(d.nodes[i])
  /\ d.connections.form = "record"

-----------------------------------------------------------------------------
\* What is stored of a definition that parsed.

SanitizeParameters(params) == params \ Dangerous

Sanitize(d) ==
  [d EXCEPT !.nodes = [i \in DOMAIN d.nodes |-> [d.nodes[i] EXCEPT !.params = SanitizeParameters(@)]]]

-----------------------------------------------------------------------------
\* The validation on request.

NodeIds(nodes) == {nodes[i].id : i \in DOMAIN nodes}

IndexOf(nodes, id) == CHOOSE i \in DOMAIN nodes : nodes[i].id = id /\ \A j \in 1..i-1 : nodes[j].id # id

\* A node is a duplicate that is not the first of its id.
Duplicates(nodes) == {i \in DOMAIN nodes : IndexOf(nodes, nodes[i].id) # i}

ValidateWorkflowNodes(nodes) ==
  /\ nodes # <<>>
  /\ Duplicates(nodes) = {}
  /\ \A i \in DOMAIN nodes : nodes[i].id # Empty /\ nodes[i].labels = Labels

\* Mutant: the targets are not looked up.
MutantConnections(nodes, connections) == connections.sources \subseteq NodeIds(nodes)

ValidateWorkflowConnections(nodes, connections) ==
  /\ connections.sources \subseteq NodeIds(nodes)
  /\ \A l \in connections.links : l[2] \in NodeIds(nodes)

Valid(d) == Parses(d) /\ ValidateWorkflowNodes(d.nodes) /\ ValidateWorkflowConnections(d.nodes, d.connections)

-----------------------------------------------------------------------------
\* The operations.

CreateWorkflow ==
  /\ row = None
  /\ IF Parses(sent) THEN row' = Sanitize(sent) /\ answer' = "saved" ELSE answer' = "refused" /\ UNCHANGED row
  /\ UNCHANGED <<sent, copy, seeded>>

\* Mutant: an update stores the definition as it was parsed.
MutantUpdate ==
  /\ row # None /\ Parses(sent)
  /\ row' = sent /\ seeded' = FALSE /\ answer' = "saved"
  /\ UNCHANGED <<sent, copy>>

UpdateWorkflow ==
  /\ row # None
  /\ IF Parses(sent) THEN row' = Sanitize(sent) /\ seeded' = FALSE /\ answer' = "saved"
                     ELSE answer' = "refused" /\ UNCHANGED <<row, seeded>>
  /\ UNCHANGED <<sent, copy>>

\* A copy is created from what is stored, as if it had been sent.
DuplicateWorkflow ==
  /\ row # None
  /\ IF Parses(row) THEN copy' = Sanitize(row) /\ answer' = "saved" ELSE answer' = "refused" /\ UNCHANGED copy
  /\ UNCHANGED <<sent, row, seeded>>

ValidateWorkflowDefinition(d) ==
  /\ answer' = IF Valid(d) THEN "valid" ELSE "invalid"
  /\ UNCHANGED <<sent, row, copy, seeded>>

\* The seed writes arrays of connections between nodes without a position.
Seed ==
  {[nodes |-> <<[id |-> i, labels |-> Labels, placed |-> FALSE, params |-> {}]>>,
    connections |-> [form |-> "array", sources |-> {}, links |-> {}]] : i \in Ids \ {Empty}}

Init ==
  /\ sent \in Definitions
  /\ \/ row = None /\ seeded = FALSE
     \/ row \in Seed /\ seeded = TRUE
  /\ copy = None /\ answer = "none"

Next ==
  \/ CreateWorkflow \/ UpdateWorkflow \/ DuplicateWorkflow
  \/ \E d \in {sent, row} \ {None} : ValidateWorkflowDefinition(d)

Spec == Init /\ [][Next]_vars

-----------------------------------------------------------------------------

\* What is stored through the service would be taken again as it is: it parses, sanitizing
\* it once more changes nothing, and it is judged as what was sent, the copies included.
StoredIsFixed ==
  \A d \in {IF seeded THEN None ELSE row, copy} \ {None} :
    Parses(d) /\ Sanitize(d) = d /\ (Valid(sent) <=> Valid(d))

\* A graph: nodes told apart by their ids, all of them with a name and a type, and links
\* between them.
IsGraph(d) ==
  /\ d.nodes # <<>> /\ Cardinality(NodeIds(d.nodes)) = Len(d.nodes) /\ Empty \notin NodeIds(d.nodes)
  /\ \A n \in Range(d.nodes) : n.labels = Labels
  /\ d.connections.links \subseteq NodeIds(d.nodes) \X NodeIds(d.nodes)

\* The validation finds the graphs: of the definitions the schema takes, whose connections
\* name nodes only as the source of something, it answers that the graphs are valid.
ValidIsGraph ==
  Parses(sent) /\ (\A n \in sent.connections.sources : \E l \in sent.connections.links : l[1] = n)
    => (Valid(sent) <=> IsGraph(sent))
=============================================================================
