----------------------------- MODULE WorkflowProofs -----------------------------
(***************************************************************************)
(* Proofs about the workflows table: what is stored of a definition        *)
(* (WorkflowDefinition), and the rows with the executions that hang on     *)
(* them (WorkflowLifecycle, here Lifecycle), for all sets of names,        *)
(* parameters, workflows, executions and callers.                          *)
(*                                                                         *)
(* A stored definition is what was sent, sanitized; that sanitizing twice  *)
(* is sanitizing once gives the copies.  The race of a delete needs the    *)
(* foreign key, and that what a delete has counted is not counted anew     *)
(* while the workflow stays.                                               *)
(***************************************************************************)
EXTENDS MCWorkflows, SequenceTheorems, FiniteSetTheorems, TLAPS

-----------------------------------------------------------------------------
\* What the service has stored is what was sent, sanitized; the seed parses never.
StoredIsSent ==
  /\ sent \in Definitions
  /\ row # None => (seeded /\ row \in Seed) \/ (Parses(sent) /\ row = Sanitize(sent))
  /\ copy # None => Parses(sent) /\ copy = Sanitize(sent)


-----------------------------------------------------------------------------
(***************************************************************************)
(* Sanitizing.                                                             *)
(***************************************************************************)

LEMMA DefinitionParts ==
  ASSUME NEW d \in Definitions
  PROVE  /\ d = [nodes |-> d.nodes, connections |-> d.connections]
         /\ d.nodes \in Seq(Nodes) /\ SourcesNamed(d.connections)
         /\ d.connections.links \subseteq Ids \X Ids
<1>1. /\ d = [nodes |-> d.nodes, connections |-> d.connections]
      /\ d.nodes \in UNION {[1..n -> Nodes] : n \in 0..MaxNodes}
      /\ d.connections \in Connections /\ SourcesNamed(d.connections)
  BY DEF Definitions
<1>2. d.nodes \in Seq(Nodes)
  <2>1. PICK n \in 0..MaxNodes : d.nodes \in [1..n -> Nodes]
    BY <1>1
  <2>2. n \in Nat /\ d.nodes = [i \in 1..n |-> d.nodes[i]] /\ \A i \in 1..n : d.nodes[i] \in Nodes
    BY <2>1
  <2> QED BY <2>2
<1>3. Links \subseteq SUBSET (Ids \X Ids)
  BY DEF Links, kSubset
<1>4. d.connections.links \in Links
  BY <1>1 DEF Connections
<1> QED BY <1>1, <1>2, <1>3, <1>4

\* Sanitizing takes parameters away and nothing else.
LEMMA SanitizeNodes ==
  ASSUME NEW d \in Definitions
  PROVE  /\ Sanitize(d).connections = d.connections
         /\ Sanitize(d).nodes = [i \in 1..Len(d.nodes) |->
                                   [d.nodes[i] EXCEPT !.params = SanitizeParameters(d.nodes[i].params)]]
         /\ Sanitize(d) = [nodes |-> Sanitize(d).nodes, connections |-> d.connections]
         /\ Sanitize(d).nodes \in Seq(Nodes) /\ Len(Sanitize(d).nodes) = Len(d.nodes)
         /\ \A i \in 1..Len(d.nodes) :
              /\ Sanitize(d).nodes[i].id = d.nodes[i].id /\ Sanitize(d).nodes[i].placed = d.nodes[i].placed
              /\ Sanitize(d).nodes[i].labels = d.nodes[i].labels
              /\ Sanitize(d).nodes[i].params = d.nodes[i].params \ Dangerous
<1> DEFINE clean == [i \in 1..Len(d.nodes) |->
                       [d.nodes[i] EXCEPT !.params = SanitizeParameters(d.nodes[i].params)]]
<1>1. /\ d = [nodes |-> d.nodes, connections |-> d.connections] /\ d.nodes \in Seq(Nodes)
      /\ Len(d.nodes) \in Nat /\ DOMAIN d.nodes = 1..Len(d.nodes)
  BY DefinitionParts
<1>2. Sanitize(d) = [d EXCEPT !.nodes = clean]
  BY <1>1 DEF Sanitize
<1>3. Sanitize(d) = [nodes |-> clean, connections |-> d.connections]
  <2> HIDE DEF clean
  <2> QED BY <1>1, <1>2
<1>4. ASSUME NEW i \in 1..Len(d.nodes)
      PROVE  /\ clean[i] \in Nodes /\ clean[i].id = d.nodes[i].id /\ clean[i].placed = d.nodes[i].placed
             /\ clean[i].labels = d.nodes[i].labels
             /\ clean[i].params = d.nodes[i].params \ Dangerous
  <2>1. d.nodes[i] \in Nodes
    BY <1>1
  <2>2. clean[i] = [d.nodes[i] EXCEPT !.params = d.nodes[i].params \ Dangerous]
    BY DEF SanitizeParameters
  <2> QED BY <2>1, <2>2 DEF Nodes
<1>5. clean \in [1..Len(d.nodes) -> Nodes]
  BY <1>4
<1>6. clean \in Seq(Nodes) /\ Len(clean) = Len(d.nodes)
  <2>1. clean \in Seq(Nodes)
    BY <1>1, <1>4
  <2>2. DOMAIN clean = 1..Len(d.nodes) /\ DOMAIN clean = 1..Len(clean) /\ Len(clean) \in Nat
    BY <1>5, <2>1, LenProperties
  <2> HIDE DEF clean
  <2> QED BY <1>1, <2>1, <2>2
<1>7. Sanitize(d).connections = d.connections /\ Sanitize(d).nodes = clean
  <2> HIDE DEF clean
  <2> QED BY <1>3
<1> QED BY <1>3, <1>4, <1>6, <1>7

\* Once is enough.
LEMMA SanitizeTwice == ASSUME NEW d \in Definitions PROVE Sanitize(Sanitize(d)) = Sanitize(d)
<1> DEFINE t == Sanitize(d)
<1>1. /\ t = [nodes |-> t.nodes, connections |-> t.connections] /\ t.nodes \in Seq(Nodes)
      /\ \A i \in 1..Len(t.nodes) : t.nodes[i].params \cap Dangerous = {}
  BY SanitizeNodes
<1> HIDE DEF t
<1>2. DOMAIN t.nodes = 1..Len(t.nodes) /\ t.nodes \in [1..Len(t.nodes) -> Nodes]
  BY <1>1, LenProperties
<1>3. ASSUME NEW i \in DOMAIN t.nodes
      PROVE  [t.nodes[i] EXCEPT !.params = SanitizeParameters(t.nodes[i].params)] = t.nodes[i]
  <2>1. t.nodes[i] \in Nodes /\ t.nodes[i].params \ Dangerous = t.nodes[i].params
    BY <1>1, <1>2
  <2> QED BY <2>1 DEF Nodes, SanitizeParameters
<1>4. [i \in DOMAIN t.nodes |-> [t.nodes[i] EXCEPT !.params = SanitizeParameters(t.nodes[i].params)]] = t.nodes
  BY <1>2, <1>3
<1>5. Sanitize(t) = [t EXCEPT !.nodes = t.nodes]
  BY <1>4 DEF Sanitize
<1>6. Sanitize(t) = t
  BY <1>1, <1>5
<1> QED BY <1>6 DEF t

\* Their ids and labels are all that the validation looks at of the nodes.
LEMMA IdsAndLabelsDecide ==
  ASSUME NEW m \in Seq(Nodes), NEW n \in Seq(Nodes), Len(m) = Len(n),
         \A i \in 1..Len(n) : m[i].id = n[i].id /\ m[i].labels = n[i].labels
  PROVE  NodeIds(m) = NodeIds(n) /\ (ValidateWorkflowNodes(m) <=> ValidateWorkflowNodes(n))
<1>1. DOMAIN m = 1..Len(n) /\ DOMAIN n = 1..Len(n) /\ Len(n) \in Nat
  BY LenProperties
<1>2. NodeIds(m) = NodeIds(n)
  BY <1>1 DEF NodeIds
<1>3. \A id : IndexOf(m, id) = IndexOf(n, id)
  <2> TAKE id
  <2>1. \A i \in DOMAIN n : 
          (m[i].id = id /\ \A j \in 1..i-1 : m[j].id # id) <=> (n[i].id = id /\ \A j \in 1..i-1 : n[j].id # id)
    BY <1>1
  <2> QED BY <1>1, <2>1 DEF IndexOf
<1>4. Duplicates(m) = Duplicates(n)
  BY <1>1, <1>3 DEF Duplicates
<1>5. m = <<>> <=> n = <<>>
  BY EmptySeq
<1> QED BY <1>1, <1>2, <1>4, <1>5 DEF ValidateWorkflowNodes

LEMMA SanitizeJudged ==
  ASSUME NEW d \in Definitions
  PROVE  (Parses(Sanitize(d)) <=> Parses(d)) /\ (Valid(Sanitize(d)) <=> Valid(d))
<1> DEFINE t == Sanitize(d)
<1>1. /\ t.connections = d.connections /\ t.nodes \in Seq(Nodes) /\ d.nodes \in Seq(Nodes) /\ Len(t.nodes) = Len(d.nodes)
      /\ \A i \in 1..Len(d.nodes) : /\ t.nodes[i].id = d.nodes[i].id /\ t.nodes[i].placed = d.nodes[i].placed
                                    /\ t.nodes[i].labels = d.nodes[i].labels
  BY SanitizeNodes, DefinitionParts
<1> HIDE DEF t
<1>2. Parses(t) <=> Parses(d)
  <2>1. DOMAIN t.nodes = 1..Len(d.nodes) /\ DOMAIN d.nodes = 1..Len(d.nodes)
    BY <1>1, LenProperties
  <2> QED BY <1>1, <2>1 DEF Parses, NodeParses
<1>3. NodeIds(t.nodes) = NodeIds(d.nodes) /\ (ValidateWorkflowNodes(t.nodes) <=> ValidateWorkflowNodes(d.nodes))
  BY <1>1, IdsAndLabelsDecide
<1> QED BY <1>1, <1>2, <1>3 DEF Valid, ValidateWorkflowConnections, t

\* No definition of the seed parses: its connections are an array.
LEMMA SeedNeverParses == ASSUME NEW d \in Seed PROVE ~Parses(d)
  BY DEF Seed, Parses

LEMMA SentInv ==
  /\ PartsInit => StoredIsSent
  /\ StoredIsSent /\ [PartsNext]_<<lifecycleVars, definitionVars, part>> => StoredIsSent'
<1>1. ASSUME PartsInit PROVE StoredIsSent
  <2>1. CASE Init
    BY <2>1 DEF Init, StoredIsSent
  <2>2. CASE sent = Plain /\ row = None /\ seeded = FALSE /\ copy = None
    <3>1. Plain \in Definitions
      <4>1. <<>> \in [1..0 -> Nodes] /\ 0 \in 0..MaxNodes /\ 0 \in 0..MaxLinks
        BY DefinitionAssumption
      <4>2. {} \in kSubset(0, Ids \X Ids)
        BY FS_EmptySet DEF kSubset
      <4>3. {} \in Links
        BY <4>1, <4>2 DEF Links
      <4> QED BY <4>1, <4>3 DEF Plain, Definitions, Connections, SourcesNamed
    <3> QED BY <2>2, <3>1 DEF StoredIsSent
  <2> QED BY <1>1, <2>1, <2>2 DEF PartsInit
<1>2. ASSUME StoredIsSent, [PartsNext]_<<lifecycleVars, definitionVars, part>> PROVE StoredIsSent'
  <2>1. CASE CreateWorkflow
    BY <1>2, <2>1 DEF CreateWorkflow, StoredIsSent
  <2>2. CASE UpdateWorkflow
    BY <1>2, <2>2 DEF UpdateWorkflow, StoredIsSent
  <2>3. CASE DuplicateWorkflow
    <3>1. CASE ~Parses(row)
      BY <1>2, <2>3, <3>1 DEF DuplicateWorkflow, StoredIsSent
    <3>2. CASE Parses(row)
      <4>1. Parses(sent) /\ row = Sanitize(sent)
        BY <1>2, <2>3, <3>2, SeedNeverParses DEF DuplicateWorkflow, StoredIsSent
      <4>2. copy' = Sanitize(sent) /\ UNCHANGED <<sent, row, seeded>>
        BY <1>2, <2>3, <3>2, <4>1, SanitizeTwice DEF DuplicateWorkflow, StoredIsSent
      <4> QED BY <1>2, <4>1, <4>2 DEF StoredIsSent
    <3> QED BY <3>1, <3>2
  <2>4. CASE \E d \in {sent, row} \ {None} : ValidateWorkflowDefinition(d)
    BY <1>2, <2>4 DEF ValidateWorkflowDefinition, StoredIsSent
  <2>5. CASE UNCHANGED <<sent, row, copy, seeded>>
    BY <1>2, <2>5 DEF StoredIsSent
  <2> QED BY <1>2, <2>1, <2>2, <2>3, <2>4, <2>5 DEF PartsNext, Next, definitionVars, vars
<1> QED BY <1>1, <1>2

\* What is stored through the service is a fixed point: it parses, sanitizing it again
\* changes nothing, and it is judged as what was sent; so are the copies of it.
THEOREM StoredIsAFixedPoint == PartsSpec => []StoredIsFixed
<1>1. StoredIsSent => StoredIsFixed
  <2> SUFFICES ASSUME StoredIsSent, NEW d \in {IF seeded THEN None ELSE row, copy} \ {None}
               PROVE  Parses(d) /\ Sanitize(d) = d /\ (Valid(sent) <=> Valid(d))
    BY DEF StoredIsFixed
  <2>1. sent \in Definitions /\ Parses(sent) /\ d = Sanitize(sent)
    BY DEF StoredIsSent
  <2> QED BY <2>1, SanitizeTwice, SanitizeJudged
<1> QED BY <1>1, SentInv, PTL DEF PartsSpec

-----------------------------------------------------------------------------
(***************************************************************************)
(* Validating.                                                             *)
(***************************************************************************)

\* There are no duplicates if and only if no two nodes have a name in common: then, and
\* only then, the first node of a name is every node of that name.
LEMMA NoDuplicates ==
  ASSUME NEW n \in Seq(Nodes)
  PROVE  Duplicates(n) = {} <=> \A i, j \in DOMAIN n : n[i].id = n[j].id => i = j
<1>1. ASSUME Duplicates(n) = {}, NEW i \in DOMAIN n, NEW j \in DOMAIN n, n[i].id = n[j].id PROVE i = j
  <2>1. IndexOf(n, n[i].id) = i /\ IndexOf(n, n[j].id) = j
    BY <1>1 DEF Duplicates
  <2> QED BY <1>1, <2>1
<1>2. ASSUME \A i, j \in DOMAIN n : n[i].id = n[j].id => i = j, NEW i \in DOMAIN n PROVE i \notin Duplicates(n)
  <2>1. DOMAIN n = 1..Len(n) /\ Len(n) \in Nat
    BY LenProperties
  <2>2. n[i].id = n[i].id /\ \A j \in 1..i-1 : n[j].id # n[i].id
    BY <1>2, <2>1
  <2>3. \A k \in DOMAIN n : n[k].id = n[i].id => k = i
    BY <1>2
  <2>4. IndexOf(n, n[i].id) = i
    BY <2>2, <2>3 DEF IndexOf
  <2> QED BY <2>4 DEF Duplicates
<1> QED BY <1>1, <1>2 DEF Duplicates

\* As many names as nodes say the same.
LEMMA AsManyNames ==
  ASSUME NEW n \in Seq(Nodes)
  PROVE  Cardinality(NodeIds(n)) = Len(n) <=> \A i, j \in DOMAIN n : n[i].id = n[j].id => i = j
<1> DEFINE D == DOMAIN n
           names == [i \in D |-> n[i].id]
<1>1. D = 1..Len(n) /\ Len(n) \in Nat
  BY LenProperties
<1>2. IsFiniteSet(D) /\ Cardinality(D) = Len(n)
  BY <1>1, FS_Interval
<1>3. names \in Surjection(D, NodeIds(n))
  BY DEF NodeIds, Surjection
<1>4. Cardinality(NodeIds(n)) = Cardinality(D) <=> names \in Injection(D, NodeIds(n))
  BY <1>2, <1>3, FS_Surjection
<1>5. names \in Injection(D, NodeIds(n)) <=> \A i, j \in D : n[i].id = n[j].id => i = j
  <2>1. names \in [D -> NodeIds(n)] /\ \A i \in D : names[i] = n[i].id
    BY DEF NodeIds
  <2> HIDE DEF names, D
  <2> QED BY <2>1 DEF Injection, IsInjective
<1> QED BY <1>2, <1>4, <1>5

\* The validation finds exactly the graphs among the definitions that the schema takes and
\* whose connections name nodes only as the source of something.
THEOREM ValidAreGraphs == PartsSpec => []ValidIsGraph
<1>1. StoredIsSent => ValidIsGraph
  <2> SUFFICES ASSUME sent \in Definitions, Parses(sent),
                      \A n \in sent.connections.sources : \E l \in sent.connections.links : l[1] = n
               PROVE  Valid(sent) <=> IsGraph(sent)
    BY DEF StoredIsSent, ValidIsGraph
  <2> DEFINE nodes == sent.nodes
             sources == sent.connections.sources
             links == sent.connections.links
  <2>1. nodes \in Seq(Nodes) /\ links \subseteq Ids \X Ids /\ \A l \in links : l[1] \in sources
    BY DefinitionParts DEF Parses, SourcesNamed
  <2>2. ValidateWorkflowNodes(nodes) <=>
          /\ nodes # <<>> /\ Cardinality(NodeIds(nodes)) = Len(nodes) /\ Empty \notin NodeIds(nodes)
          /\ \A n \in Range(nodes) : n.labels = Labels
    <3>1. Duplicates(nodes) = {} <=> Cardinality(NodeIds(nodes)) = Len(nodes)
      BY <2>1, NoDuplicates, AsManyNames
    <3> QED BY <3>1 DEF ValidateWorkflowNodes, NodeIds, Range
  <2>3. ValidateWorkflowConnections(nodes, sent.connections) <=> links \subseteq NodeIds(nodes) \X NodeIds(nodes)
    <3>1. ASSUME sources \subseteq NodeIds(nodes), \A l \in links : l[2] \in NodeIds(nodes)
          PROVE  links \subseteq NodeIds(nodes) \X NodeIds(nodes)
      <4>1. \A l \in links : l = <<l[1], l[2]>> /\ l[1] \in NodeIds(nodes) /\ l[2] \in NodeIds(nodes)
        BY <2>1, <3>1
      <4> QED BY <4>1
    <3>2. ASSUME links \subseteq NodeIds(nodes) \X NodeIds(nodes)
          PROVE  sources \subseteq NodeIds(nodes) /\ \A l \in links : l[2] \in NodeIds(nodes)
      BY <3>2
    <3> QED BY <3>1, <3>2 DEF ValidateWorkflowConnections
  <2> QED BY <2>2, <2>3 DEF Valid, IsGraph
<1> QED BY <1>1, SentInv, PTL DEF PartsSpec

-----------------------------------------------------------------------------
\* A request that is under way has its workflow, and the status it is to write.
CallsAreWhole ==
  \A c \in Callers :
    /\ call[c].pc # "idle" => call[c].wf \in Workflows
    /\ call[c].pc \in {"updating", "validated", "moving"} => call[c].to \in Lifecycle!Statuses

\* The foreign key.
ExecutionsHaveWorkflow ==
  \A e \in Executions : exec[e].status # "none" => exec[e].wf \in Workflows /\ status[exec[e].wf] # "none"

\* What a delete has counted stays where it was as long as the workflow does.
CountedStay ==
  \A c \in Callers : Lifecycle!At(c, "counted") /\ status[call[c].wf] # "none" =>
    \A e \in counted[c] : exec[e].wf = call[c].wf /\ exec[e].status # "none"

\* None of it was active, and only a late callback makes it so.
CountedAreOver ==
  \A c \in Callers : Lifecycle!At(c, "counted") =>
    \A e \in counted[c] :
      exec[e].wf = call[c].wf /\ exec[e].status \in Lifecycle!Active => e \in revived

RowsInv ==
  Lifecycle!TypeOK /\ CallsAreWhole /\ ExecutionsHaveWorkflow /\ CountedStay /\ CountedAreOver

LEMMA RowsInitInv == ASSUME Lifecycle!Init PROVE RowsInv
<1>1. Lifecycle!Idle \in Lifecycle!Calls /\ Lifecycle!Idle.pc = "idle"
  BY DEF Lifecycle!Idle, Lifecycle!Calls
<1>2. Lifecycle!TypeOK
  BY <1>1 DEF Lifecycle!Init, Lifecycle!TypeOK, Lifecycle!NoExec
<1>3. CallsAreWhole /\ CountedStay /\ CountedAreOver
  BY <1>1 DEF Lifecycle!Init, CallsAreWhole, CountedStay, CountedAreOver, Lifecycle!At
<1>4. ExecutionsHaveWorkflow
  BY DEF Lifecycle!Init, Lifecycle!NoExec, ExecutionsHaveWorkflow
<1> QED BY <1>2, <1>3, <1>4 DEF RowsInv

\* One caller's entry changes.
Moved(c, pc, w, to) ==
  /\ call' \in [Callers -> Lifecycle!Calls]
  /\ call'[c].pc = pc /\ call'[c].wf = w /\ call'[c].to = to
  /\ \A d \in Callers \ {c} : call'[d] = call[d]

LEMMA GotoMoves ==
  ASSUME Lifecycle!TypeOK, NEW c \in Callers, NEW w \in Workflows, NEW to \in Lifecycle!Statuses \cup {"none"},
         NEW pc \in {"copying", "updating", "validated", "moving", "softening", "found", "counted", "submitting", "creating"},
         Lifecycle!Goto(c, pc, w, to)
  PROVE  Moved(c, pc, w, to)
<1> DEFINE x == [pc |-> pc, wf |-> w, to |-> to]
<1>1. x \in Lifecycle!Calls /\ x.pc = pc /\ x.wf = w /\ x.to = to
  BY DEF Lifecycle!Calls
<1>2. call' = [call EXCEPT ![c] = x]
  BY DEF Lifecycle!Goto
<1> HIDE DEF x
<1> QED BY <1>1, <1>2 DEF Moved, Lifecycle!TypeOK

LEMMA ReturnMoves ==
  ASSUME Lifecycle!TypeOK, NEW c \in Callers, Lifecycle!Return(c)
  PROVE  Moved(c, "idle", NoWorkflow, "none")
<1>1. /\ Lifecycle!Idle \in Lifecycle!Calls
      /\ Lifecycle!Idle.pc = "idle" /\ Lifecycle!Idle.wf = NoWorkflow /\ Lifecycle!Idle.to = "none"
  BY DEF Lifecycle!Idle, Lifecycle!Calls
<1>2. call' = [call EXCEPT ![c] = Lifecycle!Idle]
  BY DEF Lifecycle!Return
<1> QED BY <1>1, <1>2 DEF Moved, Lifecycle!TypeOK

(***************************************************************************)
(* Every step is one of six: of a request that goes on to a next call,     *)
(* that makes a workflow, that writes a status, that counts or deletes, or *)
(* that creates an execution; or the execution's own.                      *)
(***************************************************************************)

\* A request begins, goes on or gives up, and writes nothing.
GoesOn ==
  /\ \E c \in Callers, w \in Workflows \cup {NoWorkflow}, to \in Lifecycle!Statuses \cup {"none"},
        pc \in {"idle", "copying", "updating", "validated", "moving", "softening", "found", "submitting", "creating"} :
       /\ Moved(c, pc, w, to)
       /\ pc # "idle" => w \in Workflows
       /\ pc \in {"updating", "validated", "moving"} => to \in Lifecycle!Statuses
  /\ UNCHANGED <<status, exec, counted, revived>>

\* A workflow is made that nothing refers to.
Makes ==
  /\ \E w \in Workflows, s \in Lifecycle!Statuses :
       /\ status[w] = "none" /\ \A d \in Callers : call[d].wf # w
       /\ status' = [status EXCEPT ![w] = s]
  /\ UNCHANGED call \/ \E c \in Callers : Moved(c, "idle", NoWorkflow, "none")
  /\ UNCHANGED <<exec, counted, revived>>

\* A status is written, of a workflow that is there.
WritesStatus ==
  /\ \E w \in Workflows, s \in Lifecycle!Statuses :
       status[w] # "none" /\ status' = [status EXCEPT ![w] = s]
  /\ \E c \in Callers : Moved(c, "idle", NoWorkflow, "none")
  /\ UNCHANGED <<exec, counted, revived>>

\* A delete finds nothing active.
Counts ==
  \E c \in Callers, w \in Workflows :
    /\ Moved(c, "counted", w, "none")
    /\ Lifecycle!CountedActive(w) = {} /\ counted' = [counted EXCEPT ![c] = Lifecycle!Of(w)]
    /\ UNCHANGED <<status, exec, revived>>

\* A delete takes the workflow with its executions.
Deletes ==
  \E c \in Callers, w \in Workflows :
    /\ Lifecycle!At(c, "counted") /\ call[c].wf = w /\ Moved(c, "idle", NoWorkflow, "none")
    /\ status' = [status EXCEPT ![w] = "none"]
    /\ exec' = Lifecycle!Cascade(w) /\ revived' = revived \ Lifecycle!Of(w)
    /\ counted' = [counted EXCEPT ![c] = {}]

\* A row is inserted, unless the workflow is gone.
Inserts ==
  /\ \/ UNCHANGED exec
     \/ \E e \in Executions, w \in Workflows :
          /\ exec[e].status = "none" /\ status[w] # "none"
          /\ exec' = [exec EXCEPT ![e] = [wf |-> w, status |-> "PENDING"]]
  /\ \E c \in Callers : Moved(c, "idle", NoWorkflow, "none")
  /\ UNCHANGED <<status, counted, revived>>

ExecutionsMove == \E e \in Executions : Lifecycle!ExecutionMoves(e)

RowsStep == GoesOn \/ Makes \/ WritesStatus \/ Counts \/ Deletes \/ Inserts \/ ExecutionsMove

LEMMA BeginSteps ==
  ASSUME RowsInv, NEW c \in Callers, NEW w \in Workflows,
         \/ Lifecycle!DuplicateRead(c, w) \/ Lifecycle!UpdateFound(c, w) \/ Lifecycle!StatusValidated(c, w)
         \/ Lifecycle!SoftDeleteFound(c, w) \/ Lifecycle!DeleteFound(c, w) \/ Lifecycle!SubmitChecked(c, w)
         \/ Lifecycle!TriggerFound(c, w)
  PROVE  GoesOn
<1>1. PICK to \in Lifecycle!Statuses \cup {"none"},
           pc \in {"copying", "updating", "validated", "softening", "found", "submitting", "creating"} :
        /\ Lifecycle!Goto(c, pc, w, to)
        /\ pc \in {"updating", "validated", "moving"} => to \in Lifecycle!Statuses
  BY DEF Lifecycle!DuplicateRead, Lifecycle!UpdateFound, Lifecycle!StatusValidated, Lifecycle!SoftDeleteFound,
         Lifecycle!DeleteFound, Lifecycle!SubmitChecked, Lifecycle!TriggerFound, Lifecycle!Statuses
<1>2. UNCHANGED <<status, exec, counted, revived>>
  BY DEF Lifecycle!DuplicateRead, Lifecycle!UpdateFound, Lifecycle!StatusValidated, Lifecycle!SoftDeleteFound,
         Lifecycle!DeleteFound, Lifecycle!SubmitChecked, Lifecycle!TriggerFound, Lifecycle!Rest
<1>3. Moved(c, pc, w, to)
  BY <1>1, GotoMoves DEF RowsInv
<1> QED BY <1>1, <1>2, <1>3 DEF GoesOn

LEMMA ContinueSteps ==
  ASSUME RowsInv, NEW c \in Callers, Lifecycle!StatusFound(c) \/ Lifecycle!SubmitFound(c)
  PROVE  GoesOn
<1> DEFINE w == call[c].wf
<1>1. /\ w \in Workflows /\ call[c].to \in Lifecycle!Statuses \cup {"none"}
      /\ call[c].pc = "validated" => call[c].to \in Lifecycle!Statuses
  BY DEF RowsInv, CallsAreWhole, Lifecycle!TypeOK, Lifecycle!Calls,
         Lifecycle!StatusFound, Lifecycle!SubmitFound, Lifecycle!At
<1>2. UNCHANGED <<status, exec, counted, revived>>
  BY DEF Lifecycle!StatusFound, Lifecycle!SubmitFound, Lifecycle!Rest
<1>3. CASE Lifecycle!Return(c)
  BY <1>2, <1>3, ReturnMoves DEF GoesOn, RowsInv
<1>4. CASE Lifecycle!StatusFound(c) /\ Lifecycle!Goto(c, "moving", w, call[c].to)
  <2>1. Moved(c, "moving", w, call[c].to) /\ call[c].to \in Lifecycle!Statuses
    BY <1>1, <1>4, GotoMoves DEF RowsInv, Lifecycle!StatusFound, Lifecycle!At
  <2> QED BY <1>1, <1>2, <2>1 DEF GoesOn
<1>5. CASE Lifecycle!SubmitFound(c) /\ Lifecycle!Goto(c, "creating", w, "none")
  <2>1. Moved(c, "creating", w, "none")
    BY <1>1, <1>5, GotoMoves DEF RowsInv
  <2> QED BY <1>1, <1>2, <2>1 DEF GoesOn
<1> QED BY <1>3, <1>4, <1>5 DEF Lifecycle!StatusFound, Lifecycle!SubmitFound

LEMMA WriteSteps ==
  ASSUME RowsInv, NEW c \in Callers
  PROVE  /\ Lifecycle!Create(c) \/ Lifecycle!DuplicateCreate(c) => Makes
         /\ Lifecycle!Update(c) \/ Lifecycle!UpdateStatus(c) \/ Lifecycle!SoftDelete(c) => WritesStatus \/ GoesOn
<1>1. ASSUME Lifecycle!Create(c) \/ Lifecycle!DuplicateCreate(c) PROVE Makes
  <2>1. PICK w \in Workflows, s \in Lifecycle!Statuses :
          /\ status[w] = "none" /\ \A d \in Callers : call[d].wf # w
          /\ status' = [status EXCEPT ![w] = s]
    BY <1>1 DEF Lifecycle!Create, Lifecycle!DuplicateCreate, Lifecycle!Statuses
  <2>2. UNCHANGED call \/ Moved(c, "idle", NoWorkflow, "none")
    BY <1>1, ReturnMoves DEF Lifecycle!Create, Lifecycle!DuplicateCreate, RowsInv
  <2>3. UNCHANGED <<exec, counted, revived>>
    BY <1>1 DEF Lifecycle!Create, Lifecycle!DuplicateCreate, Lifecycle!Rest
  <2> QED BY <2>1, <2>2, <2>3 DEF Makes
<1>2. ASSUME NEW from, NEW s \in Lifecycle!Statuses, call[c].wf \in Workflows, Lifecycle!SetStatus(c, from, s)
      PROVE  WritesStatus \/ GoesOn
  <2>1. Moved(c, "idle", NoWorkflow, "none") /\ UNCHANGED <<exec, counted, revived>>
    BY <1>2, ReturnMoves DEF Lifecycle!SetStatus, Lifecycle!Rest, RowsInv
  <2>2. CASE status[call[c].wf] = "none"
    BY <1>2, <2>1, <2>2 DEF Lifecycle!SetStatus, GoesOn
  <2>3. CASE status[call[c].wf] # "none"
    BY <1>2, <2>1, <2>3 DEF Lifecycle!SetStatus, WritesStatus
  <2> QED BY <2>2, <2>3
<1>3. ASSUME Lifecycle!Update(c) \/ Lifecycle!UpdateStatus(c) \/ Lifecycle!SoftDelete(c) PROVE WritesStatus \/ GoesOn
  <2>1. call[c].wf \in Workflows
    BY <1>3 DEF Lifecycle!Update, Lifecycle!UpdateStatus, Lifecycle!SoftDelete, Lifecycle!SetStatus, Lifecycle!At,
                RowsInv, CallsAreWhole
  <2>2. CASE Lifecycle!Update(c) \/ Lifecycle!UpdateStatus(c)
    <3>1. call[c].to \in Lifecycle!Statuses
      BY <2>2 DEF Lifecycle!Update, Lifecycle!UpdateStatus, Lifecycle!SetStatus, Lifecycle!At, RowsInv, CallsAreWhole
    <3> QED BY <1>2, <2>1, <2>2, <3>1 DEF Lifecycle!Update, Lifecycle!UpdateStatus
  <2>3. CASE Lifecycle!SoftDelete(c)
    BY <1>2, <2>1, <2>3 DEF Lifecycle!SoftDelete, Lifecycle!Statuses
  <2> QED BY <1>3, <2>2, <2>3
<1> QED BY <1>1, <1>3

LEMMA DeleteSteps ==
  ASSUME RowsInv, NEW c \in Callers
  PROVE  /\ Lifecycle!DeleteCounted(c) => Counts \/ GoesOn
         /\ Lifecycle!Delete(c) => Deletes
         /\ Lifecycle!CreateExecution(c) => Inserts
<1> DEFINE w == call[c].wf
<1>0. ~Lifecycle!At(c, "idle") => w \in Workflows
  BY DEF RowsInv, CallsAreWhole, Lifecycle!At
<1>1. ASSUME Lifecycle!DeleteCounted(c) PROVE Counts \/ GoesOn
  <2>1. w \in Workflows
    BY <1>0, <1>1 DEF Lifecycle!DeleteCounted, Lifecycle!At
  <2>2. CASE Lifecycle!CountedActive(w) = {}
    <3>1. Moved(c, "counted", w, "none")
      BY <1>1, <2>1, <2>2, GotoMoves DEF Lifecycle!DeleteCounted, RowsInv
    <3> QED BY <1>1, <2>1, <2>2, <3>1 DEF Lifecycle!DeleteCounted, Counts
  <2>3. CASE Lifecycle!CountedActive(w) # {}
    BY <1>1, <2>3, ReturnMoves DEF Lifecycle!DeleteCounted, GoesOn, RowsInv
  <2> QED BY <2>2, <2>3
<1>2. ASSUME Lifecycle!Delete(c) PROVE Deletes
  <2>1. w \in Workflows /\ Moved(c, "idle", NoWorkflow, "none")
    BY <1>0, <1>2, ReturnMoves DEF Lifecycle!Delete, Lifecycle!At, RowsInv
  <2> QED BY <1>2, <2>1 DEF Lifecycle!Delete, Deletes
<1>3. ASSUME Lifecycle!CreateExecution(c) PROVE Inserts
  <2>1. w \in Workflows /\ Moved(c, "idle", NoWorkflow, "none")
    BY <1>0, <1>3, ReturnMoves DEF Lifecycle!CreateExecution, Lifecycle!At, RowsInv
  <2> QED BY <1>3, <2>1 DEF Lifecycle!CreateExecution, Lifecycle!Inserted, Inserts
<1> QED BY <1>1, <1>2, <1>3

LEMMA RowsSteps == ASSUME RowsInv, Lifecycle!Next PROVE RowsStep
  BY BeginSteps, ContinueSteps, WriteSteps, DeleteSteps DEF Lifecycle!Next, RowsStep, ExecutionsMove

-----------------------------------------------------------------------------
(***************************************************************************)
(* The steps keep the invariant of the rows.                               *)
(***************************************************************************)

LEMMA RowsNextType == ASSUME RowsInv, RowsStep PROVE Lifecycle!TypeOK'
<1> USE DEF Lifecycle!TypeOK
<1>0. Lifecycle!TypeOK
  BY DEF RowsInv
<1>1. CASE GoesOn
  BY <1>0, <1>1 DEF GoesOn, Moved
<1>2. CASE Makes \/ WritesStatus
  <2>1. PICK w \in Workflows, s \in Lifecycle!Statuses : status' = [status EXCEPT ![w] = s]
    BY <1>2 DEF Makes, WritesStatus
  <2> QED BY <1>0, <1>2, <2>1 DEF Makes, WritesStatus, Moved
<1>3. CASE Counts
  <2>1. \A w \in Workflows : Lifecycle!Of(w) \in SUBSET Executions
    BY DEF Lifecycle!Of
  <2> QED BY <1>0, <1>3, <2>1 DEF Counts, Moved
<1>4. CASE Deletes
  <2>1. \A w \in Workflows : Lifecycle!Cascade(w) \in
          [Executions -> [wf : Workflows \cup {NoWorkflow}, status : {"none"} \cup Lifecycle!Active \cup Lifecycle!Finished]]
    BY <1>0 DEF Lifecycle!Cascade, Lifecycle!NoExec
  <2> QED BY <1>0, <1>4, <2>1 DEF Deletes, Moved
<1>5. CASE Inserts
  <2>1. \A w \in Workflows : [wf |-> w, status |-> "PENDING"] \in
          [wf : Workflows \cup {NoWorkflow}, status : {"none"} \cup Lifecycle!Active \cup Lifecycle!Finished]
    BY DEF Lifecycle!Active
  <2>2. exec' \in [Executions -> [wf : Workflows \cup {NoWorkflow}, status : {"none"} \cup Lifecycle!Active \cup Lifecycle!Finished]]
    BY <1>0, <1>5, <2>1 DEF Inserts
  <2> QED BY <1>0, <1>5, <2>2 DEF Inserts, Moved
<1>6. CASE ExecutionsMove
  BY <1>0, <1>6 DEF ExecutionsMove, Lifecycle!ExecutionMoves, Lifecycle!SetExec, Lifecycle!Active, Lifecycle!Finished
<1> QED BY <1>1, <1>2, <1>3, <1>4, <1>5, <1>6 DEF RowsStep

LEMMA RowsNextWhole == ASSUME RowsInv, RowsStep PROVE CallsAreWhole'
<1> USE DEF CallsAreWhole, Moved
<1>0. CallsAreWhole
  BY DEF RowsInv
<1>1. CASE GoesOn
  BY <1>0, <1>1 DEF GoesOn
<1>2. CASE Makes \/ WritesStatus \/ Inserts
  BY <1>0, <1>2 DEF Makes, WritesStatus, Inserts
<1>3. CASE Counts \/ Deletes
  BY <1>0, <1>3 DEF Counts, Deletes
<1>4. CASE ExecutionsMove
  BY <1>0, <1>4 DEF ExecutionsMove, Lifecycle!ExecutionMoves
<1> QED BY <1>1, <1>2, <1>3, <1>4 DEF RowsStep

\* What an execution's own step does to its row.
LEMMA ExecutionMoved ==
  ASSUME Lifecycle!TypeOK, NEW e \in Executions, Lifecycle!ExecutionMoves(e)
  PROVE  /\ UNCHANGED <<status, call, counted>>
         /\ \A d \in Executions \ {e} : exec'[d] = exec[d] /\ (d \in revived' <=> d \in revived)
         /\ exec[e].status # "none" /\ exec'[e].status # "none" /\ exec'[e].wf = exec[e].wf
         /\ exec'[e].status \in Lifecycle!Active =>
              e \in revived' \/ (exec[e].status \in Lifecycle!Active /\ (e \in revived' <=> e \in revived))
<1>1. exec \in [Executions -> [wf : Workflows \cup {NoWorkflow}, status : {"none"} \cup Lifecycle!Active \cup Lifecycle!Finished]]
  BY DEF Lifecycle!TypeOK
<1>2. UNCHANGED <<status, call, counted>>
  BY DEF Lifecycle!ExecutionMoves
<1>3. PICK s \in Lifecycle!Active \cup Lifecycle!Finished :
        /\ exec' = [exec EXCEPT ![e].status = s] /\ exec[e].status # "none"
        /\ \/ exec[e].status \in Lifecycle!Active /\ revived' = revived
           \/ s \in Lifecycle!Finished /\ revived' = revived \ {e}
           \/ revived' = revived \cup {e}
  <2>1. CASE exec[e].status = "PENDING" /\ Lifecycle!SetExec(e, "RUNNING") /\ UNCHANGED revived
    BY <2>1 DEF Lifecycle!SetExec, Lifecycle!Active
  <2>2. CASE exec[e].status \in Lifecycle!Active /\ (\E s \in Lifecycle!Finished : Lifecycle!SetExec(e, s))
             /\ revived' = revived \ {e}
    BY <2>2 DEF Lifecycle!SetExec, Lifecycle!Active
  <2>3. CASE exec[e].status \in Lifecycle!Finished /\ Lifecycle!SetExec(e, "RUNNING") /\ revived' = revived \cup {e}
    BY <2>3 DEF Lifecycle!SetExec, Lifecycle!Active, Lifecycle!Finished
  <2> QED BY <2>1, <2>2, <2>3 DEF Lifecycle!ExecutionMoves
<1>4. exec'[e].status = s /\ exec'[e].wf = exec[e].wf /\ \A d \in Executions \ {e} : exec'[d] = exec[d]
  BY <1>1, <1>3
<1>5. \A d \in Executions \ {e} : d \in revived' <=> d \in revived
  BY <1>3
<1> QED BY <1>2, <1>3, <1>4, <1>5 DEF Lifecycle!Active, Lifecycle!Finished

LEMMA RowsNextKey == ASSUME RowsInv, RowsStep PROVE ExecutionsHaveWorkflow'
<1> USE DEF ExecutionsHaveWorkflow
<1>0. Lifecycle!TypeOK /\ ExecutionsHaveWorkflow
  BY DEF RowsInv
<1>1. CASE GoesOn \/ Counts
  BY <1>0, <1>1 DEF GoesOn, Counts
<1>2. CASE Makes \/ WritesStatus
  BY <1>0, <1>2 DEF Makes, WritesStatus, Lifecycle!TypeOK, Lifecycle!Statuses
<1>3. CASE Deletes
  BY <1>0, <1>3 DEF Deletes, Lifecycle!Cascade, Lifecycle!NoExec, Lifecycle!TypeOK
<1>4. CASE Inserts
  BY <1>0, <1>4 DEF Inserts, Lifecycle!TypeOK
<1>5. CASE ExecutionsMove
  BY <1>0, <1>5, ExecutionMoved DEF ExecutionsMove
<1> QED BY <1>1, <1>2, <1>3, <1>4, <1>5 DEF RowsStep

\* What a counting delete knows survives the steps of the others.
LEMMA RowsNextCounted == ASSUME RowsInv, RowsStep PROVE CountedStay' /\ CountedAreOver'
<1> USE DEF Lifecycle!At
<1>0. Lifecycle!TypeOK /\ ExecutionsHaveWorkflow /\ CountedStay /\ CountedAreOver /\ CallsAreWhole
  BY DEF RowsInv
<1>a. \A c \in Callers : counted[c] \subseteq Executions
  BY <1>0 DEF Lifecycle!TypeOK
<1> SUFFICES ASSUME NEW c \in Callers, call'[c].pc = "counted", NEW e \in counted'[c]
             PROVE  /\ status'[call'[c].wf] # "none" => exec'[e].wf = call'[c].wf /\ exec'[e].status # "none"
                    /\ exec'[e].wf = call'[c].wf /\ exec'[e].status \in Lifecycle!Active => e \in revived'
  BY DEF CountedStay, CountedAreOver
\* What was so before, of a delete that had counted.
<1>b. ASSUME call[c].pc = "counted", counted'[c] = counted[c]
      PROVE  /\ e \in Executions /\ call[c].wf \in Workflows
             /\ status[call[c].wf] # "none" => exec[e].wf = call[c].wf /\ exec[e].status # "none"
             /\ exec[e].wf = call[c].wf /\ exec[e].status \in Lifecycle!Active => e \in revived
             /\ exec[e].wf = call[c].wf /\ exec[e].status # "none" => status[call[c].wf] # "none"
  <2>1. e \in counted[c] /\ e \in Executions /\ call[c].wf \in Workflows
    BY <1>0, <1>a, <1>b DEF CallsAreWhole
  <2>2. status[call[c].wf] # "none" => exec[e].wf = call[c].wf /\ exec[e].status # "none"
    BY <1>0, <1>b, <2>1 DEF CountedStay
  <2>3. exec[e].wf = call[c].wf /\ exec[e].status \in Lifecycle!Active => e \in revived
    BY <1>0, <1>b, <2>1 DEF CountedAreOver
  <2> QED BY <1>0, <2>1, <2>2, <2>3 DEF ExecutionsHaveWorkflow
<1>1. CASE GoesOn
  <2>1. call'[c] = call[c] /\ counted'[c] = counted[c] /\ UNCHANGED <<status, exec, revived>>
    BY <1>1 DEF GoesOn, Moved
  <2> QED BY <1>b, <2>1
<1>2. CASE Makes
  <2>1. PICK w \in Workflows, s \in Lifecycle!Statuses :
          /\ \A d \in Callers : call[d].wf # w
          /\ status' = [status EXCEPT ![w] = s]
    BY <1>2 DEF Makes
  <2>2. call'[c] = call[c] /\ counted'[c] = counted[c] /\ UNCHANGED <<exec, revived>>
    BY <1>2 DEF Makes, Moved
  <2>3. status'[call[c].wf] = status[call[c].wf]
    BY <1>0, <1>b, <2>1, <2>2 DEF Lifecycle!TypeOK
  <2> QED BY <1>b, <2>2, <2>3
<1>3. CASE WritesStatus
  <2>1. PICK w \in Workflows, s \in Lifecycle!Statuses : status[w] # "none" /\ status' = [status EXCEPT ![w] = s]
    BY <1>3 DEF WritesStatus
  <2>2. call'[c] = call[c] /\ counted'[c] = counted[c] /\ UNCHANGED <<exec, revived>>
    BY <1>3 DEF WritesStatus, Moved
  <2>3. status'[call[c].wf] # "none" => status[call[c].wf] # "none"
    BY <1>0, <1>b, <2>1, <2>2 DEF Lifecycle!TypeOK
  <2> QED BY <1>b, <2>2, <2>3
<1>4. CASE Counts
  <2>1. PICK d \in Callers, w \in Workflows :
          /\ Moved(d, "counted", w, "none")
          /\ Lifecycle!CountedActive(w) = {} /\ counted' = [counted EXCEPT ![d] = Lifecycle!Of(w)]
          /\ UNCHANGED <<status, exec, revived>>
    BY <1>4 DEF Counts
  <2>2. CASE d = c
    <3>1. e \in Lifecycle!Of(w) /\ call'[c].wf = w
      BY <1>0, <2>1, <2>2 DEF Moved, Lifecycle!TypeOK
    <3> QED BY <2>1, <3>1 DEF Lifecycle!Of, Lifecycle!CountedActive
  <2>3. CASE d # c
    <3>1. call'[c] = call[c] /\ counted'[c] = counted[c]
      BY <1>0, <2>1, <2>3 DEF Moved, Lifecycle!TypeOK
    <3> QED BY <1>b, <2>1, <3>1
  <2> QED BY <2>2, <2>3
<1>5. CASE Deletes
  <2>1. PICK d \in Callers, w \in Workflows :
          /\ Moved(d, "idle", NoWorkflow, "none")
          /\ status' = [status EXCEPT ![w] = "none"]
          /\ exec' = Lifecycle!Cascade(w) /\ revived' = revived \ Lifecycle!Of(w)
          /\ counted' = [counted EXCEPT ![d] = {}]
    BY <1>5 DEF Deletes
  <2>2. d # c /\ call'[c] = call[c] /\ counted'[c] = counted[c]
    BY <1>0, <2>1 DEF Moved, Lifecycle!TypeOK
  <2>3. e \in Executions /\ call[c].wf \in Workflows
    BY <1>b, <2>2
  <2>4. CASE call[c].wf = w
    <3>1. status'[call'[c].wf] = "none"
      BY <1>0, <2>1, <2>2, <2>3, <2>4 DEF Lifecycle!TypeOK
    <3>2. exec[e].wf = w => exec'[e].status \notin Lifecycle!Active
      BY <2>1, <2>3 DEF Lifecycle!Cascade, Lifecycle!NoExec, Lifecycle!Active
    <3>3. exec[e].wf # w => exec'[e].wf # call'[c].wf
      BY <2>1, <2>2, <2>3, <2>4 DEF Lifecycle!Cascade
    <3> QED BY <3>1, <3>2, <3>3
  <2>5. CASE call[c].wf # w
    <3>1. status'[call'[c].wf] = status[call[c].wf]
      BY <1>0, <2>1, <2>2, <2>3, <2>5 DEF Lifecycle!TypeOK
    <3>2. CASE exec[e].wf = w
      <4>1. exec'[e].status = "none"
        BY <2>1, <2>3, <3>2 DEF Lifecycle!Cascade, Lifecycle!NoExec
      <4>2. status[call[c].wf] = "none"
        BY <1>b, <2>2, <2>5, <3>2
      <4> QED BY <3>1, <4>1, <4>2 DEF Lifecycle!Active
    <3>3. CASE exec[e].wf # w
      <4>1. exec'[e] = exec[e] /\ (e \in revived => e \in revived')
        BY <2>1, <2>3, <3>3 DEF Lifecycle!Cascade, Lifecycle!Of
      <4> QED BY <1>b, <2>2, <3>1, <4>1
    <3> QED BY <3>2, <3>3
  <2> QED BY <2>4, <2>5
<1>6. CASE Inserts
  <2>1. call'[c] = call[c] /\ counted'[c] = counted[c] /\ UNCHANGED <<status, revived>>
    BY <1>6 DEF Inserts, Moved
  <2>2. CASE exec'[e] = exec[e]
    BY <1>b, <2>1, <2>2
  <2>3. CASE exec'[e] # exec[e]
    <3>1. PICK w \in Workflows : /\ exec[e].status = "none" /\ status[w] # "none"
                                 /\ exec'[e] = [wf |-> w, status |-> "PENDING"]
      BY <1>0, <1>6, <1>b, <2>1, <2>3 DEF Inserts, Lifecycle!TypeOK
    <3>2. status[call[c].wf] = "none" /\ w # call[c].wf
      BY <1>b, <2>1, <3>1
    <3> QED BY <2>1, <3>1, <3>2
  <2> QED BY <2>2, <2>3
<1>7. CASE ExecutionsMove
  <2>1. PICK d \in Executions : Lifecycle!ExecutionMoves(d)
    BY <1>7 DEF ExecutionsMove
  <2>2. UNCHANGED <<status, call, counted>>
    BY <1>0, <2>1, ExecutionMoved
  <2>3. CASE d = e
    BY <1>0, <1>b, <2>1, <2>2, <2>3, ExecutionMoved
  <2>4. CASE d # e
    <3>1. exec'[e] = exec[e] /\ (e \in revived' <=> e \in revived)
      BY <1>0, <1>b, <2>1, <2>2, <2>4, ExecutionMoved
    <3> QED BY <1>b, <2>2, <3>1
  <2> QED BY <2>3, <2>4
<1> QED BY <1>1, <1>2, <1>3, <1>4, <1>5, <1>6, <1>7 DEF RowsStep

LEMMA RowsInductive ==
  /\ PartsInit => RowsInv
  /\ RowsInv /\ [PartsNext]_<<lifecycleVars, definitionVars, part>> => RowsInv'
<1>1. PartsInit => RowsInv
  BY RowsInitInv DEF PartsInit
<1>2. ASSUME RowsInv, UNCHANGED lifecycleVars PROVE RowsInv'
  <2>1. UNCHANGED <<status, exec, call, counted, revived>>
    BY <1>2 DEF lifecycleVars
  <2>2. Lifecycle!TypeOK' /\ CallsAreWhole'
    BY <1>2, <2>1 DEF RowsInv, Lifecycle!TypeOK, CallsAreWhole
  <2>3. ExecutionsHaveWorkflow' /\ CountedStay' /\ CountedAreOver'
    BY <1>2, <2>1 DEF RowsInv, ExecutionsHaveWorkflow, CountedStay, CountedAreOver, Lifecycle!At
  <2> QED BY <2>2, <2>3 DEF RowsInv
<1>3. ASSUME RowsInv, Lifecycle!Next PROVE RowsInv'
  BY <1>3, RowsSteps, RowsNextType, RowsNextWhole, RowsNextKey, RowsNextCounted DEF RowsInv
<1> QED BY <1>1, <1>2, <1>3 DEF PartsNext

\* The tables of workflows and executions, and the requests of their owners, keep their types.
THEOREM RowsTypeCorrect == PartsSpec => []Lifecycle!TypeOK
<1>1. RowsInv => Lifecycle!TypeOK
  BY DEF RowsInv
<1> QED BY <1>1, RowsInductive, PTL DEF PartsSpec

\* The foreign key holds: whatever deletes, creations and late callbacks overlap, no
\* execution is left without its workflow.
THEOREM ForeignKeyHolds == PartsSpec => []ExecutionsHaveWorkflow
<1>1. RowsInv => ExecutionsHaveWorkflow
  BY DEF RowsInv
<1> QED BY <1>1, RowsInductive, PTL DEF PartsSpec

\* A delete takes with it only such active executions as were made, or made active again
\* by a late callback, after it had counted.
THEOREM DeletesRaceNarrowly == PartsSpec => DeleteRaceIsNarrow
<1>1. ASSUME RowsInv
      PROVE  \A c \in Callers : Lifecycle!At(c, "counted") /\ ~Lifecycle!At(c, "counted")' =>
               \A e \in Lifecycle!Of(call[c].wf) :
                 exec[e].status \in Lifecycle!Active => e \notin counted[c] \/ e \in revived
  BY <1>1 DEF RowsInv, CountedAreOver, Lifecycle!Of
<1>2. RowsInv =>
        [\A c \in Callers : Lifecycle!At(c, "counted") /\ ~Lifecycle!At(c, "counted")' =>
           \A e \in Lifecycle!Of(call[c].wf) :
             exec[e].status \in Lifecycle!Active => e \notin counted[c] \/ e \in revived]_(Lifecycle!vars)
  BY <1>1
<1> QED BY <1>2, RowsInductive, PTL DEF PartsSpec, DeleteRaceIsNarrow, Lifecycle!DeleteRaceIsNarrow
=============================================================================
