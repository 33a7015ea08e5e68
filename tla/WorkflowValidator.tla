--------------------------- MODULE WorkflowValidator ---------------------------
(* validate_workflow: the checks of a ComfyUI workflow before it is sent,   *)
(* and the depth-first search for cycles.                                   *)
(* backend/app/providers/comfy/workflow_validator.py.                       *)
(* A workflow is a sequence of nodes in the order of its dict; a node's id   *)
(* is its position. The inputs of a node that are links are the set of       *)
(* their targets and output indexes ("ok" or "bad"); other values, which     *)
(* the code passes over, are left out.                                       *)
EXTENDS Integers, Sequences, SequencesExt, FiniteSets

Issue(code, node) == [code |-> code, node |-> node]

ClassIssues(n, node) ==
  CASE node.class = "missing" -> {Issue("MISSING_CLASS_TYPE", n)}
    [] node.class = "unknown" -> {Issue("UNKNOWN_CLASS_TYPE", n)}
    [] OTHER -> {}

LinkIssues(workflow, n, link) ==
  LET target == IF link.to = n THEN {Issue("SELF_REFERENCE", n)}
                ELSE IF link.to \notin DOMAIN workflow THEN {Issue("BROKEN_LINK", n)} ELSE {}
  IN target \cup (IF link.index = "bad" THEN {Issue("INVALID_OUTPUT_INDEX", n)} ELSE {})

NodeIssues(workflow, n) ==
  LET node == workflow[n]
  IN CASE node.shape = "no object" -> {Issue("INVALID_NODE", n)}
       [] node.shape = "bad inputs" -> ClassIssues(n, node) \cup {Issue("INVALID_INPUTS", n)}
       [] OTHER -> ClassIssues(n, node)
                     \cup UNION {LinkIssues(workflow, n, link) : link \in node.links}

(* The graph of the links, whose targets are nodes, of nodes with inputs. *)
Graph(workflow) ==
  [n \in DOMAIN workflow |->
     IF workflow[n].shape # "object" THEN {}
     ELSE {link.to : link \in workflow[n].links} \cap DOMAIN workflow]

(* Mutant: a node is marked visited when the search enters it. *)
EnterVisited(search, n) == [search EXCEPT !.visiting = @ \cup {n}, !.visited = @ \cup {n}]

Enter(search, n) == [search EXCEPT !.visiting = @ \cup {n}]

(* visit: what it returns is the state of the search, which the code shares *)
(* between all calls: the nodes being visited and visited, the cycles found *)
(* and, for the record, the calls made. The dependencies of a node are a    *)
(* Python set, which is walked in the order that order[n] gives.            *)
Searches ==
  [visiting : SUBSET Nat, visited : SUBSET Nat, cycles : SUBSET Seq(Nat), calls : Nat]

Search(order) ==
  LET visit[n \in DOMAIN order, path \in Seq(Nat), search \in Searches] ==
        LET s == [search EXCEPT !.calls = @ + 1]
            after == FoldLeft(LAMBDA t, d : visit[d, Append(path, n), t], Enter(s, n), order[n])
        IN IF n \in s.visited THEN s
           ELSE IF n \in s.visiting THEN [s EXCEPT !.cycles = @ \cup {Append(path, n)}]
           ELSE [after EXCEPT !.visiting = @ \ {n}, !.visited = @ \cup {n}]
  IN FoldLeft(LAMBDA s, n : visit[n, <<>>, s],
              [visiting |-> {}, visited |-> {}, cycles |-> {}, calls |-> 0],
              [n \in DOMAIN order |-> n])

ValidateWorkflow(workflow, order) ==
  LET search == Search(order)
      issues == UNION {NodeIssues(workflow, n) : n \in DOMAIN workflow}
  IN [issues |-> issues, cycles |-> search.cycles, calls |-> search.calls,
      valid |-> issues = {} /\ search.cycles = {}]

===============================================================================
