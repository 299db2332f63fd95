----------------------------- MODULE OutputTree -----------------------------
(***************************************************************************)
(* What `roxy doc` promises about the files it writes, with every          *)
(* intermediate step left out: a run publishes its outputs one at a time,  *)
(* in path order, each file changing in a single step from its old node to *)
(* the whole generated text; it may stop after any prefix, and it says     *)
(* Success exactly when every output is in place.  OutputWriter.tla is the *)
(* detailed protocol and is shown to implement this module.                *)
(***************************************************************************)
EXTENDS Naturals

CONSTANTS Runs,        \* the roxy processes
          NumRd,       \* the Rd paths are 1 .. NumRd, in path order
          Generated,   \* texts that carry a generation marker
          Unmanaged,   \* nodes that must not be overwritten
          Wants,       \* what a run may generate
          MaxEdits     \* bound on the environment's changes

Paths == 0 .. NumRd
Nodes == {"Absent"} \cup Unmanaged \cup Generated

VARIABLES fs,          \* the node at each output path
          want,        \* the text each run generated for each path
          completed,   \* the paths each run has published
          phase,       \* idle, running or ended
          success,     \* the runs that reported Success
          edits        \* changes made by anyone but a roxy process

vars == <<fs, want, completed, phase, success, edits>>

Outputs(w) == {p \in Paths : want[w][p] # "NoOutput"}

Init == /\ fs \in [Paths -> Nodes]
        /\ want = [w \in Runs |-> [p \in Paths |-> "NoOutput"]]
        /\ completed = [w \in Runs |-> {}]
        /\ phase = [w \in Runs |-> "idle"]
        /\ success = {}
        /\ edits = 0

Begin(w) == /\ phase[w] # "running"
            /\ \E o \in Wants : want' = [want EXCEPT ![w] = o]
            /\ phase' = [phase EXCEPT ![w] = "running"]
            /\ completed' = [completed EXCEPT ![w] = {}]
            /\ success' = success \ {w}
            /\ UNCHANGED <<fs, edits>>

\* A run that ends before it has any output (bad inputs, diagnostics).
Refuse(w) == /\ phase[w] # "running"
             /\ want' = [want EXCEPT ![w] = [p \in Paths |-> "NoOutput"]]
             /\ phase' = [phase EXCEPT ![w] = "ended"]
             /\ completed' = [completed EXCEPT ![w] = {}]
             /\ success' = success \ {w}
             /\ UNCHANGED <<fs, edits>>

\* The least output not yet published becomes visible, whole.
Publish(w, p) == /\ phase[w] = "running"
                 /\ p \in Outputs(w) \ completed[w]
                 /\ \A q \in Outputs(w) \ completed[w] : p <= q
                 /\ fs' = [fs EXCEPT ![p] = want[w][p]]
                 /\ completed' = [completed EXCEPT ![w] = @ \cup {p}]
                 /\ UNCHANGED <<want, phase, success, edits>>

End(w) == /\ phase[w] = "running"
          /\ phase' = [phase EXCEPT ![w] = "ended"]
          /\ success' \in {success, success \cup {w}}
          /\ w \in success' => completed[w] = Outputs(w)
          /\ UNCHANGED <<fs, want, completed, edits>>

\* Another program, or the author, changes the tree.
Edit == /\ edits < MaxEdits
        /\ edits' = edits + 1
        /\ fs' \in [Paths -> Nodes]
        /\ UNCHANGED <<want, completed, phase, success>>

Next == \/ \E w \in Runs : Begin(w) \/ Refuse(w) \/ End(w)
        \/ \E w \in Runs, p \in Paths : Publish(w, p)
        \/ Edit

Spec == Init /\ [][Next]_vars
=============================================================================
