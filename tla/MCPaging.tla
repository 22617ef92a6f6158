------------------------------ MODULE MCPaging ------------------------------
(* Values for model checking Paging. *)
EXTENDS Paging
CONSTANTS First, Second, CodePage, DataPage, StackPage
MCFrame == 0 .. 2
MCSlot == 0 .. 1

\* One process with all it has; two that grow their stacks; two of which one
\* grows its stack and the other one runs into its code.
MCPrograms == {[x \in {First} |-> {DataPage, CodePage, StackPage}],
               [x \in {First, Second} |-> {DataPage, StackPage}],
               [x \in {First, Second} |-> IF x = First THEN {DataPage, StackPage} ELSE {DataPage, CodePage}]}
MCOneProgram == {[x \in {First} |-> {DataPage, CodePage}]}
=============================================================================
