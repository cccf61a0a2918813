----------------------------- MODULE MCProcesses -----------------------------
(* Instances of Processes. *)
EXTENDS Processes, TLC

Page(v, write, nobits, short) ==
  [vpage |-> v, write |-> write, nobits |-> nobits, short |-> short, aligned |-> TRUE]

\* A program of one page of code and one of zeroes, one of a page of data in which
\* the file ends, one whose section does not begin on a page boundary; files with a
\* wrong header, and one that does not exist.
MCSections == ("prog" :> <<Page(0, FALSE, FALSE, FALSE), Page(1, TRUE, TRUE, FALSE)>>)
              @@ ("data" :> <<Page(0, TRUE, FALSE, TRUE)>>)
              @@ ("shift" :> <<[Page(0, TRUE, TRUE, FALSE) EXCEPT !.aligned = FALSE]>>)
              @@ ("bad" :> <<>>) @@ ("odd" :> <<>>) @@ ("none" :> <<>>)
Good == [class |-> "64", data |-> "little", faults |-> {}]
MCHeader == ("prog" :> Good) @@ ("shift" :> Good) @@ ("data" :> [Good EXCEPT !.class = "32"])
            @@ ("bad" :> [Good EXCEPT !.faults = {"machine"}])
            @@ ("odd" :> [Good EXCEPT !.class = "none"]) @@ ("none" :> None)

Symmetry == Permutations(Threads \ {Main}) \cup Permutations(Procs \ {Boot})

=============================================================================
