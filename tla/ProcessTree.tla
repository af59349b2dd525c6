----------------------------- MODULE ProcessTree -----------------------------
(***************************************************************************)
(* getProcessTreeRSS, the sum over a process and its descendants that the  *)
(* memory monitor compares with the limit.                                 *)
(*                                                                         *)
(* The files of /proc change while it reads them. It reads those of a      *)
(* process at most once, so what it gets to see is some                    *)
(*   proc[pid] = [gone : its statm could not be read,                      *)
(*                rss : its resident pages, children : its children],      *)
(* and since processes come, go and get new parents meanwhile, any proc is *)
(* possible, with processes under two parents and cycles. A process whose  *)
(* task directory cannot be read has no children.                          *)
(***************************************************************************)
EXTENDS Naturals, FiniteSets

LOCAL INSTANCE SequencesExt

RECURSIVE TreeRSSForgetful(_, _, _)
RECURSIVE TreeRSS(_, _, _)

\* Mutant: each child is given a copy of visited.
TreeRSSForgetful(proc, pid, visited) ==
  LET Add(sum, child) ==
        [sum EXCEPT !.rss = @ + TreeRSSForgetful(proc, child, sum.visited).rss]
  IN IF pid \in visited THEN [rss |-> 0, visited |-> visited, err |-> FALSE]
     ELSE IF proc[pid].gone
       THEN [rss |-> 0, visited |-> visited \cup {pid}, err |-> TRUE]
     ELSE FoldLeft(Add, [rss |-> proc[pid].rss, visited |-> visited \cup {pid},
                         err |-> FALSE],
                   SetToSeq(proc[pid].children))

\* getProcessTreeRSSRecursive: visited is shared by all calls, and a child that
\* cannot be read is passed over.
TreeRSS(proc, pid, visited) ==
  LET Add(sum, child) ==
        LET below == TreeRSS(proc, child, sum.visited)
        IN [sum EXCEPT !.rss = @ + below.rss, !.visited = below.visited]
  IN IF pid \in visited THEN [rss |-> 0, visited |-> visited, err |-> FALSE]
     ELSE IF proc[pid].gone
       THEN [rss |-> 0, visited |-> visited \cup {pid}, err |-> TRUE]
     ELSE FoldLeft(Add, [rss |-> proc[pid].rss, visited |-> visited \cup {pid},
                         err |-> FALSE],
                   SetToSeq(proc[pid].children))

GetProcessTreeRSS(proc, pid) == TreeRSS(proc, pid, {})

=============================================================================
