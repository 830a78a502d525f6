----------------------------- MODULE MCExtHeap -----------------------------
(* ExtHeap with two size classes and two call sites, one of them patched.  *)
EXTENDS ExtHeap

\* Allocations at site 2 are padded by two units.
MCPadding == [s \in Sites |-> IF s = 2 THEN 2 ELSE 0]

\* Objects of site 1 that are freed at site 2 live one allocation longer.
MCExtension ==
  [p \in (Sites \cup {0}) \X Sites |-> IF p = <<1, 2>> THEN 1 ELSE 0]

\* One of several replicas, a program alone, a replay up to an error.
MCEnvironments ==
  {[death |-> 0, replicated |-> TRUE], [death |-> 0, replicated |-> FALSE],
   [death |-> 2, replicated |-> FALSE]}
============================================================================
