----------------------------- MODULE MCReplicated -----------------------------
EXTENDS Replicated

\* Enough outputs for three replicas to agree, to be outvoted or to disagree.
MCValue == {"good", "bad", "worse"}
MCFp == [v \in MCValue \cup {"junk"} |->
           CASE v = "good" -> 1 [] v = "bad" -> 2 [] v = "worse" -> 3
             [] v = "junk" -> 4]
===============================================================================
