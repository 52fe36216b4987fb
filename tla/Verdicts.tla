------------------------------ MODULE Verdicts ------------------------------
(* How a consistency check of scripts/ ends.  A check collects findings and
   either prints them (shown) and exits 1 when there are any, or returns
   early: from a guard, which exits 1 and prints none of what was found so
   far, or with a note that there is nothing to compare against, which exits
   0.  compared says whether the facts were compared with the counterpart
   the check exists for.  Wording is left out: a finding is a tuple naming
   what is wrong, and the notes and guards print no finding. *)

\* What is not there: a file that cannot be read, a stack that does not
\* render, a job without a matrix; a repository that is not checked out.
CONSTANTS Unreadable, None

Judge(found) ==
  [exit |-> IF found = {} THEN 0 ELSE 1,
   found |-> found, shown |-> found, compared |-> TRUE]

Refuse(found) ==
  [exit |-> 1, found |-> found, shown |-> {}, compared |-> FALSE]

Note == [exit |-> 0, found |-> {}, shown |-> {}, compared |-> FALSE]

Passes(verdict) == verdict.exit = 0
=============================================================================
