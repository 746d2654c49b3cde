------------------------------- MODULE MCAuraCalls -------------------------------
(***************************************************************************)
(* AuraCalls on small instances.                                           *)
(***************************************************************************)
EXTENDS AuraCalls

\* The default, one with a slash, and one that does not parse.
SomeBaseURLs ==
    {[path |-> <<"v1">>, slash |-> FALSE, valid |-> TRUE],
     [path |-> <<"proxy", "v1">>, slash |-> TRUE, valid |-> TRUE],
     [path |-> <<>>, slash |-> FALSE, valid |-> FALSE]}

================================================================================
