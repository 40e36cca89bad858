--------------------------- MODULE MCCollections ---------------------------
(***************************************************************************)
(* The collections service on small instances, for TLC.                    *)
(***************************************************************************)
EXTENDS Collections, TLC

Text(f, required) == [name |-> f, type |-> "text", required |-> required]

Unset == [n \in RuleName |-> ""]

\* Two schemas, one with an optional field, and one that is refused.
MCNewMeta ==
    {[fields |-> <<Text("f", TRUE), Text("g", FALSE)>>, rules |-> Unset],
     [fields |-> <<Text("f", TRUE)>>, rules |-> Unset],
     [fields |-> <<Text("f", TRUE), Text("f", FALSE)>>, rules |-> Unset]}

\* A patch of a rule, one of the fields, and one that is refused.
MCPatch ==
    {[keep |-> TRUE, fields |-> <<>>, rules |-> ("list" :> "public")],
     [keep |-> TRUE, fields |-> <<>>, rules |-> ("view" :> "root")],
     [keep |-> FALSE, fields |-> <<Text("g", TRUE)>>, rules |-> <<>>]}

OneSchema == {[fields |-> <<Text("f", TRUE), Text("g", FALSE)>>, rules |-> Unset]}

NoPatches == {}

Full == {"f" :> "abc"}

MCNewData == Full \cup {"g" :> "abc"}

MCPatchData == {"f" :> "xyz", "g" :> "xyz", "f" :> "blank"}

TwoPatches == {"f" :> "xyz", "g" :> "xyz"}

Symmetry == Permutations(Client)
============================================================================
