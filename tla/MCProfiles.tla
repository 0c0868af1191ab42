----------------------------- MODULE MCProfiles -----------------------------
(* Three profiles, the id of one the beginning of another's, and a section  *)
(* of the user's in config.toml.                                            *)
EXTENDS Profiles, TLC

MCLonger == [i \in {"base", "base_test", "shop"} |->
               IF i = "base" THEN {"base_test"} ELSE {}]

MCFlags == {{"infobase", "platform", "base_url", "ditrix_url"},
            {"dump", "infobase", "server", "ditrix_project", "external_objects_root"},
            {"base_url", "unusable"}}

MCStartText == <<[kind |-> "text", id |-> "shop", mode |-> "edt"],
                 [kind |-> "own", id |-> "shop", mode |-> "edt"]>>

Symmetry == Permutations(Calls)
=============================================================================
