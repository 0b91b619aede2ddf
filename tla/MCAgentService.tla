--------------------------- MODULE MCAgentService ---------------------------
(***************************************************************************)
(* Small computations: one without datasets, one with two to upload, one   *)
(* with everything remote, one with a remote and an uploaded dataset.      *)
(***************************************************************************)
EXTENDS AgentService

CONSTANTS c1, c2

Dataset(h, n, remote) == [hash |-> h, name |-> n, remote |-> remote]
Manifest(id, remote, data) ==
    [id |-> id, algo |-> [hash |-> "A", remote |-> remote], data |-> data, consumers |-> 1]

Plain == Manifest("plain", FALSE, <<>>)
Two == Manifest("two", FALSE, <<Dataset("D", "d", FALSE), Dataset("E", "e", FALSE)>>)
Remote == Manifest("remote", TRUE, <<Dataset("D", "d", TRUE), Dataset("E", "e", TRUE)>>)
Mixed == Manifest("mixed", TRUE, <<Dataset("D", "d", TRUE), Dataset("E", "e", FALSE)>>)

AllManifests == {Plain, Two, Remote, Mixed}
PlainManifests == {Plain}

MCUploads == {[hash |-> "A", name |-> "a"], [hash |-> "D", name |-> "d"],
              [hash |-> "E", name |-> "e"]}
AlgoUploads == {[hash |-> "A", name |-> "a"]}
=============================================================================
