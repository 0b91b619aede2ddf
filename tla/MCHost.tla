------------------------------- MODULE MCHost -------------------------------
(***************************************************************************)
(* What runs around an agent, for TLC: the manager of its VM, the egress   *)
(* proxy, and the resources an agent downloads.  They share no state; the  *)
(* variable part picks the one that a behaviour is about.  In the part     *)
(* "archive" a directory or an archive is given, and nothing happens.      *)
(***************************************************************************)
EXTENDS Manager, Egress, RemoteResources

VARIABLES part, archive

hostVars == <<managerVars, egressVars, resourceVars, part, archive>>
-----------------------------------------------------------------------------
(* Requests to the proxy.  A tunnel is opened to one destination only. *)

Targets == {[host |-> h, port |-> p] : h \in {"localhost", "lo", "ten", "name"}, p \in {NoPort, 80, 443}} \cup {NoTarget}

Entries == {[kind |-> "prefix", addresses |-> {"ten"}], [kind |-> "host", host |-> "name"],
            [kind |-> "hostport", host |-> "name", port |-> 443], [kind |-> "hostport", host |-> "ten", port |-> 80]}

MCRequests ==
    {[method |-> m, target |-> t, scheme |-> s] : m \in {"GET", "GET2"}, t \in Targets, s \in {"", "http", "https", "other"}}
    \cup {[method |-> "CONNECT", target |-> t, scheme |-> ""] : t \in {[host |-> "name", port |-> p] : p \in {NoPort, 80, 443}} \cup {NoTarget}}

NoRequest == [method |-> "GET", target |-> NoTarget, scheme |-> ""]
-----------------------------------------------------------------------------
(* Images of one or two layers. *)

MCFileKinds == [f \in {"algo.py", "lib.py", "requirements.txt", "d.csv", "tool", "up.py", "image.tar"} |->
                  CASE f \in {"algo.py", "lib.py", "up.py"} -> "py" [] f = "d.csv" -> "csv" [] f = "tool" -> "executable"
                    [] f = "image.tar" -> "archive" [] OTHER -> "requirements"]

Layer(names, broken) == [readable |-> TRUE, files |-> names, broken |-> broken]

Layers == {Layer(f, "no") : f \in {<<"algo.py">>, <<"requirements.txt", "algo.py">>, <<"lib.py", "algo.py">>, <<"lib.py">>, <<"d.csv">>,
                                  <<"d.csv", "requirements.txt">>}}
          \cup {Layer(<<"algo.py">>, "body"), Layer(<<"requirements.txt", "algo.py">>, "header")}

Images == {<<l, m>> : l, m \in Layers}
          \cup {<<l>> : l \in Layers \cup {Layer(<<"tool", "up.py">>, "no"), [readable |-> FALSE, files |-> <<>>, broken |-> "no"]}}
-----------------------------------------------------------------------------
(* Directories and archives.  In a directory no file is a directory of another. *)

Names == {<<"a">>, <<"b">>, <<"b", "a">>, <<"b", "b", "a">>}

Source(isDir, in) == [isDir |-> isDir, files |-> in, entries |-> <<>>]

Sources ==
    {Source(TRUE, {[path |-> n, type |-> t[n], content |-> <<"of", n>>] : n \in ns}) :
        ns \in {m \in SUBSET Names : ~({<<"b">>, <<"b", "a">>} \subseteq m \/ {<<"b">>, <<"b", "b", "a">>} \subseteq m)},
        t \in [Names -> {"file", "link"}]}
    \cup {Source(FALSE, {[path |-> <<"b", "a">>, type |-> "file", content |-> <<"of", <<"b", "a">>>>]})}

EntryOf(abs, path, type) == [abs |-> abs, path |-> path, type |-> type, content |-> <<"of", path>>]

Archives ==
    {[isDir |-> FALSE, files |-> {}, entries |-> <<EntryOf(FALSE, p, t), EntryOf(abs, q, "file")>>] :
        p \in {<<"a">>, <<"b", "..", "a">>, <<".">>}, t \in {"file", "dir", "link"}, abs \in BOOLEAN,
        q \in {<<>>} \cup UNION {[1..n -> {"a", ".", ".."}] : n \in 1..3}}

Root == <<"root", "dir">>
NoArchive == Source(TRUE, {})
-----------------------------------------------------------------------------
HostInit ==
    /\ part \in {"manager", "egress", "resources", "archive"}
    /\ ManagerInit /\ EgressInit /\ ResourcesInit
    /\ IF part = "egress" THEN req \in MCRequests /\ \E s \in SUBSET Entries : policy = newDestinationPolicy(s)
       ELSE req = NoRequest /\ policy = newDestinationPolicy({})
    /\ req.method = "CONNECT" => policy \in {newDestinationPolicy({}), newDestinationPolicy({[kind |-> "hostport", host |-> "name", port |-> 443]})}
    /\ archive \in IF part = "archive" THEN Sources \cup Archives ELSE {NoArchive}

ManagerPart(A) == part = "manager" /\ A /\ UNCHANGED <<egressVars, resourceVars, part, archive>>
EgressPart(A) == part = "egress" /\ A /\ UNCHANGED <<managerVars, resourceVars, part, archive>>

Download ==
    \E n \in ImageNames, i \in Images :
        \/ \E t \in {"python", "bin"} : downloadAlgorithm(n, i, t)
        \/ downloadDataset(n, i)
        \/ ToDockerArchive(n, i)
        \/ PullAndDecrypt(n, i, "dataset")

ResourcesPart == part = "resources" /\ Download /\ UNCHANGED <<managerVars, egressVars, part, archive>>

HostNext == ManagerPart(ManagerNext) \/ EgressPart(EgressNext) \/ ResourcesPart

\* Timers fire and their callbacks get the mutex, and a CreateVM that began goes on.
HostFairness ==
    \A v \in VMs : WF_hostVars(ManagerPart(CreateStep(v))) /\ WF_hostVars(ManagerPart(TimerFires(v) \/ TTLExpires(v)))

HostSpec == HostInit /\ [][HostNext]_hostVars /\ HostFairness

\* Of writeZip and UnzipFromMemory (zip.go): the regular files of a directory come out of its archive as they were, each
\* below the root at the path it had.
ZipRoundTrips ==
    part = "archive" /\ archive.entries = <<>> /\ archive.isDir =>
        UnzipFromMemory(writeZip(archive), Root) =
            [err |-> "", made |-> {[path |-> Root \o f.path, type |-> "file", content |-> f.content] :
                                      f \in {g \in archive.files : g.type = "file"}}]

\* Of cleanZipEntryName, zipEntryTarget (zip.go) and datasetFilePath (service.go): whatever names an archive holds, what it
\* makes lies below the root, and an absolute name or a link is an error; a data set of such a name is a file in the root.
UnzipStaysInside ==
    part = "archive" =>
        LET unzipped == UnzipFromMemory(archive.entries, Root)
        IN /\ \A m \in unzipped.made : SubSeq(m.path, 1, 2) = Root /\ \A i \in DOMAIN m.path : m.path[i] \notin {".", ".."}
           /\ unzipped.err = "" => \A i \in DOMAIN archive.entries : ~archive.entries[i].abs /\ archive.entries[i].type # "link"
           /\ \A i \in DOMAIN archive.entries :
                 LET target == datasetFilePath(Root, archive.entries[i])
                 IN target # NoFile => Len(target) = 3 /\ SubSeq(target, 1, 2) = Root /\ target[3] \notin {".", ".."}

\* Property (pkg/oci/extract.go, agent/service.go, internal/zip.go): the files the agent unpacks are those it was sent for, of
\* the image and the layer they should come from or of the archive they were put in, and they lie where they should.
UnpackedIsAsPacked == ResourceIsOfItsImage /\ TopAlgorithmIsTaken /\ ZipRoundTrips /\ UnzipStaysInside
=============================================================================
