-------------------------- MODULE RemoteResources --------------------------
(***************************************************************************)
(* Files that come from elsewhere: ZIP archives (internal/zip.go), names   *)
(* of data sets (agent/service.go datasetFilePath), and algorithms and     *)
(* data sets in OCI images (pkg/oci, agent/service.go                      *)
(* downloadAndDecryptOCIImage).  An agent keeps one directory of extracted *)
(* files for each name of an image; nothing removes files from it.         *)
(***************************************************************************)
EXTENDS Naturals, Sequences, FiniteSets

LOCAL INSTANCE SequencesExt

CONSTANTS
    FileKinds,      \* the file names of an image, a record from name to kind
    Outside,        \* those whose cleaned path is absolute or begins with ".."
    ImageNames,     \* directory names made from the URL of an image
    NoFile,         \* no file has this name, no path was found
    MaxDownloads    \* bound on the downloads of an agent

VARIABLES
    extracted,      \* per directory name, the content of each file
    fetched,        \* the last download: [name, image, type, err, data, requirements]
    downloads       \* how many there were

resourceVars == <<extracted, fetched, downloads>>

Files == DOMAIN FileKinds
-----------------------------------------------------------------------------
(* Archives.  A path is a sequence of segments; an entry is [abs, path, type, content]. *)

cleanPath(path) ==
    LET step(clean, s) ==
            IF s = "." THEN clean
            ELSE IF s = ".." /\ clean # <<>> /\ Last(clean) # ".." THEN Front(clean)
            ELSE Append(clean, s)
    IN FoldLeft(step, <<>>, path)

\* An entry is refused if it is absolute, or if its cleaned name is ".", ".." or begins with "../".
cleanZipEntryName(entry) ==
    LET clean == cleanPath(entry.path)
    IN IF entry.abs \/ clean = <<>> \/ clean[1] = ".." THEN NoFile ELSE clean

\* The target must lie below the root, whatever the name was.
zipEntryTarget(root, name) ==
    LET target == cleanPath(root \o name)
    IN IF IsPrefix(root, target) THEN target ELSE NoFile

unzipEntry(entry, root) ==
    LET name == cleanZipEntryName(entry)
        target == IF name = NoFile THEN NoFile ELSE zipEntryTarget(root, name)
    IN [err |-> IF target = NoFile \/ entry.type = "link" THEN "unsafe" ELSE "", target |-> target]

\* A file where a directory is wanted, or a directory where a file is.
extractZipFile(made, type, target) ==
    \E m \in made : \/ m.type = "file" /\ IsStrictPrefix(m.path, target)
                    \/ type = "file" /\ IsPrefix(target, m.path) /\ (m.path # target \/ m.type = "dir")
                    \/ type = "dir" /\ m.path = target /\ m.type = "file"

\* Entries are extracted in order, up to the first that fails; what the ones before it made stays.
UnzipFromMemory(entries, root) ==
    LET extract(acc, entry) ==
            LET one == unzipEntry(entry, root)
                new == [path |-> one.target, type |-> entry.type, content |-> entry.content]
            IN IF acc.err # "" THEN acc
               ELSE IF one.err # "" THEN [acc EXCEPT !.err = one.err]
               ELSE IF extractZipFile(acc.made, entry.type, one.target) THEN [acc EXCEPT !.err = "mkdir"]
               ELSE [acc EXCEPT !.made = {m \in @ : m.path # one.target} \cup {new}]
    IN FoldLeft(extract, [err |-> "", made |-> {}], entries)

\* The regular files below a directory, or the file itself; links and devices are passed over.
zipSourceFiles(source) == {f \in source.files : f.type = "file"}

zipEntryName(source, file) == IF source.isDir THEN file.path ELSE <<Last(file.path)>>

addZipFile(source, file) == [abs |-> FALSE, path |-> zipEntryName(source, file), type |-> "file", content |-> file.content]

writeZip(source) == SetToSeq({addZipFile(source, f) : f \in zipSourceFiles(source)})

\* The name of a data set: one segment that is already clean.
datasetFilePath(root, entry) ==
    IF entry.abs \/ entry.path # cleanPath(entry.path) \/ Len(entry.path) # 1 \/ entry.path[1] = ".." THEN NoFile
    ELSE root \o entry.path
-----------------------------------------------------------------------------
(* The layers of an image, the lowest first: [readable, files, broken], where files are the names in the order of the *)
(* tar stream and broken says where that ends in an error: "no", "header" or "body", that of the last file.          *)

isAlgorithmFile(type) ==
    {f \in Files : \/ type = "python" /\ FileKinds[f] = "py"
                   \/ type = "wasm" /\ FileKinds[f] = "wasm"
                   \/ type = "bin" /\ FileKinds[f] = "executable"}

isRequirements == {f \in Files : FileKinds[f] = "requirements"}

isDataFile == {f \in Files : FileKinds[f] \in {"csv", "requirements", "archive"}}

Content(image, i, whole) == [image |-> image, layer |-> i, whole |-> whole]

\* Mutant of writeLayer: a file that is there already is left alone.
writeNewFiles(dir, image, i, wanted) ==
    [f \in Files |-> IF f \in wanted \ Outside /\ (\E j \in DOMAIN image[i].files : image[i].files[j] = f) /\ dir[f] = NoFile
                     THEN Content(image, i, TRUE) ELSE dir[f]]

\* Files are created or truncated.
writeLayer(dir, image, i, wanted) ==
    LET layer == image[i]
        last == Len(layer.files)
    IN IF ~layer.readable THEN dir
       ELSE [f \in Files |->
               IF f \in wanted \ Outside /\ \E j \in DOMAIN layer.files : layer.files[j] = f
               THEN Content(image, i, ~(layer.broken = "body" /\ layer.files[last] = f)) ELSE dir[f]]

fails(layer) == ~layer.readable \/ layer.broken # "no"

firstOf(layer, wanted) ==
    LET found == {j \in DOMAIN layer.files : layer.files[j] \in wanted \ Outside}
    IN IF found = {} THEN NoFile ELSE layer.files[CHOOSE j \in found : \A k \in found : j <= k]

extractLayerAndFindAlgorithm(dir, image, i, type) ==
    [dir |-> writeLayer(dir, image, i, isAlgorithmFile(type) \cup isRequirements),
     algorithm |-> IF fails(image[i]) THEN NoFile ELSE firstOf(image[i], isAlgorithmFile(type)),
     requirements |-> IF fails(image[i]) THEN NoFile ELSE firstOf(image[i], isRequirements)]

\* The layers from the top; a layer that fails is passed over, with the files it has left.
ExtractAlgorithm(dir, image, type) ==
    LET complete(acc) == acc.algorithm # NoFile /\ (type = "python" => acc.requirements # NoFile)
        visit(i, acc) ==
            LET found == extractLayerAndFindAlgorithm(acc.dir, image, i, type)
            IN IF complete(acc) THEN acc
               ELSE [dir |-> found.dir,
                     algorithm |-> IF acc.algorithm # NoFile THEN acc.algorithm ELSE found.algorithm,
                     requirements |-> IF acc.requirements # NoFile THEN acc.requirements ELSE found.requirements]
    IN FoldRightDomain(visit, image, [dir |-> dir, algorithm |-> NoFile, requirements |-> NoFile])

extractLayerDataFiles(dir, image, i) ==
    [dir |-> writeLayer(dir, image, i, isDataFile),
     files |-> IF fails(image[i]) THEN <<>> ELSE SelectSeq(image[i].files, LAMBDA f : f \in isDataFile \ Outside)]

ExtractDataset(dir, image) ==
    LET visit(i, acc) == LET found == extractLayerDataFiles(acc.dir, image, i) IN [dir |-> found.dir, files |-> acc.files \o found.files]
    IN FoldRightDomain(visit, image, [dir |-> dir, files |-> <<>>])
-----------------------------------------------------------------------------
(* The agent downloads one resource after the other. *)

\* internal.Digest: a file, or all the files that the directory holds by now.
Digest(dir, files) ==
    LET hashed == IF Cardinality(files) = 1 THEN files ELSE {f \in Files : dir[f] # NoFile}
    IN {<<f, dir[f]>> : f \in hashed}

Downloaded(name, image, type, dir, err, data, requirements) ==
    /\ extracted' = [extracted EXCEPT ![name] = dir]
    /\ fetched' = [name |-> name, image |-> image, type |-> type, err |-> err, data |-> data, requirements |-> requirements]
    /\ downloads' = downloads + 1

\* The file of the image, or one that lies beside the algorithm.
requirementsOf(dir, found) ==
    LET beside == {f \in isRequirements : dir[f] # NoFile}
    IN IF found # NoFile THEN dir[found] ELSE IF beside # {} THEN dir[CHOOSE f \in beside : TRUE] ELSE NoFile

ResourcesInit ==
    /\ extracted = [n \in ImageNames |-> [f \in Files |-> NoFile]]
    /\ fetched = NoFile
    /\ downloads = 0

downloadAlgorithm(name, image, type) ==
    LET found == ExtractAlgorithm(extracted[name], image, type)
    IN /\ downloads < MaxDownloads
       /\ IF found.algorithm = NoFile THEN Downloaded(name, image, type, found.dir, "no_algorithm", {}, NoFile)
          ELSE Downloaded(name, image, type, found.dir, "", Digest(found.dir, {found.algorithm}),
                          requirementsOf(found.dir, found.requirements))

\* One file is taken as it is; of several, the whole directory.
downloadDataset(name, image) ==
    LET found == ExtractDataset(extracted[name], image)
        files == found.files
    IN /\ downloads < MaxDownloads
       /\ IF files = <<>> THEN Downloaded(name, image, "dataset", found.dir, "no_dataset", {}, NoFile)
          ELSE Downloaded(name, image, "dataset", found.dir, "", Digest(found.dir, IF Len(files) = 1 THEN {files[1]} ELSE {}), NoFile)

\* A docker algorithm is the image itself, in an archive beside the extracted files.
ToDockerArchive(name, image) ==
    LET archive == {f \in Files : FileKinds[f] = "archive"}
        dir == [f \in Files |-> IF f \in archive THEN Content(image, 0, TRUE) ELSE extracted[name][f]]
    IN downloads < MaxDownloads /\ Downloaded(name, image, "docker", dir, "", Digest(dir, archive), requirementsOf(dir, NoFile))

\* skopeo, the index or the manifest of the image fails before anything is extracted.
PullAndDecrypt(name, image, type) ==
    downloads < MaxDownloads /\ Downloaded(name, image, type, extracted[name], "pull", {}, NoFile)
-----------------------------------------------------------------------------
(* Properties. *)

\* Of writeLayer (extract.go, O_TRUNC) and downloadAndDecryptOCIImage (service.go): an algorithm, or a data set that is a single file,
\* is of the image that was asked for, although its directory may hold files of earlier images with the same name.
ResourceIsOfItsImage ==
    fetched # NoFile /\ fetched.err = "" /\ (fetched.type = "dataset" => Cardinality(fetched.data) = 1) =>
        \A d \in fetched.data : d[2].image = fetched.image

\* Of ExtractAlgorithm (extract.go, "Process layers in reverse order (top layers first)"): if no name is in two layers,
\* the algorithm comes whole from the topmost layer that can be read to its end and has one.
TopAlgorithmIsTaken ==
    fetched # NoFile /\ fetched.err = "" /\ fetched.type \in {"python", "wasm", "bin"} =>
        LET image == fetched.image
            names(i) == {image[i].files[j] : j \in DOMAIN image[i].files}
            having == {i \in DOMAIN image : ~fails(image[i]) /\ names(i) \cap (isAlgorithmFile(fetched.type) \ Outside) # {}}
        IN (\A i, j \in DOMAIN image : i # j => names(i) \cap names(j) = {}) =>
              \A d \in fetched.data : d[2] = Content(image, CHOOSE i \in having : \A j \in having : j <= i, TRUE)
=============================================================================
