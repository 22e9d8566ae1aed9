----------------------------- MODULE SkillLoader -----------------------------
(***************************************************************************)
(* LocalSkillLoader.load() (zeaz_agent/skills.py): a skill is a directory  *)
(* with a manifest, an entrypoint and resources.  load() takes no lock: it *)
(* reads the manifest, walks the directory and then reads the resources    *)
(* one by one, while an author may be replacing the same files.  A file is *)
(* a record: its digest stands for its bytes, its links for the local      *)
(* references of its Markdown.  Each system call that looks at one file is *)
(* a step.                                                                 *)
(***************************************************************************)
EXTENDS Integers, Sequences, FiniteSets, FiniteSetsExt, SequencesExt, Sums

CONSTANTS
  ResourcePaths,    \* paths below the package, the manifest's aside
  Entrypoint,       \* "SKILL.md"
  ManifestPath,     \* "skill-manifest.json"
  SkillName,        \* the name load() is called with
  Placeable,        \* [path -> what an author may place there]
  MaxResources, MaxFileBytes, MaxPackageBytes

PackagePaths == ResourcePaths \cup {ManifestPath}

ASSUME SkillAssumption ==
  /\ Entrypoint \in ResourcePaths /\ ManifestPath \notin ResourcePaths
  /\ DOMAIN Placeable = PackagePaths
  /\ MaxResources \in Nat /\ MaxFileBytes \in Nat /\ MaxPackageBytes \in Nat
  /\ \A path \in PackagePaths : \A file \in Placeable[path] :
       /\ file.kind = "file" => file.size \in Nat
       /\ file.kind = "manifest" => file.resources \in Seq(Range(file.resources))

VARIABLES
  files,      \* [PackagePaths -> what the directory holds there]
  loading     \* load(): where it is and what it has read

skillVars == <<files, loading>>

-----------------------------------------------------------------------------
NoFile == [kind |-> "absent"]

NotLoading == [at |-> "idle", manifest |-> NoFile, walked |-> {}, inventory |-> {},
               contents |-> <<>>]

\* The loader's refusals all raise SkillPackageError.
Refuse == loading' = NotLoading

Declared(manifest) == {resource.path : resource \in ToSet(manifest.resources)}

\* SkillManifest's validators.
WellFormed(manifest) ==
  /\ Cardinality(Declared(manifest)) = Len(manifest.resources)
  /\ Entrypoint \in Declared(manifest)

\* load() up to the inventory.
ReadManifest ==
  LET manifest == files[ManifestPath] IN
  /\ loading.at \in {"idle", "loaded"}
  /\ IF /\ manifest.kind = "manifest" /\ WellFormed(manifest)
        /\ manifest.name = SkillName
        /\ Len(manifest.resources) <= MaxResources
     THEN loading' = [NotLoading EXCEPT !.at = "walking", !.manifest = manifest]
     ELSE Refuse
  /\ UNCHANGED files

\* _package_inventory() at one entry, in the order the directory gives.
Walk(path) ==
  LET seen == IF files[path] = NoFile THEN {} ELSE {path} IN
  /\ loading.at = "walking"
  /\ path \notin loading.walked
  /\ IF \/ files[path].kind = "link"
        \/ Cardinality(loading.inventory \cup seen) > MaxResources + 1
     THEN Refuse
     ELSE loading' = [loading EXCEPT !.walked = @ \cup {path}, !.inventory = @ \cup seen]
  /\ UNCHANGED files

\* The comparison of the inventory with the manifest.
CompareInventory ==
  /\ loading.at = "walking"
  /\ loading.walked = PackagePaths
  /\ IF loading.inventory = Declared(loading.manifest) \cup {ManifestPath}
     THEN loading' = [loading EXCEPT !.at = "reading"]
     ELSE Refuse
  /\ UNCHANGED files

\* _read_regular_file(): O_NOFOLLOW, a regular file, not above the maximum.
Readable(file, maximum) == file.kind = "file" /\ file.size <= maximum

\* Mutation: a resource is known by its size.
SameSize(file, resource) == file.size = resource.size

\* The size and the digest that load() compares.
AsDeclared(file, resource) ==
  file.size = resource.size /\ file.digest = resource.digest

PackageBytes(contents) ==
  SumTo([i \in DOMAIN contents |-> contents[i].size], Len(contents))

\* One turn of load()'s loop.
ReadResource ==
  LET resource == loading.manifest.resources[Len(loading.contents) + 1]
      file     == files[resource.path]
  IN
  /\ loading.at = "reading"
  /\ Len(loading.contents) < Len(loading.manifest.resources)
  /\ IF /\ Readable(file, Min({MaxFileBytes, resource.size + 1}))
        /\ AsDeclared(file, resource)
        /\ PackageBytes(loading.contents) + file.size <= MaxPackageBytes
     THEN loading' = [loading EXCEPT !.contents = Append(@, file)]
     ELSE Refuse
  /\ UNCHANGED files

\* LoadedSkill.resource(): the first with the path.
Resource(skill, path) ==
  skill.contents[Min({i \in DOMAIN skill.contents : skill.manifest.resources[i].path = path})]

\* _validate_markdown_references()
ReferencesDeclared(markdown, declared) == markdown.links \subseteq declared

\* The entrypoint is text and refers to resources only; load() returns.
FinishLoad ==
  /\ loading.at = "reading"
  /\ Len(loading.contents) = Len(loading.manifest.resources)
  /\ LET entrypoint == Resource(loading, Entrypoint)
     IN IF entrypoint.text /\ ReferencesDeclared(entrypoint, Declared(loading.manifest))
        THEN loading' = [loading EXCEPT !.at = "loaded"]
        ELSE Refuse
  /\ UNCHANGED files

\* The author: places, replaces, truncates or removes one file.
PlaceFile(path) ==
  /\ \E file \in Placeable[path] : files' = [files EXCEPT ![path] = file]
  /\ UNCHANGED loading

SkillInit ==
  /\ files = [path \in PackagePaths |-> NoFile]
  /\ loading = NotLoading

SkillNext ==
  \/ ReadManifest \/ CompareInventory \/ ReadResource \/ FinishLoad
  \/ \E path \in PackagePaths : Walk(path) \/ PlaceFile(path)

SkillSpec == SkillInit /\ [][SkillNext]_skillVars

-----------------------------------------------------------------------------
\* A loaded skill is one release of it, whatever its author was doing while it
\* was read (load() of skills.py): for some manifest the author has for this
\* skill, each resource is the file the manifest was made for, never that of
\* another release, and the instructions send the agent to nothing that was
\* not loaded with them, nor beyond the size a package may have.
SkillWhole ==
  loading.at = "loaded" =>
    /\ loading.manifest \in Placeable[ManifestPath]
    /\ \A i \in DOMAIN loading.manifest.resources :
         loading.contents[i].digest = loading.manifest.resources[i].digest
    /\ \A path \in Resource(loading, Entrypoint).links :
         Resource(loading, path).kind = "file"
    /\ PackageBytes(loading.contents) <= MaxPackageBytes

=============================================================================
