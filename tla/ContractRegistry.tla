--------------------------- MODULE ContractRegistry ---------------------------
(***************************************************************************)
(* The contract registry of fl-op (contracts/registry.py): an index of     *)
(* contracts read from registry.yaml, into which the domain packs of       *)
(* installed distributions are merged (contracts/plugins.py), and the      *)
(* resolution of a contract id, which may be a registry key, a local id of *)
(* a domain, a qualified id or a versioned artifact reference.  The checks *)
(* of the suite validation that read the index are here as well            *)
(* (contracts/validate.py).                                                *)
(*                                                                         *)
(* A qualified id domain/local is the pair <<domain, local>>.  A contract  *)
(* document is a record of its version, its physical fields and its        *)
(* canonical mapping; the schema of both is in ContractEvolution.          *)
(***************************************************************************)
EXTENDS Integers, FiniteSets, Sequences, SequencesExt

CONSTANTS
    None,           \* an absent domain, artifact id, version or mapping
    Declared,       \* canonical bindings the canonical model declares
    Required        \* the ones it requires

\* ContractEntry: the identity of a registered contract.
EntryOf(domain, local, artifact) ==
    [domain |-> domain, local |-> local, artifact |-> artifact]

\* qualified_id
QualifiedId(entry) ==
    IF entry.domain # None THEN <<entry.domain, entry.local>> ELSE <<entry.local>>

\* _contract_artifact_for_resolved: the artifact id, and the two independently
\* governed versions behind it.
ArtifactId(entry) ==
    IF entry.artifact # None THEN entry.artifact ELSE QualifiedId(entry)

MappingVersion(doc) == IF doc.map = None THEN None ELSE doc.map.ver

Artifact(entry, doc) ==
    [id |-> ArtifactId(entry), version |-> <<doc.ver, MappingVersion(doc)>>]

-------------------------------------------------------------------------------
(* Domain packs (contracts/plugins.py).                                    *)

\* A contribution is a slice of the index: a domain, contracts and profiles.
\* _conflicts: the keys it shares with what is registered already.
Conflicts(index, pack) ==
    \/ pack.domain \in index.domains
    \/ DOMAIN pack.contracts \cap DOMAIN index.contracts # {}
    \/ pack.profiles \cap index.profiles # {}

\* merge_contributions, one pack: all of it or nothing.
MergeOne(index, pack) ==
    IF Conflicts(index, pack) THEN index
    ELSE [domains |-> index.domains \cup {pack.domain},
          contracts |-> [k \in DOMAIN index.contracts \cup DOMAIN pack.contracts |->
                            IF k \in DOMAIN index.contracts THEN index.contracts[k]
                            ELSE pack.contracts[k]],
          profiles |-> index.profiles \cup pack.profiles]

\* The live index of FileRegistry: the file's, with the packs merged in the
\* order of their discovery.
LiveIndex(file, packs) == FoldLeft(MergeOne, file, packs)

-------------------------------------------------------------------------------
(* Resolution (contracts/registry.py).                                     *)

Unresolved == "unresolved"      \* KeyError: unknown or ambiguous id

\* _check_requested_artifact_version
VersionChecked(index, docs, key, version) ==
    IF version = None \/ Artifact(index.contracts[key], docs[key]).version = version
    THEN key ELSE Unresolved

TheOnly(S) == CHOOSE x \in S : TRUE

\* resolve_contract_id for an id of the form domain/local.
ResolveQualified(index, docs, pair, version) ==
    LET matches == {k \in DOMAIN index.contracts :
                        \/ <<index.contracts[k].domain, index.contracts[k].local>> = pair
                        \/ ArtifactId(index.contracts[k]) = pair}
    IN IF Cardinality(matches) = 1 THEN VersionChecked(index, docs, TheOnly(matches), version)
       ELSE Unresolved

\* resolve_contract_id for an id without a slash: a local id of the domain
\* asked for, a registry key, or a local id that only one contract has.
ResolvePlain(index, docs, id, version, domain) ==
    LET inDomain == {k \in DOMAIN index.contracts :
                        index.contracts[k].domain = domain /\ index.contracts[k].local = id}
        anywhere == {k \in DOMAIN index.contracts : index.contracts[k].local = id}
        found == IF domain # None /\ Cardinality(inDomain) = 1 THEN TheOnly(inDomain)
                 ELSE IF domain # None /\ Cardinality(inDomain) > 1 THEN Unresolved
                 ELSE IF id \in DOMAIN index.contracts THEN id
                 ELSE IF Cardinality(anywhere) = 1 THEN TheOnly(anywhere)
                 ELSE Unresolved
    IN IF found = Unresolved THEN Unresolved ELSE VersionChecked(index, docs, found, version)

-------------------------------------------------------------------------------
(* Suite validation (contracts/validate.py).                               *)

\* A validation that does not compare the artifact ids.
RegistryErrorsLocal(index, docs) ==
    LET C == index.contracts
    IN {k \in DOMAIN C :
           \/ docs[k].ver = None
           \/ docs[k].map # None /\ docs[k].map.ver = None
           \/ C[k].domain # None /\ ArtifactId(C[k])[1] # C[k].domain}

\* validate_registry_artifacts: versions present, ids qualified by the domain
\* of the contract and not shared (both contracts of a pair count here).
RegistryErrors(index, docs) ==
    LET C == index.contracts
    IN {k \in DOMAIN C :
           \/ docs[k].ver = None
           \/ docs[k].map # None /\ docs[k].map.ver = None
           \/ C[k].domain # None /\ ArtifactId(C[k])[1] # C[k].domain
           \/ \E j \in DOMAIN C \ {k} : ArtifactId(C[j]) = ArtifactId(C[k])}

\* The canonical bindings a mapping document targets.
Targets(map) == IF map = None THEN {} ELSE {map.fields[s].target : s \in DOMAIN map.fields}

\* _check_mapping_against_model: every binding is declared.
BindingsDeclared(doc) == Targets(doc.map) \subseteq Declared

\* validate_suite: the required bindings of a covered entity are all mapped by
\* some contract.
ModelCovered(index, docs) ==
    LET covered == UNION {Targets(docs[k].map) : k \in DOMAIN index.contracts}
        mapped == {k \in DOMAIN index.contracts : docs[k].map # None}
    IN mapped # {} => Required \subseteq covered

===============================================================================
