-------------------------- MODULE ContractEvolution --------------------------
(***************************************************************************)
(* The schema-evolution gate of fl-op (contracts/evolution.py) and the     *)
(* fingerprint guard beside it (contracts/registry.py, validate.py, the    *)
(* commands of planning/contracts.py).  Authors edit contract documents;   *)
(* check_evolution compares each one with the history of snapshots that    *)
(* freeze_baselines recorded and asks for a version bump that fits the     *)
(* change; validate --write acknowledges a changed mapping by storing its  *)
(* fingerprint.  Domain packs come and go and bring contracts of their     *)
(* own.                                                                    *)
(*                                                                         *)
(* A version is <<major, minor, patch>>.  A field is its type (logicalType *)
(* and physicalType) and whether it is required.  The hash of a mapping is *)
(* the mapping.  A mapping has a contract block and a block per source     *)
(* field; unit stands for canonicalUnit and quantityKind, target for the   *)
(* binding and semanticTerm, and rest for every other key of a block.      *)
(***************************************************************************)
EXTENDS ContractRegistry, ProfileComposition

CONSTANTS
    Keys,           \* registry keys of all contracts there may be
    Docs,           \* per key, the documents its author may write
    FileIndex,      \* the index of registry.yaml
    Packs,          \* domain packs that may be installed
    ProfileDocs,    \* the profile documents, by their ids
    ProfileRefs,    \* input contracts of the profiles: <<local id, domain>>
    MaxHistory      \* bound: snapshots of one history

\* A registry is finite, and no key is mistaken for a failed look-up.
ASSUME KeysAssumption == IsFiniteSet(Keys) /\ Unresolved \notin Keys

Versions == Nat \X Nat \X Nat

\* The versions of the documents parse (_parse_version); a missing one is None.
ASSUME VersionsAssumption ==
    \A c \in Keys : \A d \in Docs[c] :
        /\ d.ver = None \/ d.ver \in Versions
        /\ d.map # None => d.map.ver = None \/ d.map.ver \in Versions

\* Slices of the index: contracts under keys, profiles that have a document.
Entries ==
    LET range(f) == {f[k] : k \in DOMAIN f}
    IN range(FileIndex.contracts) \cup UNION {range(p.contracts) : p \in Packs}
Contracts == UNION {[S -> Entries] : S \in SUBSET Keys}
Indexes ==
    [domains : SUBSET (FileIndex.domains \cup {p.domain : p \in Packs}),
     contracts : Contracts, profiles : SUBSET DOMAIN ProfileDocs]

\* The file and the packs register such slices (FileRegistry, discover_domain_packs).
ASSUME IndexAssumption ==
    /\ FileIndex \in Indexes
    /\ \A p \in Packs : p.contracts \in Contracts /\ p.profiles \subseteq DOMAIN ProfileDocs

\* A profile document is a profile (OptimizationProfile).
ASSUME ProfilesAssumption ==
    IsFiniteSet(DOMAIN ProfileDocs) /\ \A r \in DOMAIN ProfileDocs : ProfileDocs[r] \in Profiles

NoBaseline == "no baseline"

VARIABLES
    docs,           \* the contract documents in the tree
    packs,          \* installed domain packs, in the order of discovery
    stored,         \* optimizationMetadataHash of each contract in registry.yaml
    baseline        \* reviewed history of each contract under contracts/evolution

evolutionVars == <<docs, packs, stored, baseline>>

Index == LiveIndex(FileIndex, packs)
Registered == DOMAIN Index.contracts

-------------------------------------------------------------------------------
(* Change classes, by the strictness of the bump they need.                *)

Identical == 0
Backward == 1
Breaking == 2

Worst(classes) == IF classes = {} THEN Identical ELSE Max(classes)

\* classify_change
ClassifyChange(old, new) ==
    LET removed == DOMAIN old \ DOMAIN new
        added == DOMAIN new \ DOMAIN old
        changed == {n \in DOMAIN old \cap DOMAIN new : old[n] # new[n]}
    IN IF removed # {} \/ changed # {} \/ \E n \in added : new[n].required THEN Breaking
       ELSE IF added # {} THEN Backward ELSE Identical

\* _diff_additive_list
DiffAdditive(old, new) ==
    IF old = new THEN Identical ELSE IF old \subseteq new THEN Backward ELSE Breaking

\* _diff_metric_codes
DiffCodes(old, new) ==
    IF \E k \in DOMAIN old : k \notin DOMAIN new \/ new[k] # old[k] THEN Breaking
    ELSE IF DOMAIN new # DOMAIN old THEN Backward ELSE Identical

\* A canonical unit or quantity kind may be given or replaced, not dropped.
DiffUnit(old, new) ==
    IF old = new THEN Identical ELSE IF old # None /\ new = None THEN Breaking ELSE Backward

DiffOther(old, new) == IF old = new THEN Identical ELSE Breaking

DiffContractBlock(old, new) ==
    Worst({DiffAdditive(old.uses, new.uses), DiffCodes(old.codes, new.codes),
           DiffOther(old.rest, new.rest)})

DiffFieldBlock(old, new) ==
    Worst({DiffUnit(old.unit, new.unit), DiffAdditive(old.uses, new.uses),
           DiffOther(old.target, new.target), DiffOther(old.rest, new.rest)})

\* classify_semantic_metadata_change
ClassifySemantic(old, new) ==
    LET removed == DOMAIN old.fields \ DOMAIN new.fields
        added == DOMAIN new.fields \ DOMAIN old.fields
        kept == DOMAIN old.fields \cap DOMAIN new.fields
    IN Worst({DiffContractBlock(old.contract, new.contract)}
             \cup {Breaking : s \in removed} \cup {Backward : s \in added}
             \cup {DiffFieldBlock(old.fields[s], new.fields[s]) : s \in kept})

-------------------------------------------------------------------------------
(* The version-bump policy.                                                *)

Before(v, w) ==
    \/ v[1] < w[1]
    \/ v[1] = w[1] /\ v[2] < w[2]
    \/ v[1] = w[1] /\ v[2] = w[2] /\ v[3] < w[3]

\* _parse_version: a missing version counts as 0.0.0.
Parsed(version) == IF version = None THEN <<0, 0, 0>> ELSE version

\* version_policy_errors is empty
PolicyOk(oldVersion, newVersion, class) ==
    LET old == Parsed(oldVersion)  new == Parsed(newVersion)
    IN /\ class = Identical => ~Before(new, old)
       /\ class = Backward => new[1] > old[1] \/ (new[1] = old[1] /\ new[2] > old[2])
       /\ class = Breaking => new[1] > old[1]

SchemaStepOk(prev, next) ==
    PolicyOk(prev.ver, next.ver, ClassifyChange(prev.fields, next.fields))

SemanticStepOk(prev, next) ==
    prev.map # None /\ next.map # None =>
        PolicyOk(prev.map.ver, next.map.ver, ClassifySemantic(prev.map, next.map))

\* A history check that forgets the mappings.
HistoryOkSchema(history) ==
    \A i \in 1 .. Len(history) - 1 : SchemaStepOk(history[i], history[i + 1])

\* _pairwise_history_errors is empty: every adjacent pair of the history.
HistoryOk(history) ==
    \A i \in 1 .. Len(history) - 1 :
        SchemaStepOk(history[i], history[i + 1]) /\ SemanticStepOk(history[i], history[i + 1])

\* _semantic_drift_errors is empty: with mappings on both sides the change
\* must be identical, whatever the version says; with one missing there is
\* nothing to compare, and no hash either.
SemanticReviewed(latest, current) ==
    latest.map # None /\ current.map # None =>
        SemanticStepOk(latest, current) /\ ClassifySemantic(latest.map, current.map) = Identical

\* The guard on the stored fingerprint; both hashes must be there to differ.
StoredAgrees(hash, doc) == hash = None \/ doc.map = None \/ hash = doc.map

\* The errors check_evolution reports for one contract are none.
ContractOk(c) ==
    /\ baseline[c] # NoBaseline /\ baseline[c] # <<>>
    /\ SchemaStepOk(Last(baseline[c]), docs[c])
    /\ SemanticReviewed(Last(baseline[c]), docs[c])
    /\ HistoryOk(baseline[c])
    /\ StoredAgrees(stored[c], docs[c])

\* check_evolution: every contract, and no baseline without a contract.
CheckEvolution ==
    /\ \A c \in Registered : ContractOk(c)
    /\ \A c \in Keys : baseline[c] # NoBaseline => c \in Registered

-------------------------------------------------------------------------------
(* Actions.                                                                *)

\* An author writes a contract document.
Edit(c) ==
    /\ \E d \in Docs[c] : d # docs[c] /\ docs' = [docs EXCEPT ![c] = d]
    /\ UNCHANGED <<packs, stored, baseline>>

\* A distribution with a domain pack is installed or removed.
Install(p) ==
    /\ p \notin ToSet(packs)
    /\ packs' = Append(packs, p)
    /\ UNCHANGED <<docs, stored, baseline>>

Uninstall(p) ==
    /\ \E i \in DOMAIN packs : packs[i] = p /\ packs' = RemoveAt(packs, i)
    /\ UNCHANGED <<docs, stored, baseline>>

\* A merge that replaces the latest reviewed snapshot.
MergeHistoryReplaces(existing, snapshot) ==
    IF existing = NoBaseline \/ existing = <<>> THEN <<snapshot>>
    ELSE Append(Front(existing), snapshot)

\* _merge_history: a snapshot equal to the latest is not recorded again.
MergeHistory(existing, snapshot) ==
    LET history == IF existing = NoBaseline THEN <<>> ELSE existing
    IN IF history # <<>> /\ Last(history) = snapshot THEN history
       ELSE Append(history, snapshot)

Frozen(c) == MergeHistory(baseline[c], docs[c])

\* freeze_baselines: every registered contract gets its snapshot, then the
\* baselines without a contract are removed.
Freeze ==
    /\ \A c \in Registered : Len(Frozen(c)) <= MaxHistory
    /\ baseline' = [c \in Keys |-> IF c \in Registered THEN Frozen(c) ELSE NoBaseline]
    /\ UNCHANGED <<docs, packs, stored>>

\* The command stops between two files: the contracts of done have their
\* snapshot, nothing is removed.
FreezeCut(done) ==
    /\ \A c \in done : Len(Frozen(c)) <= MaxHistory
    /\ baseline' = [c \in Keys |-> IF c \in done THEN Frozen(c) ELSE baseline[c]]
    /\ UNCHANGED <<docs, packs, stored>>

\* validate_suite: what can be wrong besides a changed fingerprint.
ProfilesOk ==
    \A r \in ProfileRefs : ResolvePlain(Index, docs, r[1], None, r[2]) # Unresolved

Drifted(c) == ~StoredAgrees(stored[c], docs[c])

SuiteOk ==
    /\ \A c \in Registered : BindingsDeclared(docs[c]) /\ ~Drifted(c)
    /\ ProfilesOk /\ ModelCovered(Index, docs)
    /\ RegistryErrors(Index, docs) = {}

\* only_drift_errors of run_contracts_validate; it does not look at the
\* registry errors.
OnlyDriftErrors ==
    /\ ProfilesOk /\ ModelCovered(Index, docs)
    /\ \E c \in Registered : Drifted(c)
    /\ \A c \in Registered : BindingsDeclared(docs[c])

\* validate --write: persist_fingerprints stores the hash of every contract
\* registry.yaml has; the ones a pack brought are left out.
ValidateWrite ==
    /\ SuiteOk \/ OnlyDriftErrors
    /\ stored' = [c \in Keys |-> IF c \in DOMAIN FileIndex.contracts THEN docs[c].map
                                 ELSE stored[c]]
    /\ UNCHANGED <<docs, packs, baseline>>

EvolutionInit ==
    /\ docs \in [Keys -> UNION {Docs[c] : c \in Keys}]
    /\ \A c \in Keys : docs[c] \in Docs[c]
    /\ packs = <<>>
    /\ stored = [c \in Keys |-> None]
    /\ baseline = [c \in Keys |-> NoBaseline]

EvolutionNext ==
    \/ \E c \in Keys : Edit(c)
    \/ \E p \in Packs : Install(p) \/ Uninstall(p)
    \/ Freeze
    \/ \E done \in SUBSET Registered : FreezeCut(done)
    \/ ValidateWrite

EvolutionSpec == EvolutionInit /\ [][EvolutionNext]_evolutionVars

-------------------------------------------------------------------------------
(* Properties.                                                             *)

Mapped(history, i, j) == \A k \in i .. j : history[k].map # None

\* A consumer any number of reviewed versions behind has an upgrade path: when
\* the check accepts a contract, the policy holds between every reviewed
\* snapshot and every later one, not only between neighbours, for the schema
\* and for the mapping as long as there was one all along
\* (_pairwise_history_errors, check_evolution).
ReviewedPathsCompatible ==
    \A c \in Keys :
        ContractOk(c) =>
            LET path == Append(baseline[c], docs[c])
            IN \A i, j \in 1 .. Len(path) :
                  i < j => /\ SchemaStepOk(path[i], path[j])
                           /\ Mapped(path, i, j) => SemanticStepOk(path[i], path[j])

PolicyBroken(c) ==
    /\ baseline[c] # NoBaseline /\ baseline[c] # <<>>
    /\ \/ ~HistoryOk(baseline[c])
       \/ ~SchemaStepOk(Last(baseline[c]), docs[c])
       \/ ~SemanticStepOk(Last(baseline[c]), docs[c])

\* Recording a baseline is no way round the policy: a contract whose change
\* lacks its version bump is still refused after freeze_baselines, whether
\* the command finished or stopped half-way.
FreezeCannotLaunder ==
    [][\A c \in Keys :
         PolicyBroken(c) /\ baseline'[c] # baseline[c] /\ baseline'[c] # NoBaseline
            => ~ContractOk(c)']_evolutionVars

\* Other contracts that are called id in their domain, whatever they publish as.
Namesakes(k, id) ==
    {j \in Registered \ {k} : <<Index.contracts[j].domain, Index.contracts[j].local>> = id}

\* Whatever packs are installed, in an index the validation finds no fault with
\* the reference of a domain contract and its local id within its domain, with
\* its version or without, lead to that contract and never to another; they are
\* refused only where another contract of the domain is called so, and there
\* they are (resolve_contract_id).  The validation compares the artifact ids of
\* the contracts, not what the contracts are called: it lets those clashes pass.
RefsResolve ==
    RegistryErrors(Index, docs) = {} =>
        \A k \in Registered :
            LET e == Index.contracts[k]
                art == Artifact(e, docs[k])
                Found(id) == IF Namesakes(k, id) = {} THEN k ELSE Unresolved
            IN e.domain # None =>
                \A version \in {None, art.version} :
                    /\ ResolveQualified(Index, docs, art.id, version) = Found(art.id)
                    /\ ResolvePlain(Index, docs, e.local, version, e.domain) = Found(<<e.domain, e.local>>)

\* Whatever packs bring their profiles, and in whichever order the domains of a
\* snapshot are given, the composite enforces what one of its profiles enforces,
\* keeps to the most cautious weather limits, and does not depend on how the
\* fold over the profiles is bracketed (composite_profile).
Selections ==
    {s \in UNION {[1 .. n -> Index.profiles] : n \in 1 .. Cardinality(Index.profiles)} :
        \A i, j \in DOMAIN s : s[i] = s[j] => i = j}
CompositeCautious ==
    \A sel \in Selections :
        LET parts == [i \in DOMAIN sel |-> ProfileDocs[sel[i]]]
            whole == CompositeProfile(parts)
        IN /\ Enforced(whole) = UNION {Enforced(parts[i]) : i \in DOMAIN parts}
           /\ \A i \in DOMAIN parts : AsCautious(whole, parts[i])
           /\ Len(parts) = 3 => Associates(parts[1], parts[2], parts[3])

===============================================================================
