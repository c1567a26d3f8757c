----------------------------- MODULE DirCollate -----------------------------
(***************************************************************************)
(* The vote collator of src/or/dircollate.c.  A collator is created for    *)
(* n_votes of n_authorities votes, each vote is added once, and collate   *)
(* picks the relays of the consensus, either by RSA identity alone or by  *)
(* (Ed25519, RSA) pair first and RSA identity second.                     *)
(*                                                                         *)
(* A vote is a parsed document whose routerstatus rows outlive the        *)
(* collator: dirvote.c collates the same votes more than once, so the     *)
(* row flag ed25519_reflects_consensus is state of the document, not of   *)
(* the collator.  A row is named by its document and its RSA digest (a    *)
(* well-formed vote lists an RSA identity at most once).  Digests are     *)
(* numbers, ordered as smartlist_sort_digests orders them.                *)
(***************************************************************************)
EXTENDS Integers, FiniteSets, Sequences, SequencesExt

CONSTANTS
    Docs,          \* the parsed votes
    Rsa,           \* RSA SHA1 digests, a set of numbers
    Ed,            \* Ed25519 identity keys
    Unlisted,      \* the vote has no row for this RSA digest
    NoEd,          \* the row has no Ed25519 listing
    NULL,          \* an empty slot of a vrs_lst array
    NoList,        \* no entry for this key in a digest map
    Authorities,   \* values of n_authorities the caller may pass
    Methods,       \* consensus methods the caller may collate with
    MinMethodEd    \* MIN_METHOD_FOR_ED25519_ID_VOTING

ASSUME Rsa \subseteq Nat /\ Authorities \subseteq Nat \ {0}

MaxVotes == Cardinality(Docs)
VoteIdx  == 0 .. MaxVotes - 1
RowRef   == Docs \X Rsa
\* A vrs_lst array of n_votes slots (the array of by_rsa_sha1, or the
\* flexible member of a ddmap_entry_t); slots at n_votes and above stay NULL.
VrsList  == [VoteIdx -> RowRef \cup {NULL}]
\* spider_calloc(n_votes) or ddmap_entry_new(n_votes): every slot NULL.
EmptyList == [i \in VoteIdx |-> NULL]
Listing  == [Rsa -> Ed \cup {NoEd, Unlisted}]
\* The key of by_both_ids: ddmap_entry_set_digests concatenates the RSA
\* digest and the Ed25519 key, and ddmap_entry_eq compares all of it, so
\* an entry is found exactly by the pair (the siphash is abstracted).
Pairs    == Rsa \X Ed

VARIABLES
    docs,                  \* Docs -> Listing: the rows of every vote
    reflects,              \* Docs -> Rsa -> ed25519_reflects_consensus
    live,                  \* a collator has been created and not freed
    n_votes, n_authorities, next_vote_num, is_collated,
    by_rsa_sha1,           \* Rsa -> VrsList or NoList
    by_both_ids,           \* Pairs -> VrsList or NoList
    all_rsa_sha1_lst,      \* sequence of digests
    by_collated_rsa_sha1,  \* Rsa -> VrsList or NoList
    failed,                \* a spider_assert inside the collator fired
    added,                 \* history: the document added as each vote number
    method                 \* history: the method of the last collate

vars == <<docs, reflects, live, n_votes, n_authorities, next_vote_num,
          is_collated, by_rsa_sha1, by_both_ids, all_rsa_sha1_lst,
          by_collated_rsa_sha1, failed, added, method>>

Listed(d) == {r \in Rsa : docs[d][r] # Unlisted}
\* vrs->has_ed25519_listing of a row
HasEd(row) == docs[row[1]][row[2]] \in Ed

\* The collator fields dircollaspider_new zeroes and dircollaspider_free
\* releases.
Fresh ==
    /\ next_vote_num' = 0
    /\ is_collated' = FALSE
    /\ by_rsa_sha1' = [r \in Rsa |-> NoList]
    /\ by_both_ids' = [p \in Pairs |-> NoList]
    /\ all_rsa_sha1_lst' = <<>>
    /\ by_collated_rsa_sha1' = [r \in Rsa |-> NoList]
    /\ added' = <<>>

Init ==
    /\ docs \in [Docs -> Listing]
    /\ reflects = [d \in Docs |-> [r \in Rsa |-> FALSE]]
    /\ live = FALSE
    /\ n_votes = 0 /\ n_authorities = 0 /\ next_vote_num = 0
    /\ is_collated = FALSE
    /\ by_rsa_sha1 = [r \in Rsa |-> NoList]
    /\ by_both_ids = [p \in Pairs |-> NoList]
    /\ all_rsa_sha1_lst = <<>>
    /\ by_collated_rsa_sha1 = [r \in Rsa |-> NoList]
    /\ failed = FALSE
    /\ added = <<>>
    /\ method = 0

dircollaspider_new(nv, na) ==
    /\ ~live
    /\ nv <= na
    /\ live' = TRUE
    /\ n_votes' = nv /\ n_authorities' = na
    /\ Fresh
    /\ UNCHANGED <<docs, reflects, failed, method>>

dircollaspider_free ==
    /\ live
    /\ live' = FALSE
    /\ Fresh
    /\ UNCHANGED <<docs, reflects, n_votes, n_authorities, failed, method>>

\* digestmap_get, then spider_calloc/ddmap_entry_new when absent, then the
\* store into slot vn.
Extend(lst, vn, row) ==
    [(IF lst = NoList THEN EmptyList ELSE lst) EXCEPT ![vn] = row]
Occupied(lst, vn) == lst # NoList /\ lst[vn] # NULL

\* dircollaspider_add_vote with dircollaspider_add_routerstatus for every
\* row of the vote.  The rows have distinct RSA digests, so they touch
\* distinct slots and the loop order does not matter.
\* The spider_asserts of add_vote (lines 192-193), the caller's duty.
CanAddVoteUnbounded == live /\ ~is_collated
CanAddVote == live /\ next_vote_num < n_votes /\ ~is_collated

\* Line 108: the rows of the vote lose the flag an earlier collation set.
KeepReflects(d) == reflects
ClearReflects(d) ==
    [reflects EXCEPT ![d] = [r \in Rsa |-> IF r \in Listed(d) THEN FALSE
                                           ELSE reflects[d][r]]]

dircollaspider_add_vote(d) ==
    /\ CanAddVote
    /\ d \notin Range(added)
    /\ LET vn == next_vote_num
           EdPair(p) == p[1] \in Listed(d) /\ docs[d][p[1]] = p[2]
       IN /\ next_vote_num' = vn + 1
          /\ reflects' = ClearReflects(d)
          /\ by_rsa_sha1' = [r \in Rsa |->
                 IF r \in Listed(d) THEN Extend(by_rsa_sha1[r], vn, <<d, r>>)
                 ELSE by_rsa_sha1[r]]
          /\ by_both_ids' = [p \in Pairs |->
                 IF EdPair(p) THEN Extend(by_both_ids[p], vn, <<d, p[1]>>)
                 ELSE by_both_ids[p]]
          /\ failed' = \/ failed
                       \/ \E r \in Listed(d) : Occupied(by_rsa_sha1[r], vn)
                       \/ \E p \in Pairs : EdPair(p) /\ Occupied(by_both_ids[p], vn)
          /\ added' = Append(added, d)
    /\ UNCHANGED <<docs, live, n_votes, n_authorities, is_collated,
                   all_rsa_sha1_lst, by_collated_rsa_sha1, method>>

Count(lst) == Cardinality({i \in VoteIdx : lst[i] # NULL})
\* n > total_authorities / 2, with C's integer division
Majority(lst) == lst # NoList /\ Count(lst) > n_authorities \div 2

\* A digest sequence built from a set, in hash-table order; the sort at
\* line 216 makes the order irrelevant.
DigestsOf(S) == SetToSeq(S)

\* dircollaspider_collate_by_rsa: the unsorted list and the map it leaves.
CollateByRsa ==
    [lst |-> DigestsOf({r \in Rsa : Majority(by_rsa_sha1[r])}),
     collated |-> by_rsa_sha1, both |-> by_both_ids,
     reflects |-> reflects, failed |-> failed]

\* dircollaspider_collate_by_ed25519.  Pairs with a majority are handled
\* first: their rows are flagged and voters that listed the RSA key with
\* no Ed25519 key are merged in.  Then RSA digests not yet seen are
\* taken on their own count.  Accepted pairs of one digest overwrite each
\* other in rsa_digests in hash order, so every pick is an outcome.
CollateByEd25519 ==
    LET acc == {p \in Pairs : Majority(by_both_ids[p])}
        lst2(p) == by_rsa_sha1[p[1]]
        Merged(p) == [i \in VoteIdx |->
            IF by_both_ids[p][i] # NULL THEN by_both_ids[p][i]
            ELSE IF lst2(p) # NoList /\ lst2(p)[i] # NULL /\ ~HasEd(lst2(p)[i])
                 THEN lst2(p)[i] ELSE NULL]
        seen == {p[1] : p \in acc}
        rest == {r \in Rsa \ seen : Majority(by_rsa_sha1[r])}
        flagged == {by_both_ids[p][i] : p \in acc, i \in VoteIdx} \ {NULL}
        accSeq == DigestsOf(acc)
    IN {[lst |-> [i \in 1..Len(accSeq) |-> accSeq[i][1]] \o DigestsOf(rest),
         collated |-> [r \in Rsa |-> IF r \in seen THEN Merged(pick[r])
                                     ELSE IF r \in rest THEN by_rsa_sha1[r]
                                     ELSE NoList],
         both |-> [p \in Pairs |-> IF p \in acc THEN Merged(p)
                                   ELSE by_both_ids[p]],
         reflects |-> [d \in Docs |-> [r \in Rsa |->
                          reflects[d][r] \/ <<d, r>> \in flagged]],
         failed |-> failed \/ \E p \in acc : lst2(p) = NoList]
        : pick \in {f \in [seen -> acc] : \A r \in seen : f[r][1] = r}}

dircollaspider_collate(m) ==
    /\ live /\ ~is_collated
    /\ \E o \in IF m < MinMethodEd THEN {CollateByRsa} ELSE CollateByEd25519 :
          /\ all_rsa_sha1_lst' = SortSeq(o.lst, <)
          /\ by_collated_rsa_sha1' = o.collated
          /\ by_both_ids' = o.both
          /\ reflects' = o.reflects
          /\ failed' = o.failed
    /\ is_collated' = TRUE
    /\ method' = m
    /\ UNCHANGED <<docs, live, n_votes, n_authorities, next_vote_num,
                   by_rsa_sha1, added>>

\* dircollaspider_n_routers and dircollaspider_get_votes_for_router
dircollaspider_n_routers == Len(all_rsa_sha1_lst)
dircollaspider_get_votes_for_router(idx) ==
    by_collated_rsa_sha1[all_rsa_sha1_lst[idx + 1]]

Next ==
    \/ \E nv \in 1..MaxVotes, na \in Authorities : dircollaspider_new(nv, na)
    \/ \E d \in Docs : dircollaspider_add_vote(d)
    \/ \E m \in Methods : dircollaspider_collate(m)
    \/ dircollaspider_free

Spec == Init /\ [][Next]_vars


-----------------------------------------------------------------------------
TypeOK ==
    /\ docs \in [Docs -> Listing]
    /\ reflects \in [Docs -> [Rsa -> BOOLEAN]]
    /\ live \in BOOLEAN /\ is_collated \in BOOLEAN /\ failed \in BOOLEAN
    /\ next_vote_num \in 0..n_votes
    /\ by_rsa_sha1 \in [Rsa -> VrsList \cup {NoList}]
    /\ by_both_ids \in [Pairs -> VrsList \cup {NoList}]
    /\ by_collated_rsa_sha1 \in [Rsa -> VrsList \cup {NoList}]
    /\ all_rsa_sha1_lst \in Seq(Rsa)
    /\ added \in Seq(Docs)

(* The collation rule of the specification (section 4.10), computed from *)
(* the added votes directly, not from the collator's indexes.            *)
Voters(r, vals) == {i \in 1..Len(added) : docs[added[i]][r] \in vals}
HasMajority(S) == Cardinality(S) > n_authorities \div 2
ConsensusEd(r) == {e \in Ed : HasMajority(Voters(r, {e}))}
RefAccepted(m) ==
    IF m < MinMethodEd THEN {r \in Rsa : HasMajority(Voters(r, Ed \cup {NoEd}))}
    ELSE {r \in Rsa : ConsensusEd(r) # {}}
         \cup {r \in Rsa : ConsensusEd(r) = {}
                           /\ HasMajority(Voters(r, Ed \cup {NoEd}))}
\* The row of voter i for relay r that the consensus sees.
RefRow(m, r) == [i \in VoteIdx |->
    IF i + 1 \in (IF m >= MinMethodEd /\ ConsensusEd(r) # {}
                  THEN Voters(r, ConsensusEd(r) \cup {NoEd})
                  ELSE Voters(r, Ed \cup {NoEd}))
    THEN <<added[i + 1], r>> ELSE NULL]
RefReflects(m, d, r) ==
    m >= MinMethodEd /\ docs[d][r] \in ConsensusEd(r)

\* After collate, the collator lists exactly the relays the rule accepts,
\* each once and sorted by digest.  get_votes_for_router returns for each
\* the rows the rule assigns to it.  The ed25519_reflects_consensus flag
\* of every added row says whether the row's Ed25519 key is the one the
\* consensus accepted.  This is about the two collation passes, the merge
\* of RSA-only rows into pair entries, and the flag reset of add_vote, on
\* documents that earlier collators flagged.
CollationMatchesReference ==
    is_collated =>
        /\ all_rsa_sha1_lst = SetToSortSeq(RefAccepted(method), <)
        /\ \A idx \in 0..dircollaspider_n_routers - 1 :
              dircollaspider_get_votes_for_router(idx)
                  = RefRow(method, all_rsa_sha1_lst[idx + 1])
        /\ \A d \in Range(added), r \in Rsa :
              r \in Listed(d) => reflects[d][r] = RefReflects(method, d, r)

=============================================================================
