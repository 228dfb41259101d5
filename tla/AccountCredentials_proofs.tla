--------------------- MODULE AccountCredentials_proofs ----------------------
(*************************************************************************)
(* Proofs about the credentials of an account that several processes     *)
(* exchange and save, for any number of processes, threads and exchanges *)
(* and without the bounds of the runs.                                   *)
(*************************************************************************)
EXTENDS AccountCredentials, FiniteSetTheorems, TLAPS

\* What a process may be saving, and where a caller of the refresh may be.
SaveKinds == {"none", "refresh", "terminal", "result", "delete"}
SaveType == [kind : SaveKinds, by : RefreshThreads \cup {"none"}, expect : Tokens \cup {-1},
             tries : 0..(SaveAttempts - 1), sources : SUBSET Tokens]
CallerPcs == {"idle", "keyed", "waiting", "exchange", "answered", "refused", "terminal",
              "saving", "closing"}
CallerType == [pc : CallerPcs, key : Tokens, new : Tokens, owner : BOOLEAN]
FlightStates == {"none", "open", "refused", "done"}

CredTypes ==
  /\ CredTypeOK
  /\ upToDate \subseteq PoolProcesses
  /\ saving \in [PoolProcesses -> SaveType]
  /\ caller \in [RefreshThreads -> CallerType]
  /\ holder \in [PoolProcesses -> Tokens \cup {-1}]
  /\ credited \in Nat /\ mishap \in BOOLEAN

\* A thread saves what its exchange answered.
Storing(t) == caller[t].pc = "saving" /\ saving[ProcessOf[t]].kind = "refresh"
\* It has new tokens that are not stored.
InHand(t) == caller[t].pc = "answered" \/ Storing(t)

\* What a process is about to save is its view, and differs from the row it knows
\* as the operation says.
SaveHolds(p) ==
  LET save == saving[p] IN
  /\ save.kind = "none" => save = NotSaving /\ view[p] = base[p]
  /\ save.kind \in {"result", "delete"} => save.by = "none" /\ save.expect = -1 /\ save.sources = {}
  /\ save.kind \in {"refresh", "terminal"} =>
       /\ save.by \in RefreshThreads /\ ProcessOf[save.by] = p
       /\ caller[save.by].pc = "saving" /\ caller[save.by].key = save.expect
       /\ Exists(view[p]) => Exists(base[p]) /\ base[p].token = save.expect
  /\ save.kind = "refresh" =>
       /\ Exists(view[p]) /\ caller[save.by].owner /\ view[p].token = caller[save.by].new
       /\ save.sources = {s \in Tokens : s = save.expect \/ aliases[p][s] = save.expect}
       /\ aliases[p][save.expect] = save.expect
  /\ save.kind = "terminal" => save.sources = {}
  /\ save.kind = "delete" => view[p] = NoAccount
  /\ save.kind # "refresh" /\ Exists(view[p]) => view[p].token = base[p].token
  /\ save.kind # "delete" => (Exists(view[p]) <=> Exists(base[p]))
  /\ Exists(view[p]) =>
       /\ Exists(base[p])
       /\ view[p].success = IF save.kind = "result" THEN base[p].success + 1 ELSE base[p].success
SavesHold == \A p \in PoolProcesses : SaveHolds(p)

\* A process that has reloaded knows the row, and the row is deleted for good.
BasesAreRows ==
  /\ \A p \in upToDate : base[p] = accountRow
  /\ \A p \in PoolProcesses : Exists(accountRow) => Exists(base[p])

\* A flight is open in a process while its one owner exchanges the token, and
\* there is none without an owner; the others wait for it (_TokenRefreshFlight).
OwnerPcs == {"exchange", "answered", "refused", "closing"}
FlightsHaveOwners ==
  /\ \A t \in RefreshThreads :
       /\ caller[t].pc \in OwnerPcs => caller[t].owner
       /\ caller[t].pc \in {"idle", "keyed", "waiting"} => ~caller[t].owner
       /\ caller[t].owner => flights[ProcessOf[t]][caller[t].key] # "none"
       /\ caller[t].pc \in {"exchange", "answered", "refused"} =>
            flights[ProcessOf[t]][caller[t].key] = "open"
       /\ caller[t].owner /\ caller[t].pc \in {"closing", "terminal"} =>
            flights[ProcessOf[t]][caller[t].key] # "open"
       /\ caller[t].pc = "saving" =>
            /\ saving[ProcessOf[t]].kind \in {"refresh", "terminal"}
            /\ saving[ProcessOf[t]].by = t
            /\ caller[t].owner /\ saving[ProcessOf[t]].kind = "terminal" =>
                 flights[ProcessOf[t]][caller[t].key] # "open"
  /\ \A t, u \in RefreshThreads :
       /\ caller[t].owner /\ caller[u].owner /\ ProcessOf[t] = ProcessOf[u]
       /\ caller[t].key = caller[u].key
       => t = u
  /\ \A p \in PoolProcesses, k \in Tokens : flights[p][k] # "none" =>
       \E u \in RefreshThreads :
         caller[u].owner /\ ProcessOf[u] = p /\ caller[u].key = k

\* A token is called refused only where the exchange refused it.
RefusalsAreKnown ==
  /\ \A t \in RefreshThreads :
       caller[t].pc \in {"refused", "terminal"} => caller[t].key \in refused
  /\ \A p \in PoolProcesses : \A k \in Tokens : flights[p][k] = "refused" => k \in refused
  /\ \A p \in PoolProcesses : saving[p].kind = "terminal" => saving[p].expect \in refused

\* Tokens of the row only grow ...
TokensGrow ==
  /\ accountRow.token <= liveToken
  /\ \A p \in PoolProcesses :
       /\ base[p].token <= liveToken
       /\ Exists(accountRow) => base[p].token <= accountRow.token
  /\ \A t \in RefreshThreads :
       /\ caller[t].key <= liveToken
       /\ Exists(accountRow) => caller[t].key <= accountRow.token
       /\ Exists(base[ProcessOf[t]]) => caller[t].key <= base[ProcessOf[t]].token
       /\ InHand(t) => caller[t].new = caller[t].key + 1 /\ caller[t].new <= liveToken
\* ... and a token in hand is nowhere else
NewTokensAreNew ==
  \A t \in RefreshThreads : InHand(t) =>
    /\ accountRow.token # caller[t].new
    /\ \A p \in PoolProcesses : base[p].token # caller[t].new
    /\ \A u \in RefreshThreads \ {t} :
         /\ InHand(u) => caller[u].key # caller[t].key
    /\ \A u \in RefreshThreads : caller[u].key # caller[t].new

\* An alias stands for a token that has none of its own, and never for one that
\* is in the row or about to be.
AliasesEnd ==
  \A p \in PoolProcesses :
    /\ Exists(view[p]) => aliases[p][view[p].token] = view[p].token
    /\ \A s \in Tokens :
         /\ aliases[p][aliases[p][s]] = aliases[p][s]
         /\ aliases[p][s] # s =>
              /\ s <= liveToken
              /\ s # accountRow.token
              /\ \A t \in RefreshThreads : InHand(t) => s # caller[t].new

\* Without a mishap the newest tokens are in the row or in one hand.
NewestIsStored ==
  Exists(accountRow) /\ ~mishap =>
    /\ \A t \in RefreshThreads : InHand(t) =>
         /\ caller[t].key = accountRow.token /\ liveToken = accountRow.token + 1
    /\ (\A t \in RefreshThreads : ~InHand(t)) => accountRow.token = liveToken

\* What has one of these tokens as its alias.
StandingFor(p, roots) == {s \in Tokens : s \in roots \/ aliases[p][s] \in roots}

\* A slot in use is counted under the token of the process's view, and while a
\* refresh is being saved still under the one before it.
SlotOf(p) == IF saving[p].kind = "refresh" THEN saving[p].expect ELSE view[p].token
SlotHeld(p) ==
  /\ inflight[p] = [s \in Tokens |-> IF s = SlotOf(p) /\ holder[p] # -1 THEN 1 ELSE 0]
  /\ holder[p] # -1 =>
       IF saving[p].kind = "refresh" THEN holder[p] \in saving[p].sources
       ELSE Alias(p, holder[p]) = view[p].token
SlotsFollow ==
  ~mishap => \A p \in PoolProcesses :
     Exists(view[p]) => SlotHeld(p)

\* The inductive invariant of the credentials.
CredInv ==
  /\ CredTypes /\ SavesHold /\ BasesAreRows /\ FlightsHaveOwners /\ RefusalsAreKnown
  /\ TokensGrow /\ NewTokensAreNew /\ AliasesEnd /\ NewestIsStored /\ SlotsFollow
  /\ ResultsAreKept

\* The bounds are numbers.
LEMMA CredBounds ==
  /\ MaxToken \in Nat /\ MaxResults \in Nat /\ SaveAttempts \in Nat \ {0}
  /\ ProcessOf \in [RefreshThreads -> PoolProcesses] /\ "none" \notin RefreshThreads
BY CredentialAssumption

\* A row is an account or none.
LEMMA RowFacts ==
  ASSUME NEW a \in Account \cup {NoAccount}
  PROVE  /\ a.token \in Tokens \cup {-1} /\ a.token \in Int
         /\ a.success \in Nat /\ a.dead \in BOOLEAN
         /\ Exists(a) <=> a.token \in Tokens
         /\ Exists(a) <=> a \in Account
         /\ ~Exists(a) <=> a = NoAccount
         /\ ~Exists(a) <=> a.token = -1
<1>1. Tokens \subseteq Nat  BY CredBounds DEF Tokens
<1>2. CASE a = NoAccount
  <2>1. a.token = -1 /\ a.success = 0 /\ a.dead = FALSE  BY <1>2 DEF NoAccount
  <2>2. a \notin Account /\ a.token \notin Tokens  BY <1>1, <2>1 DEF Account
  <2>3. a.dead \in BOOLEAN  BY <2>1, Zenon
  <2>4. a.token \in Tokens \cup {-1} /\ a.token \in Int /\ a.success \in Nat  BY <2>1
  <2>5. ~Exists(a)  BY <2>1 DEF Exists
  <2> QED  BY <1>2, <2>1, <2>2, <2>3, <2>4, <2>5
<1>3. CASE a \in Account
  <2>1. a.token \in Tokens /\ a.success \in Nat /\ a.dead \in BOOLEAN
    BY <1>3 DEF Account
  <2>2. a.token # -1  BY <1>1, <2>1
  <2>3. a # NoAccount  BY <2>2 DEF NoAccount
  <2>4. Exists(a)  BY <2>2 DEF Exists
  <2>5. a.token \in Tokens \cup {-1} /\ a.token \in Int
    BY <2>1, CredBounds DEF Tokens
  <2> QED  BY <1>3, <2>1, <2>2, <2>3, <2>4, <2>5
<1> QED  BY <1>2, <1>3

\* Where aliases end after one step, a token stands for its alias.
LEMMA Resolved ==
  ASSUME CredTypes, AliasesEnd, NEW p \in PoolProcesses, NEW token \in Tokens
  PROVE  /\ Resolve(p, token) = Alias(p, token)
         /\ Alias(p, token) \in Tokens
         /\ Alias(p, Alias(p, token)) = Alias(p, token)
<1>1. \A s \in Tokens : Alias(p, s) \in Tokens /\ Alias(p, Alias(p, s)) = Alias(p, s)
  BY DEF CredTypes, CredTypeOK, AliasesEnd, Alias
<1>2. Passed(p, token) = {token, Alias(p, token)}
  <2>1. ASSUME NEW seen \in SUBSET Tokens, token \in seen, \A s \in seen : Alias(p, s) \in seen
        PROVE  {token, Alias(p, token)} \subseteq seen
    BY <2>1
  <2>2. {token, Alias(p, token)} \in SUBSET Tokens  BY <1>1
  <2>3. \A s \in {token, Alias(p, token)} : Alias(p, s) \in {token, Alias(p, token)}
    BY <1>1
  <2> QED  BY <2>1, <2>2, <2>3 DEF Passed
<1>3. \A t \in Passed(p, token) : Alias(p, t) = t => t = Alias(p, token)  BY <1>2
<1>4. Alias(p, token) \in Passed(p, token) /\ Alias(p, Alias(p, token)) = Alias(p, token)
  BY <1>1, <1>2
<1>5. Resolve(p, token) \in Passed(p, token) /\ Alias(p, Resolve(p, token)) = Resolve(p, token)
  BY <1>4 DEF Resolve
<1> QED  BY <1>1, <1>3, <1>5

\* What stands for the account's token is the token and what has it as alias.
LEMMA SourcesAre ==
  ASSUME CredTypes, AliasesEnd, NEW p \in PoolProcesses, Exists(view[p])
  PROVE  Sources(p, view[p].token)
           = {s \in Tokens : s = view[p].token \/ aliases[p][s] = view[p].token}
BY Resolved DEF Sources, Alias

\* The counts that a rotation leaves are numbers.
LEMMA MovedCounts ==
  ASSUME CredTypes, NEW p \in PoolProcesses, NEW new, NEW sources \in SUBSET Tokens
  PROVE  MovedInflight(p, new, sources) \in [Tokens -> Nat]
<1>1. IsFiniteSet(sources \ {new})
  <2>1. IsFiniteSet(0..MaxToken)  BY CredBounds, FS_Interval
  <2> QED  BY <2>1, FS_Subset DEF Tokens
<1> DEFINE counted == {{k} \X (1..inflight[p][k]) : k \in sources \ {new}}
<1>2. IsFiniteSet(counted)
  <2> DEFINE f == [k \in sources \ {new} |-> {k} \X (1..inflight[p][k])]
  <2>1. f \in Surjection(sources \ {new}, counted)  BY DEF Surjection
  <2> QED  BY <1>1, <2>1, FS_Surjection
<1>3. \A k \in sources \ {new} : IsFiniteSet({k} \X (1..inflight[p][k]))
  <2> TAKE k \in sources \ {new}
  <2>1. inflight[p][k] \in Nat  BY DEF CredTypes, CredTypeOK
  <2>2. IsFiniteSet(1..inflight[p][k])  BY <2>1, FS_Interval
  <2>3. IsFiniteSet({k})  BY FS_Singleton
  <2> QED  BY <2>2, <2>3, FS_Product
<1>4. IsFiniteSet(UNION counted)  BY <1>2, <1>3, FS_UNION
<1>5. Cardinality(UNION counted) \in Nat  BY <1>4, FS_CardinalityType
<1>6. PICK n \in Nat : n = Cardinality(Slots(p, sources \ {new}))  BY <1>5 DEF Slots
<1> QED  BY <1>6 DEF MovedInflight, CredTypes, CredTypeOK

\* One slot moves with its token.
LEMMA MovedSlot ==
  ASSUME NEW p \in PoolProcesses, NEW new \in Tokens, NEW sources \in SUBSET Tokens,
         NEW slot \in sources, slot # new, NEW held \in BOOLEAN,
         inflight[p] = [s \in Tokens |-> IF s = slot /\ held THEN 1 ELSE 0]
  PROVE  MovedInflight(p, new, sources) = [s \in Tokens |-> IF s = new /\ held THEN 1 ELSE 0]
<1>1. \A k \in sources \ {new} : 1..inflight[p][k] = IF k = slot /\ held THEN {1} ELSE {}
  <2>1. 1..0 = {} /\ 1..1 = {1}  OBVIOUS
  <2> QED  BY <2>1
<1>2. Slots(p, sources \ {new}) = IF held THEN {<<slot, 1>>} ELSE {}
  <2>1. CASE held
    <3>1. \A k \in sources \ {new} : k # slot => {k} \X (1..inflight[p][k]) = {}
      BY <1>1, <2>1
    <3>2. {slot} \X (1..inflight[p][slot]) = {<<slot, 1>>}  BY <1>1, <2>1
    <3> QED  BY <2>1, <3>1, <3>2 DEF Slots
  <2>2. CASE ~held  BY <1>1, <2>2 DEF Slots
  <2> QED  BY <2>1, <2>2
<1>3. Cardinality(Slots(p, sources \ {new})) = IF held THEN 1 ELSE 0
  BY <1>2, FS_Singleton, FS_EmptySet
<1>4. inflight[p][new] = 0  OBVIOUS
<1> QED  BY <1>3, <1>4 DEF MovedInflight
\* The token c would be a key of t: it is no newer than what t's process knows,
\* and in nobody's hand.
KeyFor(t, k) ==
  /\ k \in Tokens /\ k <= liveToken
  /\ Exists(accountRow) => k <= accountRow.token
  /\ Exists(base[ProcessOf[t]]) => k <= base[ProcessOf[t]].token
  /\ \A u \in RefreshThreads : InHand(u) => k # caller[u].new

\* A thread keeps its key, has none, or takes that of its process.
LEMMA KeysFor ==
  ASSUME CredInv, NEW t \in RefreshThreads
  PROVE  /\ KeyFor(t, caller[t].key) /\ KeyFor(t, 0)
         /\ Unlocked(ProcessOf[t]) /\ Exists(view[ProcessOf[t]]) =>
              /\ KeyFor(t, view[ProcessOf[t]].token)
              /\ view[ProcessOf[t]] = base[ProcessOf[t]]
<1>1. PICK p \in PoolProcesses : p = ProcessOf[t]  BY CredBounds
<1>2. /\ view[p] \in Account \cup {NoAccount} /\ base[p] \in Account \cup {NoAccount}
      /\ accountRow \in Account \cup {NoAccount} /\ liveToken \in Tokens
      /\ caller \in [RefreshThreads -> CallerType]
  BY DEF CredInv, CredTypes, CredTypeOK
<1>3. KeyFor(t, caller[t].key)
  BY <1>2 DEF KeyFor, CredInv, TokensGrow, NewTokensAreNew, CallerType
<1>4. KeyFor(t, 0)
  <2>1. 0 \in Tokens /\ 0 <= liveToken  BY <1>2, CredBounds DEF Tokens
  <2>2. Exists(accountRow) => 0 <= accountRow.token  BY <1>2, RowFacts, CredBounds DEF Tokens
  <2>3. Exists(base[p]) => 0 <= base[p].token  BY <1>2, RowFacts, CredBounds DEF Tokens
  <2>4. ASSUME NEW u \in RefreshThreads, InHand(u)  PROVE  0 # caller[u].new
    <3>1. caller[u].key \in Nat  BY <1>2, CredBounds DEF CallerType, Tokens
    <3> QED  BY <2>4, <3>1 DEF CredInv, TokensGrow
  <2> QED  BY <1>1, <2>1, <2>2, <2>3, <2>4 DEF KeyFor
<1>5. ASSUME Unlocked(p), Exists(view[p])
      PROVE  KeyFor(t, view[p].token) /\ view[p] = base[p]
  <2>1. saving[p].kind = "none"  BY <1>5 DEF Unlocked, NotSaving
  <2>2. view[p] = base[p]  BY <2>1 DEF CredInv, SavesHold, SaveHolds
  <2>3. view[p].token \in Tokens /\ view[p].token \in Int  BY <1>2, <1>5, RowFacts
  <2> QED
    BY <1>1, <1>5, <2>2, <2>3 DEF KeyFor, CredInv, TokensGrow, NewTokensAreNew
<1> QED  BY <1>1, <1>3, <1>4, <1>5

\* A thread that neither gets nor stores tokens moves.
LEMMA CallerMoves ==
  ASSUME CredInv, NEW t \in RefreshThreads, NEW c \in CallerType,
         caller' = [caller EXCEPT ![t] = c],
         caller[t].pc # "saving", c.pc \notin {"saving", "answered"},
         caller[t].pc = "answered" => ~Exists(accountRow) \/ mishap,
         KeyFor(t, c.key),
         flights' \in [PoolProcesses -> [Tokens -> FlightStates]],
         refused \subseteq refused', refused' \subseteq Tokens,
         UNCHANGED <<accountRow, view, base, upToDate, saving, liveToken, inflight,
                     aliases, holder, credited, mishap>>
  PROVE  /\ CredTypes' /\ SavesHold' /\ BasesAreRows' /\ TokensGrow' /\ NewTokensAreNew'
         /\ AliasesEnd' /\ NewestIsStored' /\ SlotsFollow' /\ ResultsAreKept'
<1>1. /\ caller \in [RefreshThreads -> CallerType] /\ caller'[t] = c
      /\ \A u \in RefreshThreads : u # t => caller'[u] = caller[u]
      /\ caller' \in [RefreshThreads -> CallerType]
  BY DEF CredInv, CredTypes
<1>2. \A u \in RefreshThreads : InHand(u)' => u # t /\ InHand(u)
  BY <1>1 DEF InHand, Storing
<1>3. \A u \in RefreshThreads : u # t => (InHand(u)' <=> InHand(u))
  BY <1>1 DEF InHand, Storing
<1>4. CredTypes'
  BY <1>1 DEF CredInv, CredTypes, CredTypeOK, FlightStates
<1>5. SavesHold'
  <2>1. \A p \in PoolProcesses : saving[p].kind \in {"refresh", "terminal"} => saving[p].by # t
    BY DEF CredInv, SavesHold, SaveHolds
  <2> QED  BY <1>1, <2>1 DEF CredInv, SavesHold, SaveHolds
<1>6. BasesAreRows'  BY DEF CredInv, BasesAreRows
<1>7. TokensGrow'
  BY <1>1, <1>2 DEF CredInv, TokensGrow, KeyFor
<1>8. NewTokensAreNew'
  BY <1>1, <1>2 DEF CredInv, NewTokensAreNew, KeyFor
<1>9. AliasesEnd'
  BY <1>1, <1>2 DEF CredInv, AliasesEnd
<1>10. NewestIsStored'
  <2> SUFFICES ASSUME Exists(accountRow), ~mishap
               PROVE  /\ \A u \in RefreshThreads : InHand(u)' =>
                           /\ caller'[u].key = accountRow.token
                           /\ liveToken = accountRow.token + 1
                      /\ (\A u \in RefreshThreads : ~InHand(u)') => accountRow.token = liveToken
    BY DEF NewestIsStored
  <2>1. ~InHand(t)  BY DEF InHand, Storing
  <2> QED  BY <1>1, <1>2, <1>3, <2>1 DEF CredInv, NewestIsStored
<1>11. SlotsFollow' /\ ResultsAreKept'
  BY DEF CredInv, SlotsFollow, SlotHeld, SlotOf, Alias, ResultsAreKept
<1> QED  BY <1>4, <1>5, <1>6, <1>7, <1>8, <1>9, <1>10, <1>11
\* A thread that has or gets no flight of its own leaves the flights to others.
LEMMA OthersFly ==
  ASSUME CredInv, NEW t \in RefreshThreads, NEW c \in CallerType,
         caller' = [caller EXCEPT ![t] = c],
         ~caller[t].owner, ~c.owner, c.pc \in {"idle", "keyed", "waiting", "terminal"},
         caller[t].pc # "saving",
         UNCHANGED <<flights, saving>>
  PROVE  FlightsHaveOwners'
<1>1. /\ caller'[t] = c
      /\ \A u \in RefreshThreads : u # t => caller'[u] = caller[u]
  BY DEF CredInv, CredTypes
<1>2. FlightsHaveOwners  BY DEF CredInv
<1> QED  BY <1>1, <1>2 DEF FlightsHaveOwners, OwnerPcs

\* The owner of a flight goes on with it.
LEMMA OwnerFlies ==
  ASSUME CredInv, NEW t \in RefreshThreads, NEW c \in CallerType,
         caller' = [caller EXCEPT ![t] = c],
         caller[t].owner, c.owner, c.key = caller[t].key,
         c.pc \in {"answered", "refused", "closing", "terminal"},
         caller[t].pc # "saving", UNCHANGED saving,
         NEW state \in FlightStates \ {"none"},
         flights' = [flights EXCEPT ![ProcessOf[t]][c.key] = state],
         c.pc \in {"answered", "refused"} <=> state = "open"
  PROVE  FlightsHaveOwners'
<1>1. /\ caller'[t] = c
      /\ \A u \in RefreshThreads : u # t => caller'[u] = caller[u]
      /\ c.key \in Tokens
  BY DEF CredInv, CredTypes, CallerType
<1>2. PICK p \in PoolProcesses : p = ProcessOf[t]  BY CredBounds
<1>3. PICK k \in Tokens : k = c.key  BY <1>1
<1>4. /\ flights'[p][k] = state
      /\ \A q \in PoolProcesses, l \in Tokens :
           ~(q = p /\ l = k) => flights'[q][l] = flights[q][l]
  BY <1>2, <1>3 DEF CredInv, CredTypes, CredTypeOK
<1>5. FlightsHaveOwners  BY DEF CredInv
<1>6. \A u \in RefreshThreads :
        /\ ProcessOf[u] \in PoolProcesses /\ caller[u].key \in Tokens
        /\ caller'[u].owner = caller[u].owner /\ caller'[u].key = caller[u].key
  BY <1>1, CredBounds DEF CredInv, CredTypes, CallerType
<1>7. \A u \in RefreshThreads : u # t /\ caller[u].owner =>
        ~(ProcessOf[u] = p /\ caller[u].key = k)
  BY <1>2, <1>3, <1>5 DEF FlightsHaveOwners
<1>8. \A u \in RefreshThreads : u # t /\ caller[u].owner =>
        flights'[ProcessOf[u]][caller[u].key] = flights[ProcessOf[u]][caller[u].key]
  BY <1>4, <1>6, <1>7
<1>9. state # "none"  BY DEF FlightStates
<1>10. ASSUME NEW u \in RefreshThreads
       PROVE  /\ caller'[u].pc \in OwnerPcs => caller'[u].owner
              /\ caller'[u].pc \in {"idle", "keyed", "waiting"} => ~caller'[u].owner
              /\ caller'[u].owner => flights'[ProcessOf[u]][caller'[u].key] # "none"
              /\ caller'[u].pc \in {"exchange", "answered", "refused"} =>
                   flights'[ProcessOf[u]][caller'[u].key] = "open"
              /\ caller'[u].owner /\ caller'[u].pc \in {"closing", "terminal"} =>
                   flights'[ProcessOf[u]][caller'[u].key] # "open"
              /\ caller'[u].pc = "saving" =>
                   /\ saving'[ProcessOf[u]].kind \in {"refresh", "terminal"}
                   /\ saving'[ProcessOf[u]].by = u
                   /\ caller'[u].owner /\ saving'[ProcessOf[u]].kind = "terminal" =>
                        flights'[ProcessOf[u]][caller'[u].key] # "open"
  <2>1. CASE u = t
    BY <1>1, <1>2, <1>3, <1>4, <1>9, <2>1 DEF OwnerPcs
  <2>2. CASE u # t
    BY <1>1, <1>5, <1>8, <2>2 DEF FlightsHaveOwners, OwnerPcs
  <2> QED  BY <2>1, <2>2
<1>11. \A u, w \in RefreshThreads :
         /\ caller'[u].owner /\ caller'[w].owner /\ ProcessOf[u] = ProcessOf[w]
         /\ caller'[u].key = caller'[w].key
         => u = w
  BY <1>5, <1>6 DEF FlightsHaveOwners
<1>12. \A q \in PoolProcesses, l \in Tokens : flights'[q][l] # "none" =>
         \E u \in RefreshThreads :
           caller'[u].owner /\ ProcessOf[u] = q /\ caller'[u].key = l
  BY <1>1, <1>2, <1>3, <1>4, <1>5, <1>6 DEF FlightsHaveOwners
<1> QED  BY <1>10, <1>11, <1>12 DEF FlightsHaveOwners

\* What a thread knows to be refused is.
LEMMA RefusalMoves ==
  ASSUME CredInv, NEW t \in RefreshThreads, NEW c \in CallerType,
         caller' = [caller EXCEPT ![t] = c], refused \subseteq refused',
         c.pc \in {"refused", "terminal"} => c.key \in refused',
         \A p \in PoolProcesses, k \in Tokens :
           flights'[p][k] = "refused" => flights[p][k] = "refused" \/ k \in refused',
         UNCHANGED saving
  PROVE  RefusalsAreKnown'
<1>1. /\ caller'[t] = c
      /\ \A u \in RefreshThreads : u # t => caller'[u] = caller[u]
  BY DEF CredInv, CredTypes
<1> QED  BY <1>1 DEF CredInv, RefusalsAreKnown

\* What a thread's record holds.
LEMMA CallerParts ==
  ASSUME CredInv, NEW t \in RefreshThreads
  PROVE  /\ caller[t] \in CallerType /\ caller[t].key \in Tokens /\ caller[t].new \in Tokens
         /\ caller[t].owner \in BOOLEAN /\ ProcessOf[t] \in PoolProcesses
         /\ flights \in [PoolProcesses -> [Tokens -> FlightStates]]
         /\ refused \subseteq Tokens /\ liveToken \in Tokens
BY CredBounds DEF CredInv, CredTypes, CredTypeOK, CallerType, FlightStates

\* A thread looks the account up (_get_account_for_token).
LEMMA CredStartMaintain ==
  ASSUME CredInv, NEW t \in RefreshThreads, StartMaintain(t)
  PROVE  CredInv'
<1>1. PICK c : c = [IdleCaller EXCEPT !.pc = "keyed", !.key = view[ProcessOf[t]].token]
  OBVIOUS
<1>2. /\ caller' = [caller EXCEPT ![t] = c] /\ caller[t].pc = "idle"
      /\ UNCHANGED <<accountRow, view, base, upToDate, saving, flights, liveToken, refused,
                     inflight, aliases, holder, credited, mishap>>
  BY <1>1 DEF StartMaintain
<1>3. KeyFor(t, view[ProcessOf[t]].token)  BY KeysFor DEF StartMaintain
<1>4. c \in CallerType /\ c.pc = "keyed" /\ ~c.owner /\ KeyFor(t, c.key)
  <2>1. c = [pc |-> "keyed", key |-> view[ProcessOf[t]].token, new |-> 0, owner |-> FALSE]
    BY <1>1 DEF IdleCaller
  <2>2. 0 \in Tokens  BY CredBounds DEF Tokens
  <2> QED  BY <1>3, <2>1, <2>2 DEF CallerType, CallerPcs, KeyFor
<1>5. ~caller[t].owner  BY <1>2 DEF CredInv, FlightsHaveOwners
<1>6. FlightsHaveOwners'  BY <1>2, <1>4, <1>5, OthersFly
<1>7. RefusalsAreKnown'  BY <1>2, <1>4, RefusalMoves
<1> QED  BY <1>2, <1>4, <1>6, <1>7, CallerMoves, CallerParts DEF CredInv

\* A thread opens the flight of its credential, or waits for the one there is
\* (_oauth_refresh_flights).
LEMMA CredJoinFlight ==
  ASSUME CredInv, NEW t \in RefreshThreads, JoinFlight(t)
  PROVE  CredInv'
<1>1. PICK p \in PoolProcesses, k \in Tokens : p = ProcessOf[t] /\ k = caller[t].key
  BY CallerParts
<1>2. /\ caller[t].pc = "keyed" /\ ~caller[t].owner
      /\ UNCHANGED <<accountRow, view, base, upToDate, saving, liveToken, refused, inflight,
                     aliases, holder, credited, mishap>>
  BY DEF JoinFlight, CredInv, FlightsHaveOwners
<1>3. CASE NoFlightYet(p, k)
  <2>1. PICK c : c = [caller[t] EXCEPT !.pc = "exchange", !.owner = TRUE]  OBVIOUS
  <2>2. /\ c \in CallerType /\ c.pc = "exchange" /\ c.owner /\ c.key = k
        /\ caller \in [RefreshThreads -> CallerType]
    BY <1>1, <2>1, CallerParts DEF CallerType, CallerPcs, CredInv, CredTypes
  <2>3. caller' = [caller EXCEPT ![t] = c]
    BY <1>1, <1>3, <2>1, <2>2 DEF JoinFlight
  <2>4. flights' = [flights EXCEPT ![p][k] = "open"]  BY <1>1, <1>3 DEF JoinFlight
  <2>5. flights[p][k] = "none"  BY <1>3 DEF NoFlightYet
  <2>6. /\ flights'[p][k] = "open" /\ flights' \in [PoolProcesses -> [Tokens -> FlightStates]]
        /\ \A q \in PoolProcesses, l \in Tokens :
             ~(q = p /\ l = k) => flights'[q][l] = flights[q][l]
    BY <2>4, CallerParts DEF FlightStates
  <2>7. FlightsHaveOwners'
    <3>1. FlightsHaveOwners  BY DEF CredInv
    <3>2. /\ caller'[t] = c
          /\ \A u \in RefreshThreads : u # t => caller'[u] = caller[u]
      BY <2>2, <2>3
    <3>3. \A u \in RefreshThreads : ProcessOf[u] \in PoolProcesses /\ caller[u].key \in Tokens
      BY CallerParts
    <3>4. \A u \in RefreshThreads : caller[u].owner =>
            ~(ProcessOf[u] = p /\ caller[u].key = k)
      BY <2>5, <3>1 DEF FlightsHaveOwners
    <3>5. \A u \in RefreshThreads : u # t /\ caller[u].owner =>
            flights'[ProcessOf[u]][caller[u].key] = flights[ProcessOf[u]][caller[u].key]
      BY <2>6, <3>3, <3>4
    <3>6. \A q \in PoolProcesses, l \in Tokens : flights'[q][l] # "none" =>
            \E u \in RefreshThreads :
              caller'[u].owner /\ ProcessOf[u] = q /\ caller'[u].key = l
      <4> TAKE q \in PoolProcesses, l \in Tokens
      <4> HAVE flights'[q][l] # "none"
      <4>1. CASE q = p /\ l = k  BY <1>1, <2>2, <3>2, <4>1
      <4>2. CASE ~(q = p /\ l = k)
        <5>1. PICK u \in RefreshThreads :
                caller[u].owner /\ ProcessOf[u] = q /\ caller[u].key = l
          BY <2>6, <3>1, <4>2 DEF FlightsHaveOwners
        <5>2. u # t  BY <1>2, <5>1
        <5> QED  BY <3>2, <5>1, <5>2
      <4> QED  BY <4>1, <4>2
    <3>7. \A u, w \in RefreshThreads :
            /\ caller'[u].owner /\ caller'[w].owner /\ ProcessOf[u] = ProcessOf[w]
            /\ caller'[u].key = caller'[w].key
            => u = w
      BY <1>1, <2>2, <3>1, <3>2, <3>4 DEF FlightsHaveOwners
    <3>8. ASSUME NEW u \in RefreshThreads
          PROVE  /\ caller'[u].pc \in OwnerPcs => caller'[u].owner
                 /\ caller'[u].pc \in {"idle", "keyed", "waiting"} => ~caller'[u].owner
                 /\ caller'[u].owner => flights'[ProcessOf[u]][caller'[u].key] # "none"
                 /\ caller'[u].pc \in {"exchange", "answered", "refused"} =>
                      flights'[ProcessOf[u]][caller'[u].key] = "open"
                 /\ caller'[u].owner /\ caller'[u].pc \in {"closing", "terminal"} =>
                      flights'[ProcessOf[u]][caller'[u].key] # "open"
                 /\ caller'[u].pc = "saving" =>
                      /\ saving'[ProcessOf[u]].kind \in {"refresh", "terminal"}
                      /\ saving'[ProcessOf[u]].by = u
                      /\ caller'[u].owner /\ saving'[ProcessOf[u]].kind = "terminal" =>
                           flights'[ProcessOf[u]][caller'[u].key] # "open"
      <4>1. CASE u = t  BY <1>1, <2>2, <2>6, <3>2, <4>1 DEF OwnerPcs
      <4>2. CASE u # t  BY <1>2, <3>1, <3>2, <3>5, <4>2 DEF FlightsHaveOwners, OwnerPcs
      <4> QED  BY <4>1, <4>2
    <3> QED  BY <3>6, <3>7, <3>8 DEF FlightsHaveOwners
  <2>8. RefusalsAreKnown'
    BY <1>2, <2>2, <2>3, <2>6, RefusalMoves
  <2>9. KeyFor(t, c.key)  BY <1>1, <2>2, KeysFor
  <2> QED
    BY <1>2, <2>2, <2>3, <2>6, <2>7, <2>8, <2>9, CallerMoves, CallerParts DEF CredInv
<1>4. CASE ~NoFlightYet(p, k)
  <2>1. PICK c : c = [caller[t] EXCEPT !.pc = "waiting"]  OBVIOUS
  <2>2. /\ c \in CallerType /\ c.pc = "waiting" /\ ~c.owner /\ c.key = caller[t].key
        /\ caller \in [RefreshThreads -> CallerType]
    BY <1>2, <2>1, CallerParts DEF CallerType, CallerPcs, CredInv, CredTypes
  <2>3. caller' = [caller EXCEPT ![t] = c] /\ flights' = flights
    BY <1>1, <1>4, <2>1, <2>2 DEF JoinFlight
  <2>4. KeyFor(t, c.key)  BY <2>2, KeysFor
  <2>5. FlightsHaveOwners'  BY <1>2, <2>2, <2>3, OthersFly
  <2>6. RefusalsAreKnown'  BY <1>2, <2>2, <2>3, RefusalMoves
  <2> QED  BY <1>2, <2>2, <2>3, <2>4, <2>5, <2>6, CallerMoves, CallerParts DEF CredInv
<1> QED  BY <1>3, <1>4

\* An exchange ends without an answer (_request_access_token_refresh raises).
LEMMA CredExchangeFails ==
  ASSUME CredInv, NEW t \in RefreshThreads, ExchangeFails(t)
  PROVE  CredInv'
<1>1. PICK c : c = [caller[t] EXCEPT !.pc = "closing"]  OBVIOUS
<1>2. /\ caller[t].pc = "exchange" /\ caller[t].owner
      /\ flights' = [flights EXCEPT ![ProcessOf[t]][caller[t].key] = "done"]
      /\ UNCHANGED <<accountRow, view, base, upToDate, saving, liveToken, refused, inflight,
                     aliases, holder, credited, mishap>>
  BY DEF ExchangeFails, Settle, CredInv, FlightsHaveOwners, OwnerPcs
<1>3. /\ c \in CallerType /\ c.pc = "closing" /\ c.owner /\ c.key = caller[t].key
      /\ caller \in [RefreshThreads -> CallerType]
  BY <1>1, <1>2, CallerParts DEF CallerType, CallerPcs, CredInv, CredTypes
<1>4. caller' = [caller EXCEPT ![t] = c]  BY <1>1, <1>3 DEF ExchangeFails
<1>5. KeyFor(t, c.key)  BY <1>3, KeysFor
<1>6. /\ flights' \in [PoolProcesses -> [Tokens -> FlightStates]]
      /\ \A p \in PoolProcesses, k \in Tokens :
           flights'[p][k] = "refused" => flights[p][k] = "refused"
  BY <1>2, CallerParts DEF FlightStates
<1>7. FlightsHaveOwners'
  <2>1. "done" \in FlightStates \ {"none"}  BY DEF FlightStates
  <2>2. flights' = [flights EXCEPT ![ProcessOf[t]][c.key] = "done"]  BY <1>2, <1>3
  <2> QED  BY <1>2, <1>3, <1>4, <2>1, <2>2, OwnerFlies
<1>8. RefusalsAreKnown'  BY <1>2, <1>3, <1>4, <1>6, RefusalMoves
<1> QED  BY <1>2, <1>3, <1>4, <1>5, <1>6, <1>7, <1>8, CallerMoves, CallerParts DEF CredInv

\* A refusal counts if the process still has the credential
\* (_refresh_access_token_owner).
LEMMA CredCheckRefused ==
  ASSUME CredInv, NEW t \in RefreshThreads, CheckRefused(t)
  PROVE  CredInv'
<1>1. PICK c, state :
        /\ c = [caller[t] EXCEPT !.pc = IF Changed(ProcessOf[t], caller[t].key)
                                          THEN "closing" ELSE "terminal"]
        /\ state = IF Changed(ProcessOf[t], caller[t].key) THEN "done" ELSE "refused"
  OBVIOUS
<1>2. /\ caller[t].pc = "refused" /\ caller[t].owner /\ caller[t].key \in refused
      /\ flights' = [flights EXCEPT ![ProcessOf[t]][caller[t].key] = state]
      /\ UNCHANGED <<accountRow, view, base, upToDate, saving, liveToken, refused, inflight,
                     aliases, holder, credited, mishap>>
  BY <1>1 DEF CheckRefused, CredInv, FlightsHaveOwners, OwnerPcs, RefusalsAreKnown
<1>3. /\ c \in CallerType /\ c.pc \in {"closing", "terminal"} /\ c.owner
      /\ c.key = caller[t].key /\ state \in {"done", "refused"}
      /\ caller \in [RefreshThreads -> CallerType]
  BY <1>1, <1>2, CallerParts DEF CallerType, CallerPcs, CredInv, CredTypes
<1>4. caller' = [caller EXCEPT ![t] = c]  BY <1>1, <1>3 DEF CheckRefused
<1>5. KeyFor(t, c.key)  BY <1>3, KeysFor
<1>6. /\ flights' \in [PoolProcesses -> [Tokens -> FlightStates]]
      /\ \A p \in PoolProcesses, k \in Tokens :
           flights'[p][k] = "refused" => flights[p][k] = "refused" \/ k \in refused
  BY <1>2, <1>3, CallerParts DEF FlightStates
<1>7. FlightsHaveOwners'
  <2>1. state \in FlightStates \ {"none"} /\ state # "open"  BY <1>3 DEF FlightStates
  <2> QED  BY <1>2, <1>3, <1>4, <2>1, OwnerFlies
<1>8. RefusalsAreKnown'  BY <1>2, <1>3, <1>4, <1>6, RefusalMoves
<1> QED  BY <1>2, <1>3, <1>4, <1>5, <1>6, <1>7, <1>8, CallerMoves, CallerParts DEF CredInv

\* A waiter gets the outcome of the exchange (future.result()).
LEMMA CredWake ==
  ASSUME CredInv, NEW t \in RefreshThreads, Wake(t)
  PROVE  CredInv'
<1>1. /\ caller[t].pc = "waiting" /\ ~caller[t].owner
      /\ UNCHANGED <<accountRow, view, base, upToDate, saving, flights, liveToken, refused,
                     inflight, aliases, holder, credited, mishap>>
  BY DEF Wake, CredInv, FlightsHaveOwners
<1>2. PICK refusal \in BOOLEAN : refusal <=> flights[ProcessOf[t]][caller[t].key] = "refused"
  OBVIOUS
<1>3. PICK c : c = IF refusal THEN [caller[t] EXCEPT !.pc = "terminal"] ELSE IdleCaller
  OBVIOUS
<1>4. caller' = [caller EXCEPT ![t] = c]
  BY <1>2, <1>3 DEF Wake, CredInv, CredTypes
<1>5. /\ c \in CallerType /\ c.pc \in {"terminal", "idle"} /\ ~c.owner
      /\ c.pc = "terminal" => refusal /\ c.key = caller[t].key
      /\ c.key = caller[t].key \/ c.key = 0
  <2>1. 0 \in Tokens  BY CredBounds DEF Tokens
  <2> QED  BY <1>1, <1>3, <2>1, CallerParts DEF CallerType, CallerPcs, IdleCaller
<1>6. KeyFor(t, c.key)  BY <1>5, KeysFor
<1>7. c.pc = "terminal" => c.key \in refused
  BY <1>2, <1>5, CallerParts DEF CredInv, RefusalsAreKnown
<1>8. FlightsHaveOwners'  BY <1>1, <1>4, <1>5, OthersFly
<1>9. RefusalsAreKnown'  BY <1>1, <1>4, <1>5, <1>7, RefusalMoves
<1> QED  BY <1>1, <1>4, <1>5, <1>6, <1>8, <1>9, CallerMoves, CallerParts DEF CredInv

\* The owner takes its flight off the table ("finally: if owner").
LEMMA CredCloseFlight ==
  ASSUME CredInv, NEW t \in RefreshThreads, CloseFlight(t)
  PROVE  CredInv'
<1>1. PICK p \in PoolProcesses, k \in Tokens : p = ProcessOf[t] /\ k = caller[t].key
  BY CallerParts
<1>2. PICK c : c = IdleCaller  OBVIOUS
<1>3. /\ caller[t].pc = "closing" /\ caller[t].owner
      /\ caller' = [caller EXCEPT ![t] = c]
      /\ flights' = [flights EXCEPT ![p][k] = "none"]
      /\ UNCHANGED <<accountRow, view, base, upToDate, saving, liveToken, refused, inflight,
                     aliases, holder, credited, mishap>>
  BY <1>1, <1>2 DEF CloseFlight, CredInv, FlightsHaveOwners, OwnerPcs
<1>4. /\ c \in CallerType /\ c.pc = "idle" /\ ~c.owner /\ c.key = 0
      /\ caller \in [RefreshThreads -> CallerType]
  <2>1. 0 \in Tokens  BY CredBounds DEF Tokens
  <2> QED  BY <1>2, <2>1 DEF CallerType, CallerPcs, IdleCaller, CredInv, CredTypes
<1>5. /\ flights'[p][k] = "none" /\ flights' \in [PoolProcesses -> [Tokens -> FlightStates]]
      /\ \A q \in PoolProcesses, l \in Tokens :
           ~(q = p /\ l = k) => flights'[q][l] = flights[q][l]
  BY <1>3, CallerParts DEF FlightStates
<1>6. KeyFor(t, c.key)  BY <1>4, KeysFor
<1>7. RefusalsAreKnown'
  <2>1. \A q \in PoolProcesses, l \in Tokens :
          flights'[q][l] = "refused" => flights[q][l] = "refused"
    BY <1>5
  <2> QED  BY <1>3, <1>4, <2>1, RefusalMoves
<1>8. FlightsHaveOwners'
  <2>1. FlightsHaveOwners  BY DEF CredInv
  <2>2. /\ caller'[t] = c
        /\ \A u \in RefreshThreads : u # t => caller'[u] = caller[u]
    BY <1>3, <1>4
  <2>3. \A u \in RefreshThreads : ProcessOf[u] \in PoolProcesses /\ caller[u].key \in Tokens
    BY CallerParts
  <2>4. \A u \in RefreshThreads : u # t /\ caller[u].owner =>
          ~(ProcessOf[u] = p /\ caller[u].key = k)
    BY <1>1, <1>3, <2>1 DEF FlightsHaveOwners
  <2>5. \A u \in RefreshThreads : u # t /\ caller[u].owner =>
          flights'[ProcessOf[u]][caller[u].key] = flights[ProcessOf[u]][caller[u].key]
    BY <1>5, <2>3, <2>4
  <2>6. \A q \in PoolProcesses, l \in Tokens : flights'[q][l] # "none" =>
          \E u \in RefreshThreads :
            caller'[u].owner /\ ProcessOf[u] = q /\ caller'[u].key = l
    <3> TAKE q \in PoolProcesses, l \in Tokens
    <3> HAVE flights'[q][l] # "none"
    <3>1. ~(q = p /\ l = k)  BY <1>5
    <3>2. PICK u \in RefreshThreads :
            caller[u].owner /\ ProcessOf[u] = q /\ caller[u].key = l
      BY <1>5, <2>1, <3>1 DEF FlightsHaveOwners
    <3>3. u # t  BY <1>1, <3>1, <3>2
    <3> QED  BY <2>2, <3>2, <3>3
  <2>7. \A u, w \in RefreshThreads :
          /\ caller'[u].owner /\ caller'[w].owner /\ ProcessOf[u] = ProcessOf[w]
          /\ caller'[u].key = caller'[w].key
          => u = w
    BY <1>4, <2>1, <2>2 DEF FlightsHaveOwners
  <2>8. ASSUME NEW u \in RefreshThreads
        PROVE  /\ caller'[u].pc \in OwnerPcs => caller'[u].owner
               /\ caller'[u].pc \in {"idle", "keyed", "waiting"} => ~caller'[u].owner
               /\ caller'[u].owner => flights'[ProcessOf[u]][caller'[u].key] # "none"
               /\ caller'[u].pc \in {"exchange", "answered", "refused"} =>
                    flights'[ProcessOf[u]][caller'[u].key] = "open"
               /\ caller'[u].owner /\ caller'[u].pc \in {"closing", "terminal"} =>
                    flights'[ProcessOf[u]][caller'[u].key] # "open"
               /\ caller'[u].pc = "saving" =>
                    /\ saving'[ProcessOf[u]].kind \in {"refresh", "terminal"}
                    /\ saving'[ProcessOf[u]].by = u
                    /\ caller'[u].owner /\ saving'[ProcessOf[u]].kind = "terminal" =>
                         flights'[ProcessOf[u]][caller'[u].key] # "open"
    <3>1. CASE u = t  BY <1>4, <2>2, <3>1 DEF OwnerPcs
    <3>2. CASE u # t  BY <1>3, <2>1, <2>2, <2>5, <3>2 DEF FlightsHaveOwners, OwnerPcs
    <3> QED  BY <3>1, <3>2
  <2> QED  BY <2>6, <2>7, <2>8 DEF FlightsHaveOwners
<1> QED  BY <1>3, <1>4, <1>5, <1>6, <1>7, <1>8, CallerMoves, CallerParts DEF CredInv

\* Upstream refuses a token that is not the one it takes.
LEMMA CredRefused ==
  ASSUME CredInv, NEW t \in RefreshThreads, Exchange(t), caller[t].key # liveToken
  PROVE  CredInv'
<1>1. PICK c : c = [caller[t] EXCEPT !.pc = "refused"]  OBVIOUS
<1>2. /\ caller[t].pc = "exchange" /\ caller[t].owner
      /\ flights[ProcessOf[t]][caller[t].key] = "open"
      /\ refused' = refused \cup {caller[t].key}
      /\ UNCHANGED <<accountRow, view, base, upToDate, saving, flights, liveToken, inflight,
                     aliases, holder, credited, mishap>>
  BY DEF Exchange, CredInv, FlightsHaveOwners, OwnerPcs
<1>3. /\ c \in CallerType /\ c.pc = "refused" /\ c.owner /\ c.key = caller[t].key
      /\ caller \in [RefreshThreads -> CallerType]
  BY <1>1, <1>2, CallerParts DEF CallerType, CallerPcs, CredInv, CredTypes
<1>4. caller' = [caller EXCEPT ![t] = c]  BY <1>1, <1>3 DEF Exchange
<1>5. KeyFor(t, c.key)  BY <1>3, KeysFor
<1>6. /\ refused \subseteq refused' /\ refused' \subseteq Tokens /\ c.key \in refused'
      /\ flights' \in [PoolProcesses -> [Tokens -> FlightStates]]
  BY <1>2, <1>3, CallerParts
<1>7. FlightsHaveOwners'
  <2>1. "open" \in FlightStates \ {"none"}  BY DEF FlightStates
  <2>2. flights' = [flights EXCEPT ![ProcessOf[t]][c.key] = "open"]
    BY <1>2, <1>3, CallerParts
  <2> QED  BY <1>2, <1>3, <1>4, <2>1, <2>2, OwnerFlies
<1>8. RefusalsAreKnown'  BY <1>2, <1>3, <1>4, <1>6, RefusalMoves
<1> QED  BY <1>2, <1>3, <1>4, <1>5, <1>6, <1>7, <1>8, CallerMoves DEF CredInv

\* Upstream takes the newest token and answers with the next, which nobody has.
LEMMA CredAnswered ==
  ASSUME CredInv, NEW t \in RefreshThreads, Exchange(t), caller[t].key = liveToken
  PROVE  CredInv'
<1>1. PICK c : c = [caller[t] EXCEPT !.pc = "answered", !.new = liveToken + 1]  OBVIOUS
<1>2. /\ caller[t].pc = "exchange" /\ caller[t].owner
      /\ flights[ProcessOf[t]][caller[t].key] = "open"
      /\ liveToken < MaxToken /\ liveToken' = liveToken + 1
      /\ UNCHANGED <<accountRow, view, base, upToDate, saving, flights, refused, inflight,
                     aliases, holder, credited, mishap>>
  BY DEF Exchange, CredInv, FlightsHaveOwners, OwnerPcs
<1>3. liveToken \in Nat /\ liveToken' \in Tokens /\ caller \in [RefreshThreads -> CallerType]
  BY <1>2, CallerParts, CredBounds DEF Tokens, CredInv, CredTypes
<1>4. /\ c \in CallerType /\ c.pc = "answered" /\ c.owner /\ c.key = caller[t].key
      /\ c.key = liveToken /\ c.new = liveToken'
  BY <1>1, <1>2, <1>3, CallerParts DEF CallerType, CallerPcs
<1>5. /\ caller' = [caller EXCEPT ![t] = c] /\ caller'[t] = c
      /\ \A u \in RefreshThreads : u # t => caller'[u] = caller[u]
      /\ caller' \in [RefreshThreads -> CallerType]
  <2>1. caller' = [caller EXCEPT ![t].pc = "answered", ![t].new = liveToken']
    BY DEF Exchange
  <2>2. caller' = [caller EXCEPT ![t] = c]  BY <1>1, <1>2, <1>3, <2>1, CallerParts DEF CallerType
  <2> QED  BY <1>3, <1>4, <2>2
<1>6. /\ ~InHand(t)
      /\ \A u \in RefreshThreads : InHand(u)' <=> u = t \/ InHand(u)
  BY <1>2, <1>4, <1>5 DEF InHand, Storing
<1>7. \A u \in RefreshThreads : /\ caller[u].key \in Nat /\ caller[u].new \in Nat
                                /\ caller[u].key <= liveToken
  BY CallerParts, CredBounds DEF Tokens, CredInv, TokensGrow
<1>8. /\ accountRow.token \in Int /\ accountRow.token <= liveToken
      /\ \A p \in PoolProcesses : base[p].token \in Int /\ base[p].token <= liveToken
  <2>1. accountRow \in Account \cup {NoAccount}
    BY DEF CredInv, CredTypes, CredTypeOK
  <2>2. \A p \in PoolProcesses : base[p] \in Account \cup {NoAccount}
    BY DEF CredInv, CredTypes, CredTypeOK
  <2> QED  BY <2>1, <2>2, RowFacts DEF CredInv, TokensGrow
<1>9. CredTypes'
  BY <1>2, <1>3, <1>5 DEF CredInv, CredTypes, CredTypeOK
<1>10. SavesHold'
  <2>1. \A p \in PoolProcesses : saving[p].kind \in {"refresh", "terminal"} => saving[p].by # t
    BY <1>2 DEF CredInv, SavesHold, SaveHolds
  <2> QED  BY <1>2, <1>5, <2>1 DEF CredInv, SavesHold, SaveHolds
<1>11. BasesAreRows'  BY <1>2 DEF CredInv, BasesAreRows
<1>12. FlightsHaveOwners'
  <2>1. "open" \in FlightStates \ {"none"}  BY DEF FlightStates
  <2>2. flights' = [flights EXCEPT ![ProcessOf[t]][c.key] = "open"]
    BY <1>2, <1>4, CallerParts
  <2> QED  BY <1>2, <1>4, <1>5, <2>1, <2>2, OwnerFlies
<1>13. RefusalsAreKnown'  BY <1>2, <1>4, <1>5, RefusalMoves
<1>14. TokensGrow'
  <2>1. \A u \in RefreshThreads : InHand(u) => caller[u].new <= liveToken
    BY DEF CredInv, TokensGrow
  <2> QED  BY <1>2, <1>3, <1>4, <1>5, <1>6, <1>7, <1>8, <2>1 DEF CredInv, TokensGrow
<1>15. NewTokensAreNew'
  <2>1. \A u \in RefreshThreads : InHand(u) => caller[u].key # liveToken
    BY <1>3, <1>7 DEF CredInv, TokensGrow
  <2>2. ASSUME NEW u \in RefreshThreads, InHand(u)'
        PROVE  /\ accountRow'.token # caller'[u].new
               /\ \A p \in PoolProcesses : base'[p].token # caller'[u].new
               /\ \A w \in RefreshThreads \ {u} : InHand(w)' => caller'[w].key # caller'[u].key
               /\ \A w \in RefreshThreads : caller'[w].key # caller'[u].new
    <3>1. CASE u = t
      BY <1>2, <1>3, <1>4, <1>5, <1>6, <1>7, <1>8, <2>1, <3>1
    <3>2. CASE u # t
      BY <1>2, <1>3, <1>4, <1>5, <1>6, <1>7, <1>8, <2>1, <2>2, <3>2
      DEF CredInv, NewTokensAreNew
    <3> QED  BY <3>1, <3>2
  <2> QED  BY <2>2 DEF NewTokensAreNew
<1>16. AliasesEnd'
  BY <1>2, <1>3, <1>4, <1>5, <1>6, <1>8 DEF CredInv, AliasesEnd, CredTypes, CredTypeOK, Tokens
<1>17. NewestIsStored'
  <2> SUFFICES ASSUME Exists(accountRow), ~mishap
               PROVE  /\ \A u \in RefreshThreads : InHand(u)' =>
                           /\ caller'[u].key = accountRow.token
                           /\ liveToken' = accountRow.token + 1
                      /\ ~(\A u \in RefreshThreads : ~InHand(u)')
    BY <1>2 DEF NewestIsStored
  <2>1. accountRow.token = liveToken  BY <1>3, <1>7, <1>8, <1>4 DEF CredInv, TokensGrow
  <2>2. \A u \in RefreshThreads : ~InHand(u)
    BY <1>3, <2>1 DEF CredInv, NewestIsStored
  <2> QED  BY <1>2, <1>4, <1>5, <1>6, <2>1, <2>2
<1>18. SlotsFollow' /\ ResultsAreKept'
  BY <1>2 DEF CredInv, SlotsFollow, SlotHeld, SlotOf, Alias, ResultsAreKept
<1> QED
  BY <1>9, <1>10, <1>11, <1>12, <1>13, <1>14, <1>15, <1>16, <1>17, <1>18 DEF CredInv

\* A process begins a save: its view changes, the row it knows does not.
LEMMA SaveBegins ==
  ASSUME CredInv, NEW p \in PoolProcesses, Unlocked(p), Exists(view[p]),
         NEW v \in Account \cup {NoAccount}, NEW save \in SaveType,
         view' = [view EXCEPT ![p] = v], saving' = [saving EXCEPT ![p] = save],
         UNCHANGED <<accountRow, base, upToDate>>
  PROVE  /\ saving[p].kind = "none" /\ view[p] = base[p] /\ Exists(base[p])
         /\ view \in [PoolProcesses -> Account \cup {NoAccount}]
         /\ saving \in [PoolProcesses -> SaveType]
         /\ view'[p] = v /\ saving'[p] = save
         /\ \A q \in PoolProcesses : q # p => view'[q] = view[q] /\ saving'[q] = saving[q]
         /\ view' \in [PoolProcesses -> Account \cup {NoAccount}]
         /\ saving' \in [PoolProcesses -> SaveType]
         /\ BasesAreRows'
<1>1. /\ view \in [PoolProcesses -> Account \cup {NoAccount}]
      /\ saving \in [PoolProcesses -> SaveType]
  BY DEF CredInv, CredTypes, CredTypeOK
<1>2. saving[p].kind = "none"  BY DEF Unlocked, NotSaving
<1>3. view[p] = base[p]  BY <1>2 DEF CredInv, SavesHold, SaveHolds
<1> QED  BY <1>1, <1>2, <1>3 DEF CredInv, BasesAreRows

\* No thread saves in a process that is not saving.
LEMMA NobodySaves ==
  ASSUME CredInv, NEW p \in PoolProcesses, saving[p].kind = "none",
         NEW u \in RefreshThreads, ProcessOf[u] = p
  PROVE  caller[u].pc # "saving"
BY DEF CredInv, FlightsHaveOwners

\* New tokens enter the view (_apply_refreshed_tokens).
LEMMA CredTokensApplied ==
  ASSUME CredInv, NEW t \in RefreshThreads, ApplyRefreshed(t),
         ~Changed(ProcessOf[t], caller[t].key)
  PROVE  CredInv'
<1>1. PICK p \in PoolProcesses, key \in Tokens, new \in Tokens :
        p = ProcessOf[t] /\ key = caller[t].key /\ new = caller[t].new
  BY CallerParts
<1>2. PICK c : c = [caller[t] EXCEPT !.pc = "saving"]  OBVIOUS
<1>3. PICK v : v = [view[p] EXCEPT !.token = new, !.dead = FALSE]  OBVIOUS
<1>4. PICK save : save = [kind |-> "refresh", by |-> t, expect |-> key, tries |-> 0,
                      sources |-> Sources(p, key)]
  OBVIOUS
<1>5. /\ caller[t].pc = "answered" /\ caller[t].owner /\ Unlocked(p)
      /\ Exists(view[p]) /\ view[p].token = key
      /\ flights[p][key] = "open"
      /\ UNCHANGED <<accountRow, base, upToDate, flights, liveToken, refused, inflight,
                     aliases, holder, credited, mishap>>
  BY <1>1 DEF ApplyRefreshed, Changed, CredInv, FlightsHaveOwners, OwnerPcs
<1>6. /\ caller \in [RefreshThreads -> CallerType]
      /\ view \in [PoolProcesses -> Account \cup {NoAccount}]
      /\ aliases \in [PoolProcesses -> [Tokens -> Tokens]]
      /\ holder \in [PoolProcesses -> Tokens \cup {-1}]
  BY DEF CredInv, CredTypes, CredTypeOK
<1>7. /\ c \in CallerType /\ c.pc = "saving" /\ c.owner /\ c.key = key /\ c.new = new
      /\ caller' = [caller EXCEPT ![t] = c] /\ caller'[t] = c
      /\ caller' \in [RefreshThreads -> CallerType]
      /\ \A u \in RefreshThreads : u # t => caller'[u] = caller[u]
  <2>1. c \in CallerType /\ c.pc = "saving" /\ c.owner /\ c.key = key /\ c.new = new
    BY <1>1, <1>2, <1>5, <1>6 DEF CallerType, CallerPcs
  <2>2. caller' = [caller EXCEPT ![t] = c]
    BY <1>1, <1>2, <1>6, <2>1 DEF ApplyRefreshed
  <2> QED  BY <1>6, <2>1, <2>2
<1>8. /\ v \in Account /\ v.token = new /\ v.success = view[p].success /\ Exists(v)
      /\ view' = [view EXCEPT ![p] = v]
  <2>1. view[p] \in Account  BY <1>5, <1>6, RowFacts
  <2>2. v \in Account /\ v.token = new /\ v.success = view[p].success
    BY <1>3, <2>1 DEF Account
  <2>3. Exists(v)  BY <2>2, RowFacts
  <2>4. view' = [view EXCEPT ![p].token = new, ![p].dead = FALSE]
    BY <1>1 DEF ApplyRefreshed
  <2>5. view' = [view EXCEPT ![p] = v]  BY <1>3, <1>6, <2>1, <2>4 DEF Account
  <2> QED  BY <2>2, <2>3, <2>5
<1>9. Sources(p, key) = {s \in Tokens : s = key \/ aliases[p][s] = key}
  BY <1>5, SourcesAre DEF CredInv
<1>10. /\ save \in SaveType /\ save.kind = "refresh" /\ save.by = t /\ save.expect = key
       /\ save.sources = {s \in Tokens : s = key \/ aliases[p][s] = key}
       /\ saving' = [saving EXCEPT ![p] = save]
  <2>1. 0 \in 0..(SaveAttempts - 1)  BY CredBounds
  <2>2. saving' = [saving EXCEPT ![p] = save]
    BY <1>1, <1>4 DEF ApplyRefreshed, AliasSources
  <2> QED  BY <1>4, <1>9, <2>1, <2>2 DEF SaveType, SaveKinds
<1>11. /\ saving[p].kind = "none" /\ view[p] = base[p] /\ Exists(base[p])
       /\ view'[p] = v /\ saving'[p] = save
       /\ \A q \in PoolProcesses : q # p => view'[q] = view[q] /\ saving'[q] = saving[q]
       /\ view' \in [PoolProcesses -> Account \cup {NoAccount}]
       /\ saving' \in [PoolProcesses -> SaveType]
       /\ BasesAreRows'
  BY <1>5, <1>8, <1>10, SaveBegins
<1>12. \A u \in RefreshThreads :
         /\ InHand(u)' <=> InHand(u)
         /\ caller'[u].key = caller[u].key /\ caller'[u].new = caller[u].new
         /\ caller'[u].owner = caller[u].owner
  <2> TAKE u \in RefreshThreads
  <2>1. CASE u = t
    <3>1. InHand(u)
      BY <1>5, <2>1 DEF InHand
    <3>2. caller'[u].pc = "saving" /\ saving'[ProcessOf[u]].kind = "refresh"
      BY <1>1, <1>7, <1>10, <1>11, <2>1
    <3>3. InHand(u)'
      BY <3>2 DEF InHand, Storing
    <3>4. /\ caller'[u].key = caller[u].key /\ caller'[u].new = caller[u].new
          /\ caller'[u].owner = caller[u].owner
      BY <1>1, <1>5, <1>7, <2>1
    <3> QED
      BY <3>1, <3>3, <3>4
  <2>2. CASE u # t /\ ProcessOf[u] = p
    BY <1>7, <1>11, <2>2, NobodySaves DEF InHand, Storing
  <2>3. CASE u # t /\ ProcessOf[u] # p
    <3>1. ProcessOf[u] \in PoolProcesses  BY CallerParts
    <3> QED  BY <1>7, <1>11, <2>3, <3>1 DEF InHand, Storing
  <2> QED  BY <2>1, <2>2, <2>3
<1>13. CredTypes'
  <2>1. \A q \in PoolProcesses : saving'[q].tries < SaveAttempts
    BY <1>11, CredBounds DEF SaveType
  <2> QED  BY <1>5, <1>7, <1>11, <2>1 DEF CredInv, CredTypes, CredTypeOK
<1>14. SavesHold'
  <2> SUFFICES ASSUME NEW q \in PoolProcesses  PROVE SaveHolds(q)'
    BY DEF SavesHold
  <2>1. aliases[p][key] = key  BY <1>5 DEF CredInv, AliasesEnd
  <2>2. CASE q = p
    BY <1>1, <1>5, <1>7, <1>8, <1>10, <1>11, <2>1, <2>2 DEF SaveHolds
  <2>3. CASE q # p
    <3>1. SaveHolds(q)  BY DEF CredInv, SavesHold
    <3>2. saving[q].kind \in {"refresh", "terminal"} => saving[q].by # t
      BY <1>1, <2>3, <3>1 DEF SaveHolds
    <3> QED  BY <1>5, <1>7, <1>11, <2>3, <3>1, <3>2 DEF SaveHolds
  <2> QED  BY <2>2, <2>3
<1>15. FlightsHaveOwners'
  <2>1. FlightsHaveOwners  BY DEF CredInv
  <2>2. ASSUME NEW u \in RefreshThreads
        PROVE  /\ caller'[u].pc \in OwnerPcs => caller'[u].owner
               /\ caller'[u].pc \in {"idle", "keyed", "waiting"} => ~caller'[u].owner
               /\ caller'[u].owner => flights'[ProcessOf[u]][caller'[u].key] # "none"
               /\ caller'[u].pc \in {"exchange", "answered", "refused"} =>
                    flights'[ProcessOf[u]][caller'[u].key] = "open"
               /\ caller'[u].owner /\ caller'[u].pc \in {"closing", "terminal"} =>
                    flights'[ProcessOf[u]][caller'[u].key] # "open"
               /\ caller'[u].pc = "saving" =>
                    /\ saving'[ProcessOf[u]].kind \in {"refresh", "terminal"}
                    /\ saving'[ProcessOf[u]].by = u
                    /\ caller'[u].owner /\ saving'[ProcessOf[u]].kind = "terminal" =>
                         flights'[ProcessOf[u]][caller'[u].key] # "open"
    <3>1. CASE u = t
      BY <1>1, <1>5, <1>7, <1>10, <1>11, <3>1 DEF OwnerPcs
    <3>2. CASE u # t
      <4>1. caller[u].pc = "saving" => saving'[ProcessOf[u]] = saving[ProcessOf[u]]
        BY <1>11, NobodySaves, CallerParts
      <4> QED  BY <1>5, <1>7, <2>1, <3>2, <4>1 DEF FlightsHaveOwners, OwnerPcs
    <3> QED  BY <3>1, <3>2
  <2>3. \A u, w \in RefreshThreads :
          /\ caller'[u].owner /\ caller'[w].owner /\ ProcessOf[u] = ProcessOf[w]
          /\ caller'[u].key = caller'[w].key
          => u = w
    BY <1>12, <2>1 DEF FlightsHaveOwners
  <2>4. \A q \in PoolProcesses, l \in Tokens : flights'[q][l] # "none" =>
          \E u \in RefreshThreads :
            caller'[u].owner /\ ProcessOf[u] = q /\ caller'[u].key = l
    BY <1>5, <1>12, <2>1 DEF FlightsHaveOwners
  <2> QED  BY <2>2, <2>3, <2>4 DEF FlightsHaveOwners
<1>16. RefusalsAreKnown'
  <2>1. RefusalsAreKnown  BY DEF CredInv
  <2> QED  BY <1>5, <1>7, <1>10, <1>11, <2>1 DEF RefusalsAreKnown
<1>17. TokensGrow'  BY <1>5, <1>12 DEF CredInv, TokensGrow
<1>18. NewTokensAreNew'  BY <1>5, <1>12 DEF CredInv, NewTokensAreNew
<1>19. AliasesEnd'
  <2>1. AliasesEnd  BY DEF CredInv
  <2>2. InHand(t)  BY <1>5 DEF InHand
  <2>3. aliases[p][new] = new  BY <1>1, <2>1, <2>2 DEF AliasesEnd
  <2> QED  BY <1>5, <1>8, <1>11, <1>12, <2>1, <2>3 DEF AliasesEnd
<1>20. NewestIsStored'  BY <1>5, <1>12 DEF CredInv, NewestIsStored
<1>21. SlotsFollow'
  <2> SUFFICES ASSUME ~mishap, NEW q \in PoolProcesses, Exists(view'[q])
               PROVE  SlotHeld(q)'
    BY <1>5 DEF SlotsFollow
  <2>1. CASE q = p
    <3>1. SlotHeld(p)  BY <1>5 DEF CredInv, SlotsFollow
    <3>2. SlotOf(p) = key /\ SlotOf(p)' = key
      BY <1>5, <1>10, <1>11 DEF SlotOf
    <3>3. holder[p] # -1 => holder[p] \in save.sources
      BY <1>5, <1>6, <1>10, <1>11, <3>1 DEF SlotHeld, Alias
    <3> QED  BY <1>5, <1>10, <1>11, <2>1, <3>1, <3>2, <3>3 DEF SlotHeld
  <2>2. CASE q # p
    BY <1>5, <1>11, <2>2 DEF CredInv, SlotsFollow, SlotHeld, SlotOf, Alias
  <2> QED  BY <2>1, <2>2
<1>22. ResultsAreKept'  BY <1>5 DEF CredInv, ResultsAreKept
<1> QED
  BY <1>11, <1>13, <1>14, <1>15, <1>16, <1>17, <1>18, <1>19, <1>20, <1>21, <1>22 DEF CredInv

\* Tokens whose credential is no longer the process's own are dropped: the account
\* is gone then.
LEMMA CredTokensDropped ==
  ASSUME CredInv, NEW t \in RefreshThreads, ApplyRefreshed(t),
         Changed(ProcessOf[t], caller[t].key)
  PROVE  CredInv'
<1>1. PICK p \in PoolProcesses, key \in Tokens : p = ProcessOf[t] /\ key = caller[t].key
  BY CallerParts
<1>2. PICK c : c = [caller[t] EXCEPT !.pc = "closing"]  OBVIOUS
<1>3. /\ caller[t].pc = "answered" /\ caller[t].owner /\ Unlocked(p)
      /\ ~Exists(view[p]) \/ view[p].token # key
      /\ flights' = [flights EXCEPT ![p][key] = "done"]
      /\ UNCHANGED <<accountRow, view, base, upToDate, saving, liveToken, refused, inflight,
                     aliases, holder, credited, mishap>>
  BY <1>1 DEF ApplyRefreshed, Changed, CredInv, FlightsHaveOwners, OwnerPcs
<1>4. /\ c \in CallerType /\ c.pc = "closing" /\ c.owner /\ c.key = key
      /\ caller \in [RefreshThreads -> CallerType]
  BY <1>1, <1>2, <1>3, CallerParts DEF CallerType, CallerPcs, CredInv, CredTypes
<1>5. caller' = [caller EXCEPT ![t] = c]
  BY <1>1, <1>2, <1>4 DEF ApplyRefreshed
<1>6. ~Exists(accountRow) \/ mishap
  <2> SUFFICES ASSUME Exists(accountRow), ~mishap  PROVE FALSE
    OBVIOUS
  <2>1. saving[p].kind = "none"  BY <1>3 DEF Unlocked, NotSaving
  <2>2. view[p] = base[p] /\ Exists(base[p])
    BY <2>1 DEF CredInv, SavesHold, SaveHolds, BasesAreRows
  <2>3. key = accountRow.token
    BY <1>1, <1>3 DEF CredInv, NewestIsStored, InHand
  <2>4. key <= base[p].token /\ base[p].token <= accountRow.token
    BY <1>1, <2>2 DEF CredInv, TokensGrow
  <2>5. base[p].token \in Int /\ accountRow.token \in Int
    BY RowFacts DEF CredInv, CredTypes, CredTypeOK
  <2> QED  BY <1>3, <2>2, <2>3, <2>4, <2>5
<1>7. KeyFor(t, c.key)  BY <1>1, <1>4, KeysFor
<1>8. /\ flights' \in [PoolProcesses -> [Tokens -> FlightStates]]
      /\ \A q \in PoolProcesses, l \in Tokens :
           flights'[q][l] = "refused" => flights[q][l] = "refused"
  BY <1>3, CallerParts DEF FlightStates
<1>9. FlightsHaveOwners'
  <2>1. "done" \in FlightStates \ {"none"}  BY DEF FlightStates
  <2>2. flights' = [flights EXCEPT ![ProcessOf[t]][c.key] = "done"]  BY <1>1, <1>3, <1>4
  <2> QED  BY <1>1, <1>3, <1>4, <1>5, <2>1, <2>2, OwnerFlies
<1>10. RefusalsAreKnown'  BY <1>3, <1>4, <1>5, <1>8, RefusalMoves
<1> QED
  BY <1>3, <1>4, <1>5, <1>6, <1>7, <1>8, <1>9, <1>10, CallerMoves, CallerParts DEF CredInv

\* A refusal of a credential that the process no longer has is dropped.
LEMMA CredRefusalDropped ==
  ASSUME CredInv, NEW t \in RefreshThreads, RecordTerminal(t),
         Changed(ProcessOf[t], caller[t].key)
  PROVE  CredInv'
<1>1. PICK c : c = IF caller[t].owner THEN [caller[t] EXCEPT !.pc = "closing"] ELSE IdleCaller
  OBVIOUS
<1>2. /\ caller[t].pc = "terminal"
      /\ caller[t].owner => /\ flights[ProcessOf[t]][caller[t].key] # "open"
                            /\ flights[ProcessOf[t]][caller[t].key] # "none"
      /\ UNCHANGED <<accountRow, view, base, upToDate, saving, flights, liveToken, refused,
                     inflight, aliases, holder, credited, mishap>>
  BY DEF RecordTerminal, CredInv, FlightsHaveOwners
<1>3. caller \in [RefreshThreads -> CallerType]  BY DEF CredInv, CredTypes
<1>4. /\ c \in CallerType /\ c.pc \in {"closing", "idle"}
      /\ caller[t].owner => c.owner /\ c.pc = "closing" /\ c.key = caller[t].key
      /\ ~caller[t].owner => ~c.owner /\ c.pc = "idle" /\ c.key = 0
  <2>1. 0 \in Tokens  BY CredBounds DEF Tokens
  <2> QED  BY <1>1, <2>1, CallerParts DEF CallerType, CallerPcs, IdleCaller
<1>5. caller' = [caller EXCEPT ![t] = c]
  BY <1>1, <1>3, <1>4 DEF RecordTerminal
<1>6. KeyFor(t, c.key)  BY <1>4, KeysFor, CallerParts
<1>7. FlightsHaveOwners'
  <2>1. CASE caller[t].owner
    <3>1. PICK state : state = flights[ProcessOf[t]][c.key]  OBVIOUS
    <3>2. state \in FlightStates \ {"none"} /\ state # "open"
      BY <1>2, <1>4, <2>1, <3>1, CallerParts
    <3>3. flights' = [flights EXCEPT ![ProcessOf[t]][c.key] = state]
      BY <1>2, <1>4, <2>1, <3>1, CallerParts
    <3> QED  BY <1>2, <1>4, <1>5, <2>1, <3>2, <3>3, OwnerFlies
  <2>2. CASE ~caller[t].owner  BY <1>2, <1>4, <1>5, <2>2, OthersFly
  <2> QED  BY <2>1, <2>2
<1>8. RefusalsAreKnown'  BY <1>2, <1>4, <1>5, RefusalMoves
<1> QED  BY <1>2, <1>4, <1>5, <1>6, <1>7, <1>8, CallerMoves, CallerParts DEF CredInv

\* A refusal enters the view (_record_token_refresh_error).
LEMMA CredRefusalNoted ==
  ASSUME CredInv, NEW t \in RefreshThreads, RecordTerminal(t),
         ~Changed(ProcessOf[t], caller[t].key)
  PROVE  CredInv'
<1>1. PICK p \in PoolProcesses, key \in Tokens : p = ProcessOf[t] /\ key = caller[t].key
  BY CallerParts
<1>2. PICK c : c = [caller[t] EXCEPT !.pc = "saving"]  OBVIOUS
<1>3. PICK v : v = [view[p] EXCEPT !.dead = TRUE]  OBVIOUS
<1>4. PICK save : save = [NotSaving EXCEPT !.kind = "terminal", !.by = t, !.expect = key]
  OBVIOUS
<1>5. /\ caller[t].pc = "terminal" /\ Unlocked(p) /\ key \in refused
      /\ Exists(view[p]) /\ view[p].token = key
      /\ caller[t].owner => flights[p][key] \notin {"open", "none"}
      /\ UNCHANGED <<accountRow, base, upToDate, flights, liveToken, refused, inflight,
                     aliases, holder, credited, mishap>>
  BY <1>1 DEF RecordTerminal, Changed, CredInv, FlightsHaveOwners, RefusalsAreKnown
<1>6. /\ caller \in [RefreshThreads -> CallerType]
      /\ view \in [PoolProcesses -> Account \cup {NoAccount}]
  BY DEF CredInv, CredTypes, CredTypeOK
<1>7. /\ c \in CallerType /\ c.pc = "saving" /\ c.key = key /\ c.new = caller[t].new
      /\ c.owner = caller[t].owner
      /\ caller' = [caller EXCEPT ![t] = c] /\ caller'[t] = c
      /\ caller' \in [RefreshThreads -> CallerType]
      /\ \A u \in RefreshThreads : u # t => caller'[u] = caller[u]
  <2>1. /\ c \in CallerType /\ c.pc = "saving" /\ c.key = key /\ c.new = caller[t].new
        /\ c.owner = caller[t].owner
    BY <1>1, <1>2, <1>6 DEF CallerType, CallerPcs
  <2>2. caller' = [caller EXCEPT ![t] = c]
    BY <1>1, <1>2, <1>6, <2>1 DEF RecordTerminal
  <2> QED  BY <1>6, <2>1, <2>2
<1>8. /\ v \in Account /\ v.token = key /\ v.success = view[p].success /\ Exists(v)
      /\ view' = [view EXCEPT ![p] = v]
  <2>1. view[p] \in Account  BY <1>5, <1>6, RowFacts
  <2>2. v \in Account /\ v.token = key /\ v.success = view[p].success
    BY <1>3, <1>5, <2>1 DEF Account
  <2>3. Exists(v)  BY <2>2, RowFacts
  <2>4. view' = [view EXCEPT ![p].dead = TRUE]  BY <1>1 DEF RecordTerminal
  <2>5. view' = [view EXCEPT ![p] = v]  BY <1>3, <1>6, <2>1, <2>4 DEF Account
  <2> QED  BY <2>2, <2>3, <2>5
<1>9. /\ save \in SaveType /\ save.kind = "terminal" /\ save.by = t /\ save.expect = key
      /\ save.sources = {} /\ saving' = [saving EXCEPT ![p] = save]
  <2>1. 0 \in 0..(SaveAttempts - 1)  BY CredBounds
  <2>2. /\ save.kind = "terminal" /\ save.by = t /\ save.expect = key /\ save.tries = 0
        /\ save.sources = {}
        /\ save = [kind |-> save.kind, by |-> save.by, expect |-> save.expect, tries |-> save.tries,
                 sources |-> save.sources]
    BY <1>4 DEF NotSaving
  <2>3. saving' = [saving EXCEPT ![p] = save]
    BY <1>1, <1>4 DEF RecordTerminal
  <2> QED  BY <2>1, <2>2, <2>3 DEF SaveType, SaveKinds
<1>10. /\ saving[p].kind = "none" /\ view[p] = base[p] /\ Exists(base[p])
       /\ view'[p] = v /\ saving'[p] = save
       /\ \A q \in PoolProcesses : q # p => view'[q] = view[q] /\ saving'[q] = saving[q]
       /\ view' \in [PoolProcesses -> Account \cup {NoAccount}]
       /\ saving' \in [PoolProcesses -> SaveType]
       /\ BasesAreRows'
  BY <1>5, <1>8, <1>9, SaveBegins
<1>11. \A u \in RefreshThreads :
         /\ InHand(u)' <=> InHand(u)
         /\ caller'[u].key = caller[u].key /\ caller'[u].new = caller[u].new
         /\ caller'[u].owner = caller[u].owner
  <2> TAKE u \in RefreshThreads
  <2>1. CASE u = t
    BY <1>1, <1>5, <1>7, <1>9, <1>10, <2>1 DEF InHand, Storing
  <2>2. CASE u # t /\ ProcessOf[u] = p
    BY <1>7, <1>10, <2>2, NobodySaves DEF InHand, Storing
  <2>3. CASE u # t /\ ProcessOf[u] # p
    <3>1. ProcessOf[u] \in PoolProcesses  BY CallerParts
    <3> QED  BY <1>7, <1>10, <2>3, <3>1 DEF InHand, Storing
  <2> QED  BY <2>1, <2>2, <2>3
<1>12. CredTypes'
  <2>1. \A q \in PoolProcesses : saving'[q].tries < SaveAttempts
    BY <1>10, CredBounds DEF SaveType
  <2> QED  BY <1>5, <1>7, <1>10, <2>1 DEF CredInv, CredTypes, CredTypeOK
<1>13. SavesHold'
  <2> SUFFICES ASSUME NEW q \in PoolProcesses  PROVE SaveHolds(q)'
    BY DEF SavesHold
  <2>1. CASE q = p
    BY <1>1, <1>5, <1>7, <1>8, <1>9, <1>10, <2>1 DEF SaveHolds
  <2>2. CASE q # p
    <3>1. SaveHolds(q)  BY DEF CredInv, SavesHold
    <3>2. saving[q].kind \in {"refresh", "terminal"} => saving[q].by # t
      BY <1>1, <2>2, <3>1 DEF SaveHolds
    <3> QED  BY <1>5, <1>7, <1>10, <2>2, <3>1, <3>2 DEF SaveHolds
  <2> QED  BY <2>1, <2>2
<1>14. FlightsHaveOwners'
  <2>1. FlightsHaveOwners  BY DEF CredInv
  <2>2. ASSUME NEW u \in RefreshThreads
        PROVE  /\ caller'[u].pc \in OwnerPcs => caller'[u].owner
               /\ caller'[u].pc \in {"idle", "keyed", "waiting"} => ~caller'[u].owner
               /\ caller'[u].owner => flights'[ProcessOf[u]][caller'[u].key] # "none"
               /\ caller'[u].pc \in {"exchange", "answered", "refused"} =>
                    flights'[ProcessOf[u]][caller'[u].key] = "open"
               /\ caller'[u].owner /\ caller'[u].pc \in {"closing", "terminal"} =>
                    flights'[ProcessOf[u]][caller'[u].key] # "open"
               /\ caller'[u].pc = "saving" =>
                    /\ saving'[ProcessOf[u]].kind \in {"refresh", "terminal"}
                    /\ saving'[ProcessOf[u]].by = u
                    /\ caller'[u].owner /\ saving'[ProcessOf[u]].kind = "terminal" =>
                         flights'[ProcessOf[u]][caller'[u].key] # "open"
    <3>1. CASE u = t
      BY <1>1, <1>5, <1>7, <1>9, <1>10, <3>1 DEF OwnerPcs
    <3>2. CASE u # t
      <4>1. caller[u].pc = "saving" => saving'[ProcessOf[u]] = saving[ProcessOf[u]]
        BY <1>10, NobodySaves, CallerParts
      <4> QED  BY <1>5, <1>7, <2>1, <3>2, <4>1 DEF FlightsHaveOwners, OwnerPcs
    <3> QED  BY <3>1, <3>2
  <2>3. \A u, w \in RefreshThreads :
          /\ caller'[u].owner /\ caller'[w].owner /\ ProcessOf[u] = ProcessOf[w]
          /\ caller'[u].key = caller'[w].key
          => u = w
    BY <1>11, <2>1 DEF FlightsHaveOwners
  <2>4. \A q \in PoolProcesses, l \in Tokens : flights'[q][l] # "none" =>
          \E u \in RefreshThreads :
            caller'[u].owner /\ ProcessOf[u] = q /\ caller'[u].key = l
    BY <1>5, <1>11, <2>1 DEF FlightsHaveOwners
  <2> QED  BY <2>2, <2>3, <2>4 DEF FlightsHaveOwners
<1>15. RefusalsAreKnown'
  <2>1. RefusalsAreKnown  BY DEF CredInv
  <2> QED  BY <1>5, <1>7, <1>9, <1>10, <2>1 DEF RefusalsAreKnown
<1>16. TokensGrow'  BY <1>5, <1>11 DEF CredInv, TokensGrow
<1>17. NewTokensAreNew'  BY <1>5, <1>11 DEF CredInv, NewTokensAreNew
<1>18. AliasesEnd'
  <2>1. AliasesEnd  BY DEF CredInv
  <2> QED  BY <1>5, <1>8, <1>10, <1>11, <2>1 DEF AliasesEnd
<1>19. NewestIsStored'  BY <1>5, <1>11 DEF CredInv, NewestIsStored
<1>20. SlotsFollow'
  <2> SUFFICES ASSUME ~mishap, NEW q \in PoolProcesses, Exists(view'[q])
               PROVE  SlotHeld(q)'
    BY <1>5 DEF SlotsFollow
  <2>1. CASE q = p
    <3>1. SlotHeld(p)  BY <1>5 DEF CredInv, SlotsFollow
    <3>2. SlotOf(p) = key /\ SlotOf(p)' = key
      BY <1>5, <1>8, <1>9, <1>10 DEF SlotOf
    <3>3. view'[p].token = view[p].token  BY <1>5, <1>8, <1>10
    <3> QED  BY <1>5, <1>9, <1>10, <2>1, <3>1, <3>2, <3>3 DEF SlotHeld, Alias
  <2>2. CASE q # p
    BY <1>5, <1>10, <2>2 DEF CredInv, SlotsFollow, SlotHeld, SlotOf, Alias
  <2> QED  BY <2>1, <2>2
<1>21. ResultsAreKept'  BY <1>5 DEF CredInv, ResultsAreKept
<1> QED
  BY <1>10, <1>12, <1>13, <1>14, <1>15, <1>16, <1>17, <1>18, <1>19, <1>20, <1>21 DEF CredInv

\* An image takes a slot (get_available_access_token).
LEMMA CredTakeSlot ==
  ASSUME CredInv, NEW p \in PoolProcesses, TakeSlot(p)
  PROVE  CredInv'
<1>1. /\ saving[p].kind = "none" /\ holder[p] = -1 /\ Exists(view[p])
      /\ UNCHANGED <<accountRow, view, base, upToDate, saving, caller, flights, liveToken,
                     refused, aliases, credited, mishap>>
  BY DEF TakeSlot, Unlocked, NotSaving
<1>2. PICK token \in Tokens : token = view[p].token
  BY <1>1, RowFacts DEF CredInv, CredTypes, CredTypeOK
<1>3. /\ inflight \in [PoolProcesses -> [Tokens -> Nat]]
      /\ holder \in [PoolProcesses -> Tokens \cup {-1}]
  BY DEF CredInv, CredTypes, CredTypeOK
<1>4. PICK counts : counts = [inflight[p] EXCEPT ![token] = @ + 1]  OBVIOUS
<1>5. /\ counts \in [Tokens -> Nat] /\ inflight' = [inflight EXCEPT ![p] = counts]
      /\ counts[token] = inflight[p][token] + 1
      /\ \A s \in Tokens : s # token => counts[s] = inflight[p][s]
  BY <1>2, <1>3, <1>4 DEF TakeSlot
<1>6. /\ holder' = [holder EXCEPT ![p] = token]
      /\ inflight' \in [PoolProcesses -> [Tokens -> Nat]]
      /\ holder' \in [PoolProcesses -> Tokens \cup {-1}]
  BY <1>2, <1>3, <1>5 DEF TakeSlot
<1>7. CredTypes'
  BY <1>1, <1>6 DEF CredInv, CredTypes, CredTypeOK
<1>8. SlotsFollow'
  <2> SUFFICES ASSUME ~mishap, NEW q \in PoolProcesses, Exists(view[q])
               PROVE  SlotHeld(q)'
    BY <1>1 DEF SlotsFollow
  <2>1. SlotHeld(q)  BY DEF CredInv, SlotsFollow
  <2>2. CASE q = p
    <3>1. inflight[p] = [s \in Tokens |-> 0]
      BY <1>1, <1>3, <2>1, <2>2 DEF SlotHeld
    <3>2. inflight'[p] = [s \in Tokens |-> IF s = token THEN 1 ELSE 0]
      <4>1. \A s \in Tokens : counts[s] = IF s = token THEN 1 ELSE 0
        BY <1>5, <3>1
      <4> QED  BY <1>3, <1>5, <4>1
    <3>3. holder'[p] = token /\ token # -1
      BY <1>2, <1>3, <1>6, CredBounds DEF Tokens
    <3>4. SlotOf(p)' = token /\ Alias(p, token)' = token /\ saving'[p].kind = "none"
      BY <1>1, <1>2 DEF SlotOf, Alias
    <3> QED  BY <1>1, <1>2, <2>2, <3>2, <3>3, <3>4 DEF SlotHeld
  <2>3. CASE q # p
    <3>1. inflight'[q] = inflight[q] /\ holder'[q] = holder[q]
      BY <1>3, <1>5, <1>6, <2>3
    <3> QED  BY <1>1, <2>1, <3>1 DEF SlotHeld, SlotOf, Alias
  <2> QED  BY <2>2, <2>3
<1>9. /\ SavesHold' /\ BasesAreRows' /\ FlightsHaveOwners' /\ RefusalsAreKnown'
      /\ TokensGrow' /\ NewTokensAreNew' /\ AliasesEnd' /\ NewestIsStored' /\ ResultsAreKept'
  BY <1>1 DEF CredInv, SavesHold, SaveHolds, BasesAreRows, FlightsHaveOwners, RefusalsAreKnown,
     TokensGrow, NewTokensAreNew, AliasesEnd, NewestIsStored, ResultsAreKept, InHand, Storing
<1> QED  BY <1>7, <1>8, <1>9 DEF CredInv

\* A result gives the slot back under the token it has now (_record_image_result).
LEMMA SlotGoesBack ==
  ASSUME CredInv, NEW p \in PoolProcesses, RecordResult(p)
  PROVE  /\ saving[p].kind = "none" /\ holder' = [holder EXCEPT ![p] = -1]
         /\ inflight' \in [PoolProcesses -> [Tokens -> Nat]]
         /\ holder' \in [PoolProcesses -> Tokens \cup {-1}]
         /\ \A q \in PoolProcesses : q # p => inflight'[q] = inflight[q] /\ holder'[q] = holder[q]
         /\ holder'[p] = -1
         /\ UNCHANGED <<accountRow, base, upToDate, caller, flights, liveToken, refused,
                        aliases, credited, mishap>>
         /\ Exists(view[p]) /\ ~mishap =>
              /\ inflight'[p] = [s \in Tokens |-> 0]
              /\ view[p].token = Resolve(p, holder[p])
<1>1. /\ saving[p].kind = "none" /\ holder[p] # -1 /\ holder' = [holder EXCEPT ![p] = -1]
      /\ UNCHANGED <<accountRow, base, upToDate, caller, flights, liveToken, refused,
                     aliases, credited, mishap>>
  BY DEF RecordResult, Unlocked, NotSaving
<1>2. /\ inflight \in [PoolProcesses -> [Tokens -> Nat]]
      /\ holder \in [PoolProcesses -> Tokens \cup {-1}] /\ holder[p] \in Tokens
  BY <1>1 DEF CredInv, CredTypes, CredTypeOK
<1>3. PICK token \in Tokens : token = Resolve(p, holder[p]) /\ token = Alias(p, holder[p])
  BY <1>2, Resolved DEF CredInv
<1>4. PICK counts :
        counts = [inflight[p] EXCEPT ![token] = IF @ = 0 THEN 0 ELSE @ - 1]  OBVIOUS
<1>5. /\ counts \in [Tokens -> Nat] /\ inflight' = [inflight EXCEPT ![p] = counts]
      /\ counts[token] = IF inflight[p][token] = 0 THEN 0 ELSE inflight[p][token] - 1
      /\ \A s \in Tokens : s # token => counts[s] = inflight[p][s]
  BY <1>2, <1>3, <1>4 DEF RecordResult
<1>6. /\ inflight' \in [PoolProcesses -> [Tokens -> Nat]]
      /\ holder' \in [PoolProcesses -> Tokens \cup {-1}]
      /\ \A q \in PoolProcesses : q # p => inflight'[q] = inflight[q] /\ holder'[q] = holder[q]
      /\ holder'[p] = -1 /\ inflight'[p] = counts
  BY <1>1, <1>2, <1>5
<1>7. ASSUME Exists(view[p]), ~mishap
      PROVE  inflight'[p] = [s \in Tokens |-> 0] /\ view[p].token = Resolve(p, holder[p])
  <2>1. SlotHeld(p)  BY <1>7 DEF CredInv, SlotsFollow
  <2>2. token = view[p].token  BY <1>1, <1>3, <2>1 DEF SlotHeld
  <2>3. inflight[p] = [s \in Tokens |-> IF s = token THEN 1 ELSE 0]
    BY <1>1, <2>1, <2>2 DEF SlotHeld, SlotOf
  <2>4. \A s \in Tokens : counts[s] = 0  BY <1>5, <2>3
  <2> QED  BY <1>3, <1>5, <1>6, <2>2, <2>4
<1> QED  BY <1>1, <1>6, <1>7

\* An image gives its slot back and its result waits for the save
\* (_record_image_result).
LEMMA CredRecordResult ==
  ASSUME CredInv, NEW p \in PoolProcesses, RecordResult(p)
  PROVE  CredInv'
<1> DEFINE counted == /\ Exists(view[p]) /\ view[p].token = Resolve(p, holder[p])
                      /\ view[p].success < MaxResults
<1>1. /\ saving[p].kind = "none" /\ holder' = [holder EXCEPT ![p] = -1]
      /\ inflight' \in [PoolProcesses -> [Tokens -> Nat]]
      /\ holder' \in [PoolProcesses -> Tokens \cup {-1}]
      /\ \A q \in PoolProcesses : q # p => inflight'[q] = inflight[q] /\ holder'[q] = holder[q]
      /\ holder'[p] = -1
      /\ UNCHANGED <<accountRow, base, upToDate, caller, flights, liveToken, refused,
                     aliases, credited, mishap>>
      /\ Exists(view[p]) /\ ~mishap => inflight'[p] = [s \in Tokens |-> 0]
  BY SlotGoesBack
<1>2. Unlocked(p)  BY DEF RecordResult
<1>3. /\ view \in [PoolProcesses -> Account \cup {NoAccount}]
      /\ saving \in [PoolProcesses -> SaveType]
  BY DEF CredInv, CredTypes, CredTypeOK
<1>4. CASE ~counted
  <2>1. UNCHANGED <<view, saving>>  BY <1>4 DEF RecordResult
  <2>2. CredTypes'
    BY <1>1, <2>1 DEF CredInv, CredTypes, CredTypeOK
  <2>3. SlotsFollow'
    <3> SUFFICES ASSUME ~mishap, NEW q \in PoolProcesses, Exists(view[q])
                 PROVE  SlotHeld(q)'
      BY <1>1, <2>1 DEF SlotsFollow
    <3>1. CASE q = p  BY <1>1, <2>1, <3>1 DEF SlotHeld
    <3>2. CASE q # p
      <4>1. SlotHeld(q)  BY DEF CredInv, SlotsFollow
      <4>2. inflight'[q] = inflight[q] /\ holder'[q] = holder[q]  BY <1>1, <3>2
      <4> QED  BY <1>1, <2>1, <4>1, <4>2 DEF SlotHeld, SlotOf, Alias
    <3> QED  BY <3>1, <3>2
  <2>4. /\ SavesHold' /\ BasesAreRows' /\ FlightsHaveOwners' /\ RefusalsAreKnown'
        /\ TokensGrow' /\ NewTokensAreNew' /\ AliasesEnd' /\ NewestIsStored' /\ ResultsAreKept'
    BY <1>1, <2>1 DEF CredInv, SavesHold, SaveHolds, BasesAreRows, FlightsHaveOwners,
       RefusalsAreKnown, TokensGrow, NewTokensAreNew, AliasesEnd, NewestIsStored,
       ResultsAreKept, InHand, Storing
  <2> QED  BY <2>2, <2>3, <2>4 DEF CredInv
<1>5. CASE counted
  <2>1. PICK v : v = [view[p] EXCEPT !.success = @ + 1]  OBVIOUS
  <2>2. PICK save : save = [NotSaving EXCEPT !.kind = "result"]  OBVIOUS
  <2>3. /\ v \in Account /\ v.token = view[p].token /\ v.success = view[p].success + 1
        /\ Exists(v) /\ view' = [view EXCEPT ![p] = v]
    <3>1. view[p] \in Account  BY <1>3, <1>5, RowFacts
    <3>2. v \in Account /\ v.token = view[p].token /\ v.success = view[p].success + 1
      BY <2>1, <3>1 DEF Account
    <3>3. Exists(v)  BY <3>2, RowFacts
    <3>4. view' = [view EXCEPT ![p].success = @ + 1]  BY <1>5 DEF RecordResult
    <3>5. view' = [view EXCEPT ![p] = v]  BY <1>3, <2>1, <3>1, <3>4 DEF Account
    <3> QED  BY <3>2, <3>3, <3>5
  <2>4. /\ save \in SaveType /\ save.kind = "result" /\ save.by = "none" /\ save.expect = -1
        /\ save.sources = {} /\ saving' = [saving EXCEPT ![p] = save]
    <3>1. 0 \in 0..(SaveAttempts - 1)  BY CredBounds
    <3>2. /\ save.kind = "result" /\ save.by = "none" /\ save.expect = -1 /\ save.tries = 0
          /\ save.sources = {}
          /\ save = [kind |-> save.kind, by |-> save.by, expect |-> save.expect, tries |-> save.tries,
                   sources |-> save.sources]
      BY <2>2 DEF NotSaving
    <3>3. saving' = [saving EXCEPT ![p] = save]  BY <1>5, <2>2 DEF RecordResult
    <3> QED  BY <3>1, <3>2, <3>3 DEF SaveType, SaveKinds
  <2>5. /\ view[p] = base[p] /\ Exists(base[p])
        /\ view'[p] = v /\ saving'[p] = save
        /\ \A q \in PoolProcesses : q # p => view'[q] = view[q] /\ saving'[q] = saving[q]
        /\ view' \in [PoolProcesses -> Account \cup {NoAccount}]
        /\ saving' \in [PoolProcesses -> SaveType]
        /\ BasesAreRows'
    BY <1>1, <1>2, <1>5, <2>3, <2>4, SaveBegins
  <2>6. CredTypes'
    <3>1. \A q \in PoolProcesses : saving'[q].tries < SaveAttempts
      BY <2>5, CredBounds DEF SaveType
    <3> QED  BY <1>1, <2>5, <3>1 DEF CredInv, CredTypes, CredTypeOK
  <2>7. SavesHold'
    <3> SUFFICES ASSUME NEW q \in PoolProcesses  PROVE SaveHolds(q)'
      BY DEF SavesHold
    <3>1. CASE q = p
      BY <1>1, <2>3, <2>4, <2>5, <3>1 DEF SaveHolds
    <3>2. CASE q # p
      BY <1>1, <2>5, <3>2 DEF SaveHolds, CredInv, SavesHold
    <3> QED  BY <3>1, <3>2
  <2>8. \A u \in RefreshThreads : InHand(u)' <=> InHand(u)
    <3> TAKE u \in RefreshThreads
    <3>1. CASE ProcessOf[u] = p
      BY <1>1, <3>1, NobodySaves DEF InHand, Storing
    <3>2. CASE ProcessOf[u] # p
      <4>1. ProcessOf[u] \in PoolProcesses  BY CallerParts
      <4> QED  BY <1>1, <2>5, <3>2, <4>1 DEF InHand, Storing
    <3> QED  BY <3>1, <3>2
  <2>9. FlightsHaveOwners'
    <3>1. \A u \in RefreshThreads : caller[u].pc = "saving" =>
            saving'[ProcessOf[u]] = saving[ProcessOf[u]]
      BY <1>1, <2>5, NobodySaves, CallerParts
    <3> QED  BY <1>1, <3>1 DEF CredInv, FlightsHaveOwners
  <2>10. RefusalsAreKnown'
    BY <1>1, <2>4, <2>5 DEF CredInv, RefusalsAreKnown
  <2>11. TokensGrow' /\ NewTokensAreNew' /\ NewestIsStored' /\ ResultsAreKept'
    BY <1>1, <2>8 DEF CredInv, TokensGrow, NewTokensAreNew, NewestIsStored, ResultsAreKept
  <2>12. AliasesEnd'
    BY <1>1, <2>3, <2>5, <2>8 DEF CredInv, AliasesEnd
  <2>13. SlotsFollow'
    <3> SUFFICES ASSUME ~mishap, NEW q \in PoolProcesses, Exists(view'[q])
                 PROVE  SlotHeld(q)'
      BY <1>1 DEF SlotsFollow
    <3>1. CASE q = p  BY <1>1, <1>5, <2>5, <3>1 DEF SlotHeld
    <3>2. CASE q # p
      <4>1. /\ inflight'[q] = inflight[q] /\ holder'[q] = holder[q]
            /\ view'[q] = view[q] /\ saving'[q] = saving[q]
        BY <1>1, <2>5, <3>2
      <4>2. SlotHeld(q)  BY <4>1 DEF CredInv, SlotsFollow
      <4> QED  BY <1>1, <4>1, <4>2 DEF SlotHeld, SlotOf, Alias
    <3> QED  BY <3>1, <3>2
  <2> QED
    BY <2>5, <2>6, <2>7, <2>9, <2>10, <2>11, <2>12, <2>13 DEF CredInv
<1> QED  BY <1>4, <1>5

\* The administrator deletes the account (delete_accounts).
LEMMA CredDeleteAccount ==
  ASSUME CredInv, NEW p \in PoolProcesses, DeleteAccount(p)
  PROVE  CredInv'
<1>1. /\ saving[p].kind = "none" /\ Unlocked(p) /\ Exists(view[p])
      /\ UNCHANGED <<accountRow, base, upToDate, caller, flights, liveToken, refused,
                     inflight, aliases, holder, credited, mishap>>
  BY DEF DeleteAccount, Unlocked, NotSaving
<1>2. PICK save : save = [NotSaving EXCEPT !.kind = "delete"]  OBVIOUS
<1>3. /\ save \in SaveType /\ save.kind = "delete" /\ save.by = "none" /\ save.expect = -1
      /\ save.sources = {} /\ saving' = [saving EXCEPT ![p] = save]
  <2>1. 0 \in 0..(SaveAttempts - 1)  BY CredBounds
  <2>2. /\ save.kind = "delete" /\ save.by = "none" /\ save.expect = -1 /\ save.tries = 0
        /\ save.sources = {}
        /\ save = [kind |-> save.kind, by |-> save.by, expect |-> save.expect, tries |-> save.tries,
                 sources |-> save.sources]
    BY <1>2 DEF NotSaving
  <2>3. saving' = [saving EXCEPT ![p] = save]  BY <1>2 DEF DeleteAccount
  <2> QED  BY <2>1, <2>2, <2>3 DEF SaveType, SaveKinds
<1>4. NoAccount \in Account \cup {NoAccount} /\ ~Exists(NoAccount)
  BY RowFacts
<1>5. view' = [view EXCEPT ![p] = NoAccount]  BY DEF DeleteAccount
<1>6. /\ view[p] = base[p] /\ Exists(base[p])
      /\ view'[p] = NoAccount /\ saving'[p] = save
      /\ \A q \in PoolProcesses : q # p => view'[q] = view[q] /\ saving'[q] = saving[q]
      /\ view' \in [PoolProcesses -> Account \cup {NoAccount}]
      /\ saving' \in [PoolProcesses -> SaveType]
      /\ BasesAreRows'
  BY <1>1, <1>3, <1>4, <1>5, SaveBegins
<1>7. CredTypes'
  <2>1. \A q \in PoolProcesses : saving'[q].tries < SaveAttempts
    BY <1>6, CredBounds DEF SaveType
  <2> QED  BY <1>1, <1>6, <2>1 DEF CredInv, CredTypes, CredTypeOK
<1>8. SavesHold'
  <2> SUFFICES ASSUME NEW q \in PoolProcesses  PROVE SaveHolds(q)'
    BY DEF SavesHold
  <2>1. CASE q = p  BY <1>1, <1>3, <1>4, <1>6, <2>1 DEF SaveHolds
  <2>2. CASE q # p
    BY <1>1, <1>6, <2>2 DEF SaveHolds, CredInv, SavesHold
  <2> QED  BY <2>1, <2>2
<1>9. \A u \in RefreshThreads : InHand(u)' <=> InHand(u)
  <2> TAKE u \in RefreshThreads
  <2>1. CASE ProcessOf[u] = p
    BY <1>1, <2>1, NobodySaves DEF InHand, Storing
  <2>2. CASE ProcessOf[u] # p
    <3>1. ProcessOf[u] \in PoolProcesses  BY CallerParts
    <3> QED  BY <1>1, <1>6, <2>2, <3>1 DEF InHand, Storing
  <2> QED  BY <2>1, <2>2
<1>10. FlightsHaveOwners'
  <2>1. \A u \in RefreshThreads : caller[u].pc = "saving" =>
          saving'[ProcessOf[u]] = saving[ProcessOf[u]]
    BY <1>1, <1>6, NobodySaves, CallerParts
  <2> QED  BY <1>1, <2>1 DEF CredInv, FlightsHaveOwners
<1>11. RefusalsAreKnown'
  BY <1>1, <1>3, <1>6 DEF CredInv, RefusalsAreKnown
<1>12. TokensGrow' /\ NewTokensAreNew' /\ NewestIsStored' /\ ResultsAreKept'
  BY <1>1, <1>9 DEF CredInv, TokensGrow, NewTokensAreNew, NewestIsStored, ResultsAreKept
<1>13. AliasesEnd'
  BY <1>1, <1>4, <1>6, <1>9 DEF CredInv, AliasesEnd
<1>14. SlotsFollow'
  <2> SUFFICES ASSUME ~mishap, NEW q \in PoolProcesses, Exists(view'[q])
               PROVE  SlotHeld(q)'
    BY <1>1 DEF SlotsFollow
  <2>1. q # p  BY <1>4, <1>6
  <2> QED  BY <1>1, <1>6, <2>1 DEF SlotHeld, SlotOf, Alias, CredInv, SlotsFollow
<1> QED
  BY <1>6, <1>7, <1>8, <1>10, <1>11, <1>12, <1>13, <1>14 DEF CredInv

\* Aliases move with their token and still end after one step
\* (_move_account_runtime_token_locked).
LEMMA AliasesMove ==
  ASSUME CredTypes, AliasesEnd, NEW p \in PoolProcesses, NEW new \in Tokens,
         NEW roots \in SUBSET Tokens, aliases[p][new] = new,
         NEW sources, sources = StandingFor(p, roots)
  PROVE  /\ MovedAliases(p, new, sources) \in [Tokens -> Tokens]
         /\ MovedAliases(p, new, sources)[new] = new
         /\ \A s \in Tokens :
              /\ MovedAliases(p, new, sources)[MovedAliases(p, new, sources)[s]]
                   = MovedAliases(p, new, sources)[s]
              /\ MovedAliases(p, new, sources)[s] # s =>
                   aliases[p][s] # s \/ s \in roots \ {new}
              /\ s \in sources => MovedAliases(p, new, sources)[s] = new
<1>1. aliases[p] \in [Tokens -> Tokens]  BY DEF CredTypes, CredTypeOK
<1>2. /\ \A s \in Tokens : aliases[p][aliases[p][s]] = aliases[p][s]
      /\ \A s \in Tokens : s \in sources <=> s \in roots \/ aliases[p][s] \in roots
  BY DEF AliasesEnd, StandingFor
<1>3. PICK moved : moved = MovedAliases(p, new, sources)  OBVIOUS
<1>4. /\ moved \in [Tokens -> Tokens]
      /\ \A s \in Tokens : moved[s] = IF s \in sources \ {new} THEN new ELSE aliases[p][s]
  BY <1>1, <1>3 DEF MovedAliases
<1>5. moved[new] = new  BY <1>4
<1>6. ASSUME NEW s \in Tokens
      PROVE  /\ moved[moved[s]] = moved[s]
             /\ moved[s] # s => aliases[p][s] # s \/ s \in roots \ {new}
             /\ s \in sources => moved[s] = new
  <2>1. CASE s \in sources /\ s # new
    <3>1. moved[s] = new  BY <1>4, <2>1
    <3>2. aliases[p][s] # s \/ s \in roots \ {new}  BY <1>2, <2>1
    <3> QED  BY <1>5, <3>1, <3>2
  <2>2. CASE s = new  BY <1>4, <1>5, <2>2
  <2>3. CASE s \notin sources /\ s # new
    <3>1. moved[s] = aliases[p][s] /\ aliases[p][s] \in Tokens  BY <1>1, <1>4, <2>3
    <3>2. aliases[p][s] \notin sources  BY <1>2, <2>3, <3>1
    <3> QED  BY <1>2, <1>4, <2>3, <3>1, <3>2
  <2> QED  BY <2>1, <2>2, <2>3
<1> QED  BY <1>3, <1>4, <1>5, <1>6

\* The thread that saved goes on (After).
LEMMA SaverGoesOn ==
  ASSUME CredInv, NEW p \in PoolProcesses, saving[p].kind # "none", NEW result,
         After(saving[p], result)
  PROVE  \/ /\ saving[p].kind \in {"result", "delete"} /\ UNCHANGED <<caller, flights>>
         \/ \E t \in RefreshThreads, key \in Tokens, c \in CallerType, state \in FlightStates :
              /\ saving[p].kind \in {"refresh", "terminal"} /\ saving[p].by = t
              /\ ProcessOf[t] = p /\ caller[t].pc = "saving"
              /\ caller[t].key = key /\ saving[p].expect = key
              /\ caller' = [caller EXCEPT ![t] = c]
              /\ flights' = [flights EXCEPT ![p][key] = state]
              /\ caller[t].owner => /\ c.owner /\ c.pc = "closing" /\ c.key = key
                                    /\ state \notin {"none", "open"}
              /\ ~caller[t].owner => /\ ~c.owner /\ c.pc = "idle" /\ c.key = 0
                                     /\ state = flights[p][key]
              /\ state = "refused" => flights[p][key] = "refused"
              /\ saving[p].kind = "refresh" => caller[t].owner
<1>1. /\ saving \in [PoolProcesses -> SaveType] /\ caller \in [RefreshThreads -> CallerType]
      /\ flights \in [PoolProcesses -> [Tokens -> FlightStates]]
  BY DEF CredInv, CredTypes, CredTypeOK, FlightStates
<1>2. SaveHolds(p)  BY DEF CredInv, SavesHold
<1>3. CASE saving[p].kind \in {"result", "delete"}
  <2>1. saving[p].by = "none" /\ saving[p].kind # "refresh"  BY <1>2, <1>3 DEF SaveHolds
  <2> QED  BY <1>3, <2>1 DEF After
<1>4. CASE saving[p].kind \in {"refresh", "terminal"}
  <2>1. PICK t \in RefreshThreads, key \in Tokens :
          /\ saving[p].by = t /\ ProcessOf[t] = p /\ caller[t].pc = "saving"
          /\ caller[t].key = key /\ saving[p].expect = key
          /\ saving[p].kind = "refresh" => caller[t].owner
    BY <1>1, <1>2, <1>4, CallerParts DEF SaveHolds
  <2>2. PICK c : c = IF caller[t].owner THEN [caller[t] EXCEPT !.pc = "closing"] ELSE IdleCaller
    OBVIOUS
  <2>3. /\ c \in CallerType
        /\ caller[t].owner => c.owner /\ c.pc = "closing" /\ c.key = key
        /\ ~caller[t].owner => ~c.owner /\ c.pc = "idle" /\ c.key = 0
    <3>1. 0 \in Tokens  BY CredBounds DEF Tokens
    <3> QED  BY <2>1, <2>2, <3>1, CallerParts DEF CallerType, CallerPcs, IdleCaller
  <2>4. caller' = [caller EXCEPT ![t] = c]
    <3>1. saving[p].by # "none"  BY <2>1, CredBounds
    <3>2. caller' = [caller EXCEPT ![t] =
                       IF @.owner THEN [@ EXCEPT !.pc = "closing"] ELSE IdleCaller]
      BY <2>1, <3>1 DEF After
    <3> QED  BY <1>1, <2>2, <3>2
  <2>5. caller[t].owner =>
          /\ flights[p][key] # "none"
          /\ saving[p].kind = "terminal" => flights[p][key] # "open"
    BY <2>1 DEF CredInv, FlightsHaveOwners
  <2>6. flights[p][key] \in FlightStates  BY <1>1
  <2>7. CASE saving[p].kind = "refresh"
    <3>1. flights' = [flights EXCEPT ![p][key] = "done"]  BY <2>1, <2>7 DEF After
    <3>2. "done" \in FlightStates  BY DEF FlightStates
    <3> QED  BY <2>1, <2>3, <2>4, <2>7, <3>1, <3>2
  <2>8. CASE saving[p].kind = "terminal"
    <3>1. PICK state \in FlightStates : state = flights[p][key]  BY <2>6
    <3>2. flights' = flights  BY <2>8 DEF After
    <3>3. flights' = [flights EXCEPT ![p][key] = state]  BY <1>1, <3>1, <3>2
    <3> QED  BY <2>1, <2>3, <2>4, <2>5, <2>8, <3>1, <3>3
  <2> QED  BY <1>4, <2>7, <2>8
<1> QED  BY <1>1, <1>3, <1>4 DEF SaveType, SaveKinds

\* What a save leaves to the threads when it ends.
LEMMA SaveEnds ==
  ASSUME CredInv, NEW p \in PoolProcesses, saving[p].kind # "none", NEW result,
         After(saving[p], result), saving' = [saving EXCEPT ![p] = NotSaving],
         UNCHANGED refused
  PROVE  /\ caller' \in [RefreshThreads -> CallerType]
         /\ flights' \in [PoolProcesses -> [Tokens -> FlightStates]]
         /\ saving' \in [PoolProcesses -> SaveType] /\ saving'[p] = NotSaving
         /\ \A q \in PoolProcesses : q # p => saving'[q] = saving[q]
         /\ \A u \in RefreshThreads :
              /\ ProcessOf[u] # p => caller'[u] = caller[u]
              /\ caller'[u].key \in {caller[u].key, 0}
              /\ InHand(u)' => InHand(u) /\ caller'[u] = caller[u]
              /\ saving[p].kind = "refresh" /\ u = saving[p].by => InHand(u) /\ ~InHand(u)'
              /\ saving[p].kind # "refresh" \/ u # saving[p].by => (InHand(u)' <=> InHand(u))
         /\ FlightsHaveOwners' /\ RefusalsAreKnown'
<1>1. /\ saving \in [PoolProcesses -> SaveType] /\ caller \in [RefreshThreads -> CallerType]
      /\ flights \in [PoolProcesses -> [Tokens -> FlightStates]]
  BY DEF CredInv, CredTypes, CredTypeOK, FlightStates
<1>2. NotSaving \in SaveType
  <2>1. 0 \in 0..(SaveAttempts - 1)  BY CredBounds
  <2> QED  BY <2>1 DEF NotSaving, SaveType, SaveKinds
<1>3. /\ saving' \in [PoolProcesses -> SaveType] /\ saving'[p] = NotSaving
      /\ saving'[p].kind = "none" /\ \A q \in PoolProcesses : q # p => saving'[q] = saving[q]
  <2>1. saving' \in [PoolProcesses -> SaveType] /\ saving'[p] = NotSaving
    BY <1>1, <1>2
  <2> QED  BY <1>1, <2>1 DEF NotSaving
<1>4. \A u \in RefreshThreads : caller[u].pc = "saving" /\ ProcessOf[u] = p =>
        saving[p].kind \in {"refresh", "terminal"} /\ saving[p].by = u
  BY DEF CredInv, FlightsHaveOwners
<1>5. FlightsHaveOwners /\ RefusalsAreKnown  BY DEF CredInv
<1>6. CASE saving[p].kind \in {"result", "delete"} /\ UNCHANGED <<caller, flights>>
  <2>1. \A u \in RefreshThreads : caller[u].pc = "saving" => ProcessOf[u] # p
    BY <1>4, <1>6
  <2>2. \A u \in RefreshThreads : caller[u].pc = "saving" =>
          saving'[ProcessOf[u]] = saving[ProcessOf[u]]
    BY <1>3, <2>1, CallerParts
  <2>3. \A u \in RefreshThreads : InHand(u)' <=> InHand(u)
    BY <1>6, <2>2 DEF InHand, Storing
  <2>4. FlightsHaveOwners'  BY <1>5, <1>6, <2>2 DEF FlightsHaveOwners
  <2>5. RefusalsAreKnown'  BY <1>3, <1>5, <1>6 DEF RefusalsAreKnown
  <2> QED  BY <1>1, <1>3, <1>6, <2>3, <2>4, <2>5
<1>7. CASE saving[p].kind \in {"refresh", "terminal"}
  <2>1. PICK t \in RefreshThreads, key \in Tokens, c \in CallerType, state \in FlightStates :
          /\ saving[p].by = t /\ ProcessOf[t] = p /\ caller[t].pc = "saving"
          /\ caller[t].key = key /\ saving[p].expect = key
          /\ caller' = [caller EXCEPT ![t] = c]
          /\ flights' = [flights EXCEPT ![p][key] = state]
          /\ caller[t].owner => /\ c.owner /\ c.pc = "closing" /\ c.key = key
                                /\ state \notin {"none", "open"}
          /\ ~caller[t].owner => /\ ~c.owner /\ c.pc = "idle" /\ c.key = 0
                                 /\ state = flights[p][key]
          /\ state = "refused" => flights[p][key] = "refused"
          /\ saving[p].kind = "refresh" => caller[t].owner
    BY <1>7, SaverGoesOn
  <2>2. /\ caller'[t] = c /\ \A u \in RefreshThreads : u # t => caller'[u] = caller[u]
        /\ caller' \in [RefreshThreads -> CallerType]
        /\ c.pc \in {"closing", "idle"} /\ c.owner = caller[t].owner /\ c.key \in {key, 0}
        /\ c.owner => c.key = key
    <3>1. c.owner \in BOOLEAN /\ caller[t].owner \in BOOLEAN  BY CallerParts DEF CallerType
    <3> QED  BY <1>1, <2>1, <3>1
  <2>3. /\ flights' \in [PoolProcesses -> [Tokens -> FlightStates]]
        /\ flights'[p][key] = state
        /\ \A q \in PoolProcesses, k \in Tokens :
             q # p \/ k # key => flights'[q][k] = flights[q][k]
    BY <1>1, <2>1
  <2>4. \A u \in RefreshThreads : u # t /\ caller[u].pc = "saving" =>
          ProcessOf[u] # p /\ saving'[ProcessOf[u]] = saving[ProcessOf[u]]
    BY <1>3, <1>4, <2>1, CallerParts
  <2>5. ASSUME NEW u \in RefreshThreads
        PROVE  /\ ProcessOf[u] # p => caller'[u] = caller[u]
               /\ caller'[u].key \in {caller[u].key, 0}
               /\ InHand(u)' => InHand(u) /\ caller'[u] = caller[u]
               /\ saving[p].kind = "refresh" /\ u = saving[p].by => InHand(u) /\ ~InHand(u)'
               /\ saving[p].kind # "refresh" \/ u # saving[p].by => (InHand(u)' <=> InHand(u))
    <3>1. CASE u = t  BY <2>1, <2>2, <3>1 DEF InHand, Storing
    <3>2. CASE u # t  BY <2>1, <2>2, <2>4, <3>2 DEF InHand, Storing
    <3> QED  BY <3>1, <3>2
  <2>6. FlightsHaveOwners'
    <3>1. \A u \in RefreshThreads : u # t /\ caller[u].owner /\ ProcessOf[u] = p /\ caller[t].owner
            => caller[u].key # key
      BY <1>5, <2>1 DEF FlightsHaveOwners
    <3>2. ASSUME NEW u \in RefreshThreads
          PROVE  /\ caller'[u].pc \in OwnerPcs => caller'[u].owner
                 /\ caller'[u].pc \in {"idle", "keyed", "waiting"} => ~caller'[u].owner
                 /\ caller'[u].owner => flights'[ProcessOf[u]][caller'[u].key] # "none"
                 /\ caller'[u].pc \in {"exchange", "answered", "refused"} =>
                      flights'[ProcessOf[u]][caller'[u].key] = "open"
                 /\ caller'[u].owner /\ caller'[u].pc \in {"closing", "terminal"} =>
                      flights'[ProcessOf[u]][caller'[u].key] # "open"
                 /\ caller'[u].pc = "saving" =>
                      /\ saving'[ProcessOf[u]].kind \in {"refresh", "terminal"}
                      /\ saving'[ProcessOf[u]].by = u
                      /\ caller'[u].owner /\ saving'[ProcessOf[u]].kind = "terminal" =>
                           flights'[ProcessOf[u]][caller'[u].key] # "open"
      <4>1. CASE u = t
        BY <2>1, <2>2, <2>3, <4>1 DEF OwnerPcs
      <4>2. CASE u # t
        <5>1. caller'[u] = caller[u] /\ caller[u].key \in Tokens /\ ProcessOf[u] \in PoolProcesses
          BY <2>2, <4>2, CallerParts
        <5>2. caller[u].owner => flights'[ProcessOf[u]][caller[u].key] = flights[ProcessOf[u]][caller[u].key]
          <6>1. CASE caller[t].owner  BY <2>3, <3>1, <4>2, <5>1, <6>1
          <6>2. CASE ~caller[t].owner  BY <2>1, <2>3, <5>1, <6>2
          <6> QED  BY <6>1, <6>2
        <5> QED  BY <1>5, <2>4, <4>2, <5>1, <5>2 DEF FlightsHaveOwners, OwnerPcs
      <4> QED  BY <4>1, <4>2
    <3>3. \A u, w \in RefreshThreads :
            /\ caller'[u].owner /\ caller'[w].owner /\ ProcessOf[u] = ProcessOf[w]
            /\ caller'[u].key = caller'[w].key
            => u = w
      BY <1>5, <2>1, <2>2 DEF FlightsHaveOwners
    <3>4. ASSUME NEW q \in PoolProcesses, NEW l \in Tokens, flights'[q][l] # "none"
          PROVE  \E u \in RefreshThreads :
                   caller'[u].owner /\ ProcessOf[u] = q /\ caller'[u].key = l
      <4>1. CASE q = p /\ l = key /\ caller[t].owner  BY <2>1, <2>2, <4>1
      <4>2. CASE ~(q = p /\ l = key /\ caller[t].owner)
        <5>1. flights[q][l] # "none"  BY <2>1, <2>3, <3>4, <4>2
        <5>2. PICK u \in RefreshThreads : caller[u].owner /\ ProcessOf[u] = q /\ caller[u].key = l
          BY <1>5, <5>1 DEF FlightsHaveOwners
        <5>3. u # t  BY <2>1, <4>2, <5>2
        <5> QED  BY <2>2, <5>2, <5>3
      <4> QED  BY <4>1, <4>2
    <3> QED  BY <3>2, <3>3, <3>4 DEF FlightsHaveOwners
  <2>7. RefusalsAreKnown'
    <3>1. \A u \in RefreshThreads : caller'[u].pc \in {"refused", "terminal"} => caller'[u].key \in refused
      BY <1>5, <2>2 DEF RefusalsAreKnown
    <3>2. \A q \in PoolProcesses : \A k \in Tokens : flights'[q][k] = "refused" => k \in refused
      BY <1>5, <2>1, <2>3 DEF RefusalsAreKnown
    <3>3. \A q \in PoolProcesses : saving'[q].kind = "terminal" => saving'[q].expect \in refused
      BY <1>3, <1>5 DEF RefusalsAreKnown
    <3> QED  BY <3>1, <3>2, <3>3 DEF RefusalsAreKnown
  <2> QED  BY <1>3, <2>2, <2>3, <2>5, <2>6, <2>7
<1>8. \/ saving[p].kind \in {"result", "delete"} /\ UNCHANGED <<caller, flights>>
      \/ saving[p].kind \in {"refresh", "terminal"}
  BY SaverGoesOn
<1> QED  BY <1>6, <1>7, <1>8

\* What a process that saves writes: nothing, or its view over the row it knows.
LEMMA SaveWrites ==
  ASSUME CredInv, NEW p \in PoolProcesses, SaveCommits(p)
  PROVE  /\ saving[p].kind # "none" /\ saving' = [saving EXCEPT ![p] = NotSaving]
         /\ UNCHANGED <<view, liveToken, refused, holder>>
         /\ base' = [base EXCEPT ![p] = view[p]]
         /\ base' \in [PoolProcesses -> Account \cup {NoAccount}]
         /\ base'[p] = view[p] /\ \A q \in PoolProcesses : q # p => base'[q] = base[q]
         /\ accountRow' \in Account \cup {NoAccount} /\ upToDate' \subseteq PoolProcesses
         /\ \/ view[p] = base[p] /\ UNCHANGED <<accountRow, upToDate, base>>
            \/ base[p] = accountRow /\ accountRow' = view[p] /\ upToDate' = {p}
         /\ BasesAreRows' /\ SaveHolds(p)
<1>1. /\ view \in [PoolProcesses -> Account \cup {NoAccount}]
      /\ base \in [PoolProcesses -> Account \cup {NoAccount}]
      /\ accountRow \in Account \cup {NoAccount} /\ upToDate \subseteq PoolProcesses
  BY DEF CredInv, CredTypes, CredTypeOK
<1>2. SaveHolds(p) /\ BasesAreRows  BY DEF CredInv, SavesHold
<1>3. /\ saving[p].kind # "none" /\ saving' = [saving EXCEPT ![p] = NotSaving]
      /\ UNCHANGED <<view, liveToken, refused, holder>>
      /\ base' = [base EXCEPT ![p] = view[p]]
  BY DEF SaveCommits
<1>4. /\ base' \in [PoolProcesses -> Account \cup {NoAccount}]
      /\ base'[p] = view[p] /\ \A q \in PoolProcesses : q # p => base'[q] = base[q]
  BY <1>1, <1>3
<1>5. CASE view[p] = base[p]
  <2>1. UNCHANGED <<accountRow, upToDate>>  BY <1>5 DEF SaveCommits
  <2>2. base' = base  BY <1>1, <1>3, <1>5
  <2>3. BasesAreRows'  BY <1>2, <2>1, <2>2 DEF BasesAreRows
  <2> QED  BY <1>1, <1>2, <1>3, <1>4, <1>5, <2>1, <2>2, <2>3
<1>6. CASE view[p] # base[p]
  <2>1. p \in upToDate /\ accountRow' = view[p] /\ upToDate' = {p}
    BY <1>6 DEF SaveCommits
  <2>2. base[p] = accountRow  BY <1>2, <2>1 DEF BasesAreRows
  <2>3. Exists(view[p]) => Exists(accountRow)  BY <1>2, <2>2 DEF SaveHolds
  <2>4. BasesAreRows'  BY <1>2, <1>4, <2>1, <2>3 DEF BasesAreRows
  <2> QED  BY <1>1, <1>2, <1>3, <1>4, <2>1, <2>2, <2>4
<1> QED  BY <1>5, <1>6

\* The new tokens are stored (_apply_refreshed_tokens, its save through).
LEMMA CredTokensStored ==
  ASSUME CredInv, NEW p \in PoolProcesses, SaveCommits(p), saving[p].kind = "refresh"
  PROVE  CredInv'
<1>1. /\ saving' = [saving EXCEPT ![p] = NotSaving]
      /\ UNCHANGED <<view, liveToken, refused, holder>>
      /\ base' \in [PoolProcesses -> Account \cup {NoAccount}]
      /\ base'[p] = view[p] /\ \A q \in PoolProcesses : q # p => base'[q] = base[q]
      /\ accountRow' \in Account \cup {NoAccount} /\ upToDate' \subseteq PoolProcesses
      /\ \/ view[p] = base[p] /\ UNCHANGED <<accountRow, upToDate, base>>
         \/ base[p] = accountRow /\ accountRow' = view[p] /\ upToDate' = {p}
      /\ BasesAreRows' /\ SaveHolds(p)
  BY SaveWrites
<1>2. PICK result : After(saving[p], result) /\ result \in {"saved", "gone"}
  BY DEF SaveCommits
<1>3. /\ caller' \in [RefreshThreads -> CallerType]
      /\ flights' \in [PoolProcesses -> [Tokens -> FlightStates]]
      /\ saving' \in [PoolProcesses -> SaveType] /\ saving'[p] = NotSaving
      /\ \A q \in PoolProcesses : q # p => saving'[q] = saving[q]
      /\ \A u \in RefreshThreads :
           /\ ProcessOf[u] # p => caller'[u] = caller[u]
           /\ caller'[u].key \in {caller[u].key, 0}
           /\ InHand(u)' => InHand(u) /\ caller'[u] = caller[u]
           /\ u = saving[p].by => InHand(u) /\ ~InHand(u)'
           /\ u # saving[p].by => (InHand(u)' <=> InHand(u))
      /\ FlightsHaveOwners' /\ RefusalsAreKnown'
  BY <1>1, <1>2, SaveEnds
<1>4. /\ view \in [PoolProcesses -> Account \cup {NoAccount}]
      /\ base \in [PoolProcesses -> Account \cup {NoAccount}]
      /\ accountRow \in Account \cup {NoAccount}
      /\ caller \in [RefreshThreads -> CallerType] /\ saving \in [PoolProcesses -> SaveType]
      /\ aliases \in [PoolProcesses -> [Tokens -> Tokens]]
      /\ inflight \in [PoolProcesses -> [Tokens -> Nat]]
      /\ holder \in [PoolProcesses -> Tokens \cup {-1}]
  BY DEF CredInv, CredTypes, CredTypeOK
<1>5. PICK t \in RefreshThreads, key \in Tokens, new \in Tokens :
        /\ saving[p].by = t /\ ProcessOf[t] = p /\ saving[p].expect = key
        /\ caller[t].key = key /\ caller[t].new = new
        /\ view[p].token = new /\ base[p].token = key /\ InHand(t)
        /\ saving[p].sources = {s \in Tokens : s = key \/ aliases[p][s] = key}
        /\ Exists(view[p]) /\ Exists(base[p]) /\ view[p].success = base[p].success
  <2>1. saving[p].by \in RefreshThreads /\ Exists(view[p])
    BY <1>1 DEF SaveHolds
  <2>2. InHand(saving[p].by)  BY <1>3, <2>1
  <2> QED  BY <1>1, <2>1, <2>2, CallerParts DEF SaveHolds
<1>6. key \in Nat /\ new = key + 1 /\ new <= liveToken /\ liveToken \in Nat
  BY <1>5, CallerParts, CredBounds DEF CredInv, TokensGrow, Tokens
<1>7. /\ base[p] = accountRow /\ accountRow' = view[p] /\ upToDate' = {p}
      /\ Exists(accountRow) /\ Exists(accountRow')
      /\ accountRow.token = key /\ accountRow'.token = new
  <2>1. view[p] # base[p]  BY <1>5, <1>6
  <2> QED  BY <1>1, <1>5, <2>1
<1>8. UNCHANGED mishap /\ UNCHANGED credited
  <2>1. saving[p].kind # "result"  OBVIOUS
  <2>2. credited' = credited  BY <1>2, <2>1 DEF After
  <2>3. mishap' = (mishap \/ result = "failed") /\ result # "failed"  BY <1>2 DEF After
  <2>4. mishap \in BOOLEAN  BY DEF CredInv, CredTypes
  <2>5. mishap' = mishap  BY <2>3, <2>4
  <2> QED  BY <2>2, <2>5
<1>9. /\ \A u \in RefreshThreads : InHand(u)' => u # t /\ InHand(u)
      /\ \A u \in RefreshThreads : u # t => (InHand(u)' <=> InHand(u))
  BY <1>3, <1>5
<1>10. aliases[p][new] = new  BY <1>5 DEF CredInv, AliasesEnd
<1>11. PICK moved : moved = MovedAliases(p, new, saving[p].sources)  OBVIOUS
<1>12. /\ moved \in [Tokens -> Tokens] /\ moved[new] = new
       /\ \A s \in Tokens :
            /\ moved[moved[s]] = moved[s]
            /\ moved[s] # s => aliases[p][s] # s \/ s = key
            /\ s \in saving[p].sources => moved[s] = new
  <2>1. PICK roots \in SUBSET Tokens : roots = {key}  BY <1>5
  <2>2. PICK sources : sources = saving[p].sources  OBVIOUS
  <2>3. sources = StandingFor(p, roots)
    BY <1>5, <2>1, <2>2 DEF StandingFor
  <2>4. CredTypes /\ AliasesEnd  BY DEF CredInv
  <2>5. /\ MovedAliases(p, new, sources) \in [Tokens -> Tokens]
        /\ MovedAliases(p, new, sources)[new] = new
        /\ \A s \in Tokens :
             /\ MovedAliases(p, new, sources)[MovedAliases(p, new, sources)[s]]
                  = MovedAliases(p, new, sources)[s]
             /\ MovedAliases(p, new, sources)[s] # s =>
                  aliases[p][s] # s \/ s \in roots \ {new}
             /\ s \in sources => MovedAliases(p, new, sources)[s] = new
    BY <1>10, <2>3, <2>4, AliasesMove
  <2>6. moved = MovedAliases(p, new, sources)  BY <1>11, <2>2
  <2> QED  BY <2>1, <2>2, <2>5, <2>6
<1>13. /\ aliases' = [aliases EXCEPT ![p] = moved]
       /\ inflight' = [inflight EXCEPT ![p] = MovedInflight(p, new, saving[p].sources)]
  BY <1>5, <1>11 DEF SaveCommits, FollowToken
<1>14. /\ aliases'[p] = moved /\ \A q \in PoolProcesses : q # p => aliases'[q] = aliases[q]
       /\ aliases' \in [PoolProcesses -> [Tokens -> Tokens]]
  BY <1>4, <1>12, <1>13
<1>15. /\ inflight'[p] = MovedInflight(p, new, saving[p].sources)
       /\ \A q \in PoolProcesses : q # p => inflight'[q] = inflight[q]
       /\ inflight' \in [PoolProcesses -> [Tokens -> Nat]]
  <2>1. saving[p].sources \in SUBSET Tokens  BY <1>5
  <2>2. MovedInflight(p, new, saving[p].sources) \in [Tokens -> Nat]
    BY <2>1, MovedCounts DEF CredInv
  <2> QED  BY <1>4, <1>13, <2>2
<1>16. CredTypes'
  <2>1. \A q \in PoolProcesses : saving'[q].tries < SaveAttempts
    BY <1>3, CredBounds DEF SaveType
  <2> QED
    BY <1>1, <1>3, <1>8, <1>14, <1>15, <2>1 DEF CredInv, CredTypes, CredTypeOK, FlightStates
<1>17. SavesHold'
  <2> SUFFICES ASSUME NEW q \in PoolProcesses  PROVE SaveHolds(q)'
    BY DEF SavesHold
  <2>1. CASE q = p  BY <1>1, <1>3, <1>5, <2>1 DEF SaveHolds, NotSaving
  <2>2. CASE q # p
    <3>1. SaveHolds(q)  BY DEF CredInv, SavesHold
    <3>2. saving[q].kind \in {"refresh", "terminal"} =>
            caller'[saving[q].by] = caller[saving[q].by]
      BY <1>3, <2>2, <3>1 DEF SaveHolds
    <3> QED  BY <1>1, <1>3, <1>14, <2>2, <3>1, <3>2 DEF SaveHolds
  <2> QED  BY <2>1, <2>2
<1>18. \A u \in RefreshThreads :
         /\ caller[u].key \in Tokens /\ caller[u].new \in Tokens
         /\ caller[u].key <= key
  BY <1>7, CallerParts DEF CredInv, TokensGrow
<1>19. TokensGrow'
  <2>1. \A q \in PoolProcesses :
          base'[q].token <= liveToken /\ base'[q].token <= accountRow'.token
    <3> TAKE q \in PoolProcesses
    <3>1. base[q].token <= liveToken /\ base[q].token <= key /\ base[q].token \in Int
      BY <1>4, <1>7, RowFacts DEF CredInv, TokensGrow
    <3> QED  BY <1>1, <1>5, <1>6, <1>7, <3>1
  <2>2. \A u \in RefreshThreads :
          /\ caller'[u].key <= liveToken /\ caller'[u].key <= accountRow'.token
          /\ Exists(base'[ProcessOf[u]]) => caller'[u].key <= base'[ProcessOf[u]].token
    <3> TAKE u \in RefreshThreads
    <3>1. caller[u].key \in Nat /\ caller'[u].key \in {caller[u].key, 0} /\ caller[u].key <= key
      BY <1>3, <1>18, CredBounds DEF Tokens
    <3>2. ASSUME Exists(base'[ProcessOf[u]])
          PROVE  caller'[u].key <= base'[ProcessOf[u]].token
      <4>1. CASE ProcessOf[u] = p  BY <1>1, <1>5, <1>6, <3>1, <4>1
      <4>2. CASE ProcessOf[u] # p
        <5>1. base'[ProcessOf[u]] = base[ProcessOf[u]] /\ caller'[u] = caller[u]
          BY <1>1, <1>3, <4>2, CallerParts
        <5> QED  BY <3>2, <5>1 DEF CredInv, TokensGrow
      <4> QED  BY <4>1, <4>2
    <3> QED  BY <1>6, <1>7, <3>1, <3>2
  <2>3. \A u \in RefreshThreads : InHand(u)' =>
          caller'[u].new = caller'[u].key + 1 /\ caller'[u].new <= liveToken
    BY <1>3 DEF CredInv, TokensGrow
  <2>4. accountRow'.token <= liveToken'  BY <1>1, <1>6, <1>7
  <2> QED  BY <1>1, <2>1, <2>2, <2>3, <2>4 DEF TokensGrow
<1>20. \A u \in RefreshThreads : InHand(u)' =>
         /\ caller'[u] = caller[u] /\ InHand(u) /\ caller[u].new # new
         /\ caller[u].new # 0 /\ caller[u].key # key
  <2> TAKE u \in RefreshThreads
  <2> HAVE InHand(u)'
  <2>1. u # t /\ InHand(u) /\ caller'[u] = caller[u]  BY <1>3, <1>9
  <2>2. caller[u].key # key  BY <1>5, <2>1 DEF CredInv, NewTokensAreNew
  <2>3. caller[u].new = caller[u].key + 1 /\ caller[u].key \in Nat
    BY <1>18, <2>1, CredBounds DEF CredInv, TokensGrow, Tokens
  <2> QED  BY <1>6, <2>1, <2>2, <2>3
<1>21. NewTokensAreNew'
  <2> SUFFICES ASSUME NEW u \in RefreshThreads, InHand(u)'
               PROVE  /\ accountRow'.token # caller'[u].new
                      /\ \A q \in PoolProcesses : base'[q].token # caller'[u].new
                      /\ \A w \in RefreshThreads \ {u} :
                           InHand(w)' => caller'[w].key # caller'[u].key
                      /\ \A w \in RefreshThreads : caller'[w].key # caller'[u].new
    BY DEF NewTokensAreNew
  <2>1. /\ \A q \in PoolProcesses : base[q].token # caller[u].new
        /\ \A w \in RefreshThreads \ {u} : InHand(w) => caller[w].key # caller[u].key
        /\ \A w \in RefreshThreads : caller[w].key # caller[u].new
    BY <1>20 DEF CredInv, NewTokensAreNew
  <2>2. caller'[u] = caller[u] /\ caller[u].new # new /\ caller[u].new # 0
    BY <1>20
  <2>3. accountRow'.token # caller'[u].new  BY <1>7, <2>2
  <2>4. \A q \in PoolProcesses : base'[q].token # caller'[u].new
    BY <1>1, <1>5, <2>1, <2>2
  <2>5. \A w \in RefreshThreads \ {u} : InHand(w)' => caller'[w].key # caller'[u].key
    BY <1>20, <2>1, <2>2
  <2>6. \A w \in RefreshThreads : caller'[w].key # caller'[u].new
    BY <1>3, <2>1, <2>2
  <2> QED  BY <2>3, <2>4, <2>5, <2>6
<1>22. AliasesEnd'
  <2> SUFFICES ASSUME NEW q \in PoolProcesses
               PROVE  /\ Exists(view[q]) => aliases'[q][view[q].token] = view[q].token
                      /\ \A s \in Tokens :
                           /\ aliases'[q][aliases'[q][s]] = aliases'[q][s]
                           /\ aliases'[q][s] # s =>
                                /\ s <= liveToken
                                /\ s # accountRow'.token
                                /\ \A u \in RefreshThreads : InHand(u)' => s # caller'[u].new
    BY <1>1 DEF AliasesEnd
  <2>1. \A s \in Tokens : aliases[q][s] # s =>
          /\ s <= liveToken /\ s # new
          /\ \A u \in RefreshThreads : InHand(u)' => s # caller'[u].new
    BY <1>5, <1>20 DEF CredInv, AliasesEnd
  <2>2. CASE q = p
    <3>1. /\ key <= liveToken /\ key # new
          /\ \A u \in RefreshThreads : InHand(u)' => key # caller'[u].new
      <4>1. \A u \in RefreshThreads : InHand(u)' => key # caller'[u].new
        BY <1>5, <1>20 DEF CredInv, NewTokensAreNew
      <4> QED  BY <1>6, <4>1
    <3>2. \A s \in Tokens : aliases'[p][s] # s => aliases[p][s] # s \/ s = key
      BY <1>12, <1>14
    <3> QED  BY <1>5, <1>7, <1>12, <1>14, <2>1, <2>2, <3>1, <3>2
  <2>3. CASE q # p
    BY <1>7, <1>14, <2>1, <2>3 DEF CredInv, AliasesEnd
  <2> QED  BY <2>2, <2>3
<1>23. NewestIsStored'
  <2> SUFFICES ASSUME ~mishap
               PROVE  /\ \A u \in RefreshThreads : ~InHand(u)'
                      /\ accountRow'.token = liveToken
    BY <1>1, <1>8 DEF NewestIsStored
  <2>1. \A u \in RefreshThreads : InHand(u) => caller[u].key = key /\ liveToken = key + 1
    BY <1>7 DEF CredInv, NewestIsStored
  <2>2. liveToken = new  BY <1>5, <1>6, <2>1
  <2>3. \A u \in RefreshThreads : ~InHand(u)'  BY <1>20, <2>1
  <2> QED  BY <1>7, <2>2, <2>3
<1>24. SlotsFollow'
  <2> SUFFICES ASSUME ~mishap, NEW q \in PoolProcesses, Exists(view[q])
               PROVE  SlotHeld(q)'
    BY <1>1, <1>8 DEF SlotsFollow
  <2>1. SlotHeld(q)  BY DEF CredInv, SlotsFollow
  <2>2. CASE q = p
    <3>1. SlotOf(p) = key  BY <1>5 DEF SlotOf
    <3>2. PICK held \in BOOLEAN : held <=> holder[p] # -1  OBVIOUS
    <3>3. inflight[p] = [s \in Tokens |-> IF s = key /\ held THEN 1 ELSE 0]
      BY <2>1, <2>2, <3>1, <3>2 DEF SlotHeld
    <3>4. saving[p].sources \in SUBSET Tokens /\ key \in saving[p].sources /\ key # new
      BY <1>5, <1>6
    <3>5. MovedInflight(p, new, saving[p].sources)
            = [s \in Tokens |-> IF s = new /\ held THEN 1 ELSE 0]
      BY <3>3, <3>4, MovedSlot
    <3>6. /\ saving'[p].kind = "none" /\ SlotOf(p)' = new
      BY <1>1, <1>3, <1>5 DEF SlotOf, NotSaving
    <3>7. inflight'[p] = [s \in Tokens |-> IF s = SlotOf(p)' /\ holder'[p] # -1 THEN 1 ELSE 0]
      BY <1>1, <1>15, <3>2, <3>5, <3>6
    <3>8. ASSUME holder[p] # -1  PROVE Alias(p, holder[p])' = new
      <4>1. holder[p] \in saving[p].sources  BY <2>1, <2>2, <3>8 DEF SlotHeld
      <4>2. moved[holder[p]] = new  BY <1>5, <1>12, <4>1
      <4> QED  BY <1>1, <1>5, <1>14, <4>2 DEF Alias
    <3> QED  BY <1>1, <1>5, <2>2, <3>6, <3>7, <3>8 DEF SlotHeld
  <2>3. CASE q # p
    BY <1>1, <1>3, <1>14, <1>15, <2>1, <2>3 DEF SlotHeld, SlotOf, Alias
  <2> QED  BY <2>2, <2>3
<1>25. ResultsAreKept'
  <2>1. accountRow.success = credited  BY <1>7 DEF CredInv, ResultsAreKept
  <2> QED  BY <1>5, <1>7, <1>8, <2>1 DEF ResultsAreKept
<1> QED
  BY <1>1, <1>3, <1>16, <1>17, <1>19, <1>21, <1>22, <1>23, <1>24, <1>25 DEF CredInv

\* Any other save goes through: a result, a refusal or a deletion is stored.
LEMMA CredOtherStored ==
  ASSUME CredInv, NEW p \in PoolProcesses, SaveCommits(p), saving[p].kind # "refresh"
  PROVE  CredInv'
<1>1. /\ saving[p].kind # "none" /\ saving' = [saving EXCEPT ![p] = NotSaving]
      /\ UNCHANGED <<view, liveToken, refused, holder>>
      /\ base' \in [PoolProcesses -> Account \cup {NoAccount}]
      /\ base'[p] = view[p] /\ \A q \in PoolProcesses : q # p => base'[q] = base[q]
      /\ accountRow' \in Account \cup {NoAccount} /\ upToDate' \subseteq PoolProcesses
      /\ \/ view[p] = base[p] /\ UNCHANGED <<accountRow, upToDate, base>>
         \/ base[p] = accountRow /\ accountRow' = view[p] /\ upToDate' = {p}
      /\ BasesAreRows' /\ SaveHolds(p)
  BY SaveWrites
<1>2. PICK result : /\ After(saving[p], result)
                    /\ result = IF Exists(view[p]) THEN "saved" ELSE "gone"
  BY DEF SaveCommits
<1>3. /\ caller' \in [RefreshThreads -> CallerType]
      /\ flights' \in [PoolProcesses -> [Tokens -> FlightStates]]
      /\ saving' \in [PoolProcesses -> SaveType] /\ saving'[p] = NotSaving
      /\ \A q \in PoolProcesses : q # p => saving'[q] = saving[q]
      /\ \A u \in RefreshThreads :
           /\ ProcessOf[u] # p => caller'[u] = caller[u]
           /\ caller'[u].key \in {caller[u].key, 0}
           /\ InHand(u)' => InHand(u) /\ caller'[u] = caller[u]
           /\ InHand(u)' <=> InHand(u)
      /\ FlightsHaveOwners' /\ RefusalsAreKnown'
  BY <1>1, <1>2, SaveEnds
<1>4. /\ view \in [PoolProcesses -> Account \cup {NoAccount}]
      /\ base \in [PoolProcesses -> Account \cup {NoAccount}]
      /\ accountRow \in Account \cup {NoAccount}
      /\ caller \in [RefreshThreads -> CallerType] /\ saving \in [PoolProcesses -> SaveType]
      /\ aliases \in [PoolProcesses -> [Tokens -> Tokens]]
      /\ inflight \in [PoolProcesses -> [Tokens -> Nat]]
      /\ holder \in [PoolProcesses -> Tokens \cup {-1}]
      /\ credited \in Nat /\ mishap \in BOOLEAN
  BY DEF CredInv, CredTypes, CredTypeOK
<1>5. mishap' = mishap
  <2>1. mishap' = (mishap \/ result = "failed") /\ result # "failed"  BY <1>2 DEF After
  <2> QED  BY <1>4, <2>1
<1>6. credited' = IF saving[p].kind = "result" /\ Exists(view[p]) THEN credited + 1 ELSE credited
  BY <1>2 DEF After
<1>7. /\ Exists(view[p]) => Exists(base[p]) /\ view[p].token = base[p].token
      /\ Exists(view[p]) => view[p].success = IF saving[p].kind = "result"
                                                THEN base[p].success + 1 ELSE base[p].success
  BY <1>1 DEF SaveHolds
<1>8. Exists(accountRow') => Exists(accountRow) /\ accountRow'.token = accountRow.token
  BY <1>1, <1>7
<1>9. accountRow'.token \in {accountRow.token, -1}
  BY <1>1, <1>7, RowFacts
<1>10. PICK moved :
         moved = [s \in Tokens |-> IF Resolve(p, s) = view[p].token THEN aliases[p][s] ELSE s]
  OBVIOUS
<1>11. /\ inflight' = inflight
       /\ aliases' = [aliases EXCEPT ![p] = moved]
  BY <1>4, <1>10 DEF SaveCommits, FollowToken
<1>12. \A s \in Tokens :
         /\ Resolve(p, s) = IF s = view[p].token THEN s ELSE aliases[p][s]
         /\ aliases[p][s] \in Tokens
         /\ Exists(view[p]) => aliases[p][view[p].token] = view[p].token
  BY <1>4, Resolved DEF CredInv, Alias, AliasesEnd
<1>13. /\ moved \in [Tokens -> Tokens]
       /\ Exists(view[p]) => moved[view[p].token] = view[p].token
       /\ \A s \in Tokens :
            /\ moved[s] # s => aliases[p][s] # s /\ moved[s] = view[p].token /\ Exists(view[p])
            /\ s # view[p].token /\ aliases[p][s] = view[p].token => moved[s] = view[p].token
  <2>1. moved \in [Tokens -> Tokens]  BY <1>10, <1>12
  <2>2. ASSUME Exists(view[p])
        PROVE  view[p].token \in Tokens /\ moved[view[p].token] = view[p].token
    <3>1. view[p].token \in Tokens  BY <1>4, <2>2, RowFacts
    <3> QED  BY <1>10, <1>12, <2>2, <3>1
  <2>3. \A s \in Tokens :
          /\ moved[s] # s => aliases[p][s] # s /\ moved[s] = view[p].token
          /\ s # view[p].token /\ aliases[p][s] = view[p].token => moved[s] = view[p].token
    <3> TAKE s \in Tokens
    <3>1. moved[s] = IF Resolve(p, s) = view[p].token THEN aliases[p][s] ELSE s  BY <1>10
    <3>2. Resolve(p, s) = IF s = view[p].token THEN s ELSE aliases[p][s]  BY <1>12
    <3>3. s = view[p].token => aliases[p][s] = s
      <4> SUFFICES ASSUME s = view[p].token  PROVE aliases[p][s] = s
        OBVIOUS
      <4>1. Exists(view[p])  BY <1>4, RowFacts
      <4> QED  BY <1>12, <4>1
    <3> QED  BY <3>1, <3>2, <3>3
  <2>4. \A s \in Tokens : moved[s] = view[p].token => Exists(view[p])
    BY <1>4, <2>1, RowFacts
  <2> QED  BY <2>1, <2>2, <2>3, <2>4
<1>14. /\ aliases'[p] = moved /\ \A q \in PoolProcesses : q # p => aliases'[q] = aliases[q]
       /\ aliases' \in [PoolProcesses -> [Tokens -> Tokens]]
  BY <1>4, <1>11, <1>13
<1>15. CredTypes'
  <2>1. \A q \in PoolProcesses : saving'[q].tries < SaveAttempts
    BY <1>3, CredBounds DEF SaveType
  <2>2. credited' \in Nat  BY <1>4, <1>6
  <2> QED
    BY <1>1, <1>3, <1>5, <1>11, <1>14, <2>1, <2>2
    DEF CredInv, CredTypes, CredTypeOK, FlightStates
<1>16. SavesHold'
  <2> SUFFICES ASSUME NEW q \in PoolProcesses  PROVE SaveHolds(q)'
    BY DEF SavesHold
  <2>1. CASE q = p  BY <1>1, <1>3, <2>1 DEF SaveHolds, NotSaving
  <2>2. CASE q # p
    <3>1. SaveHolds(q)  BY DEF CredInv, SavesHold
    <3>2. saving[q].kind \in {"refresh", "terminal"} =>
            caller'[saving[q].by] = caller[saving[q].by]
      BY <1>3, <2>2, <3>1 DEF SaveHolds
    <3> QED  BY <1>1, <1>3, <1>14, <2>2, <3>1, <3>2 DEF SaveHolds
  <2> QED  BY <2>1, <2>2
<1>17. \A q \in PoolProcesses :
         /\ base'[q].token \in {base[q].token, -1}
         /\ Exists(base'[q]) => base'[q].token = base[q].token /\ Exists(base[q])
  BY <1>1, <1>4, <1>7, RowFacts
<1>18. TokensGrow'
  <2>1. liveToken \in Nat
    BY CredBounds DEF CredInv, CredTypes, CredTypeOK, Tokens
  <2>2. \A s \in Tokens : s \in Nat  BY CredBounds DEF Tokens
  <2>3. accountRow'.token <= liveToken
    BY <1>9, <2>1 DEF CredInv, TokensGrow
  <2>4. ASSUME NEW q \in PoolProcesses
        PROVE  /\ base'[q].token <= liveToken
               /\ Exists(accountRow') => base'[q].token <= accountRow'.token
    <3>1. /\ base[q].token <= liveToken
          /\ Exists(accountRow) => base[q].token <= accountRow.token
      BY DEF CredInv, TokensGrow
    <3>2. Exists(accountRow) => accountRow.token \in Nat
      BY <1>4, <2>2, RowFacts
    <3> QED  BY <1>8, <1>17, <2>1, <3>1, <3>2
  <2>5. ASSUME NEW u \in RefreshThreads
        PROVE  /\ caller'[u].key <= liveToken
               /\ Exists(accountRow') => caller'[u].key <= accountRow'.token
               /\ Exists(base'[ProcessOf[u]]) => caller'[u].key <= base'[ProcessOf[u]].token
               /\ InHand(u)' => caller'[u].new = caller'[u].key + 1 /\ caller'[u].new <= liveToken
    <3>1. /\ caller[u].key <= liveToken
          /\ Exists(accountRow) => caller[u].key <= accountRow.token
          /\ Exists(base[ProcessOf[u]]) => caller[u].key <= base[ProcessOf[u]].token
          /\ InHand(u) => caller[u].new = caller[u].key + 1 /\ caller[u].new <= liveToken
      BY DEF CredInv, TokensGrow
    <3>2. ProcessOf[u] \in PoolProcesses  BY CallerParts
    <3>3. /\ Exists(accountRow) => accountRow.token \in Nat
          /\ Exists(base[ProcessOf[u]]) => base[ProcessOf[u]].token \in Nat
      BY <1>4, <2>2, <3>2, RowFacts
    <3>4. caller'[u].key \in {caller[u].key, 0}  BY <1>3
    <3>5. InHand(u)' => InHand(u) /\ caller'[u] = caller[u]  BY <1>3
    <3> QED  BY <1>8, <1>17, <2>1, <3>1, <3>2, <3>3, <3>4, <3>5
  <2> QED  BY <1>1, <2>3, <2>4, <2>5 DEF TokensGrow
<1>19. NewTokensAreNew'
  <2> SUFFICES ASSUME NEW u \in RefreshThreads, InHand(u)'
               PROVE  /\ accountRow'.token # caller'[u].new
                      /\ \A q \in PoolProcesses : base'[q].token # caller'[u].new
                      /\ \A w \in RefreshThreads \ {u} :
                           InHand(w)' => caller'[w].key # caller'[u].key
                      /\ \A w \in RefreshThreads : caller'[w].key # caller'[u].new
    BY DEF NewTokensAreNew
  <2>1. InHand(u) /\ caller'[u] = caller[u]  BY <1>3
  <2>2. /\ accountRow.token # caller[u].new
        /\ \A q \in PoolProcesses : base[q].token # caller[u].new
        /\ \A w \in RefreshThreads \ {u} : InHand(w) => caller[w].key # caller[u].key
        /\ \A w \in RefreshThreads : caller[w].key # caller[u].new
    BY <2>1 DEF CredInv, NewTokensAreNew
  <2>3. caller[u].new # 0 /\ caller[u].new # -1
    BY <2>1, CallerParts, CredBounds DEF CredInv, TokensGrow, Tokens
  <2>4. accountRow'.token # caller'[u].new  BY <1>9, <2>1, <2>2, <2>3
  <2>5. \A q \in PoolProcesses : base'[q].token # caller'[u].new
    BY <1>17, <2>1, <2>2, <2>3
  <2>6. \A w \in RefreshThreads \ {u} : InHand(w)' => caller'[w].key # caller'[u].key
    BY <1>3, <2>1, <2>2
  <2>7. \A w \in RefreshThreads : caller'[w].key # caller'[u].new
    BY <1>3, <2>1, <2>2, <2>3
  <2> QED  BY <2>4, <2>5, <2>6, <2>7
<1>20. AliasesEnd'
  <2> SUFFICES ASSUME NEW q \in PoolProcesses
               PROVE  /\ Exists(view[q]) => aliases'[q][view[q].token] = view[q].token
                      /\ \A s \in Tokens :
                           /\ aliases'[q][aliases'[q][s]] = aliases'[q][s]
                           /\ aliases'[q][s] # s =>
                                /\ s <= liveToken
                                /\ s # accountRow'.token
                                /\ \A u \in RefreshThreads : InHand(u)' => s # caller'[u].new
    BY <1>1 DEF AliasesEnd
  <2>1. \A s \in Tokens : aliases[q][s] # s =>
          /\ s <= liveToken /\ s # accountRow'.token
          /\ \A u \in RefreshThreads : InHand(u)' => s # caller'[u].new
    <3>1. \A s \in Tokens : s # -1  BY CredBounds DEF Tokens
    <3> QED  BY <1>3, <1>9, <3>1 DEF CredInv, AliasesEnd
  <2>2. CASE q = p
    <3>1. \A s \in Tokens : aliases'[p][aliases'[p][s]] = aliases'[p][s]
      BY <1>13, <1>14
    <3>2. Exists(view[p]) => aliases'[p][view[p].token] = view[p].token
      BY <1>13, <1>14
    <3>3. \A s \in Tokens : aliases'[p][s] # s => aliases[p][s] # s
      BY <1>13, <1>14
    <3> QED  BY <2>1, <2>2, <3>1, <3>2, <3>3
  <2>3. CASE q # p
    BY <1>14, <2>1, <2>3 DEF CredInv, AliasesEnd
  <2> QED  BY <2>2, <2>3
<1>21. NewestIsStored'
  BY <1>1, <1>3, <1>5, <1>8 DEF CredInv, NewestIsStored
<1>22. SlotsFollow'
  <2> SUFFICES ASSUME ~mishap, NEW q \in PoolProcesses, Exists(view[q])
               PROVE  SlotHeld(q)'
    BY <1>1, <1>5 DEF SlotsFollow
  <2>1. SlotHeld(q)  BY DEF CredInv, SlotsFollow
  <2>2. CASE q = p
    <3>1. /\ SlotOf(p) = view[p].token /\ SlotOf(p)' = view[p].token
          /\ saving'[p].kind = "none"
      BY <1>1, <1>3 DEF SlotOf, NotSaving
    <3>2. inflight'[p] = [s \in Tokens |-> IF s = SlotOf(p)' /\ holder'[p] # -1 THEN 1 ELSE 0]
      BY <1>1, <1>11, <2>1, <2>2, <3>1 DEF SlotHeld
    <3>3. ASSUME holder[p] # -1  PROVE Alias(p, holder[p])' = view[p].token
      <4>1. Alias(p, holder[p]) = view[p].token /\ holder[p] \in Tokens
        BY <1>4, <2>1, <2>2, <3>3 DEF SlotHeld
      <4> QED  BY <1>1, <1>13, <1>14, <4>1 DEF Alias
    <3> QED  BY <1>1, <2>2, <3>1, <3>2, <3>3 DEF SlotHeld
  <2>3. CASE q # p
    BY <1>1, <1>3, <1>11, <1>14, <2>1, <2>3 DEF SlotHeld, SlotOf, Alias
  <2> QED  BY <2>2, <2>3
<1>23. ResultsAreKept'
  <2> SUFFICES ASSUME Exists(accountRow')  PROVE accountRow'.success = credited'
    BY DEF ResultsAreKept
  <2>1. Exists(accountRow) /\ accountRow.success = credited
    BY <1>8 DEF CredInv, ResultsAreKept
  <2>2. CASE view[p] = base[p] /\ UNCHANGED accountRow
    <3>1. Exists(view[p])  BY <2>1, <2>2 DEF CredInv, BasesAreRows
    <3>2. base[p].success \in Nat  BY <1>4, RowFacts
    <3>3. saving[p].kind # "result"  BY <1>7, <2>2, <3>1, <3>2
    <3> QED  BY <1>6, <2>1, <2>2, <3>3
  <2>3. CASE base[p] = accountRow /\ accountRow' = view[p]
    BY <1>6, <1>7, <2>1, <2>3
  <2> QED  BY <1>1, <2>2, <2>3
<1> QED
  BY <1>1, <1>3, <1>15, <1>16, <1>18, <1>19, <1>20, <1>21, <1>22, <1>23 DEF CredInv

\* A process takes what others have stored into its view
\* (_apply_account_view_locked): its slots and aliases follow.
LEMMA ViewMoves ==
  ASSUME CredInv, NEW p \in PoolProcesses, NEW n \in Account \cup {NoAccount}, ApplyView(p, n),
         base' = [base EXCEPT ![p] = accountRow], upToDate' = upToDate \cup {p},
         saving' \in [PoolProcesses -> SaveType],
         \A q \in PoolProcesses :
           /\ q # p => saving'[q] = saving[q]
           /\ saving'[q].kind = saving[q].kind /\ saving'[q].by = saving[q].by
           /\ saving'[q].expect = saving[q].expect /\ saving'[q].sources = saving[q].sources,
         RotatesTo(p, n) => n.token = accountRow.token /\ saving[p].kind # "refresh",
         Exists(n) => Exists(view[p]),
         UNCHANGED <<accountRow, caller, flights, liveToken, refused, holder, credited, mishap>>
  PROVE  /\ CredTypes' /\ BasesAreRows' /\ FlightsHaveOwners' /\ RefusalsAreKnown'
         /\ TokensGrow' /\ NewTokensAreNew' /\ AliasesEnd' /\ NewestIsStored' /\ SlotsFollow'
         /\ ResultsAreKept'
         /\ view'[p] = n /\ base'[p] = accountRow
         /\ \A q \in PoolProcesses : q # p => SaveHolds(q)'
         /\ ~RotatesTo(p, n) => UNCHANGED aliases
<1>1. /\ view \in [PoolProcesses -> Account \cup {NoAccount}]
      /\ base \in [PoolProcesses -> Account \cup {NoAccount}]
      /\ accountRow \in Account \cup {NoAccount} /\ upToDate \subseteq PoolProcesses
      /\ saving \in [PoolProcesses -> SaveType]
      /\ aliases \in [PoolProcesses -> [Tokens -> Tokens]]
      /\ inflight \in [PoolProcesses -> [Tokens -> Nat]]
      /\ holder \in [PoolProcesses -> Tokens \cup {-1}]
  BY DEF CredInv, CredTypes, CredTypeOK
<1>2. /\ base' \in [PoolProcesses -> Account \cup {NoAccount}]
      /\ base'[p] = accountRow /\ \A q \in PoolProcesses : q # p => base'[q] = base[q]
      /\ view' \in [PoolProcesses -> Account \cup {NoAccount}]
      /\ view'[p] = n /\ \A q \in PoolProcesses : q # p => view'[q] = view[q]
  BY <1>1 DEF ApplyView
<1>3. \A u \in RefreshThreads : InHand(u)' <=> InHand(u)
  <2> TAKE u \in RefreshThreads
  <2>1. ProcessOf[u] \in PoolProcesses  BY CallerParts
  <2>2. saving'[ProcessOf[u]].kind = saving[ProcessOf[u]].kind  BY <2>1
  <2> QED  BY <2>2 DEF InHand, Storing
<1>4. BasesAreRows'
  BY <1>2 DEF CredInv, BasesAreRows
<1>5. FlightsHaveOwners'
  <2>1. \A u \in RefreshThreads :
          /\ saving'[ProcessOf[u]].kind = saving[ProcessOf[u]].kind
          /\ saving'[ProcessOf[u]].by = saving[ProcessOf[u]].by
    BY CallerParts
  <2> QED  BY <2>1 DEF CredInv, FlightsHaveOwners
<1>6. RefusalsAreKnown'
  BY DEF CredInv, RefusalsAreKnown
<1>7. TokensGrow'
  <2>1. TokensGrow  BY DEF CredInv
  <2>2. accountRow.token \in Int  BY <1>1, RowFacts
  <2>3. \A q \in PoolProcesses :
          /\ base'[q].token <= liveToken
          /\ Exists(accountRow) => base'[q].token <= accountRow.token
    BY <1>2, <2>1, <2>2 DEF TokensGrow
  <2>4. \A u \in RefreshThreads :
          Exists(base'[ProcessOf[u]]) => caller[u].key <= base'[ProcessOf[u]].token
    BY <1>2, <2>1, CallerParts DEF TokensGrow
  <2> QED  BY <1>3, <2>1, <2>3, <2>4 DEF TokensGrow
<1>8. NewTokensAreNew'
  BY <1>2, <1>3 DEF CredInv, NewTokensAreNew
<1>9. NewestIsStored' /\ ResultsAreKept'
  BY <1>3 DEF CredInv, NewestIsStored, ResultsAreKept
<1>10. \A q \in PoolProcesses : q # p =>
         /\ aliases'[q] = aliases[q] /\ inflight'[q] = inflight[q]
         /\ SaveHolds(q)'
  <2> TAKE q \in PoolProcesses
  <2> HAVE q # p
  <2>1. aliases'[q] = aliases[q] /\ inflight'[q] = inflight[q]
    BY <1>1 DEF ApplyView
  <2>2. SaveHolds(q)  BY DEF CredInv, SavesHold
  <2> QED  BY <1>2, <2>1, <2>2 DEF SaveHolds
<1>11. ASSUME NEW q \in PoolProcesses, q # p
       PROVE  /\ Exists(view'[q]) => aliases'[q][view'[q].token] = view'[q].token
              /\ \A s \in Tokens :
                   /\ aliases'[q][aliases'[q][s]] = aliases'[q][s]
                   /\ aliases'[q][s] # s =>
                        /\ s <= liveToken
                        /\ s # accountRow.token
                        /\ \A u \in RefreshThreads : InHand(u)' => s # caller[u].new
  BY <1>2, <1>3, <1>10, <1>11 DEF CredInv, AliasesEnd
<1>12. ASSUME ~mishap, NEW q \in PoolProcesses, q # p, Exists(view'[q])
       PROVE  SlotHeld(q)'
  <2>1. SlotHeld(q)  BY <1>2, <1>12 DEF CredInv, SlotsFollow
  <2> QED  BY <1>2, <1>10, <1>12, <2>1 DEF SlotHeld, SlotOf, Alias
<1>13. CASE ~RotatesTo(p, n)
  <2>1. UNCHANGED <<aliases, inflight>>  BY <1>13 DEF ApplyView
  <2>2. Exists(n) => Exists(view[p]) /\ n.token = view[p].token  BY <1>13 DEF RotatesTo
  <2>3. CredTypes'
    <3>1. \A q \in PoolProcesses : saving'[q].tries < SaveAttempts
      BY CredBounds DEF SaveType
    <3> QED  BY <1>1, <1>2, <2>1, <3>1 DEF CredInv, CredTypes, CredTypeOK
  <2>4. AliasesEnd'
    BY <1>2, <1>3, <2>1, <2>2 DEF CredInv, AliasesEnd
  <2>5. SlotsFollow'
    <3> SUFFICES ASSUME ~mishap, Exists(n)  PROVE SlotHeld(p)'
      BY <1>2, <1>12 DEF SlotsFollow
    <3>1. SlotHeld(p)  BY <2>2 DEF CredInv, SlotsFollow
    <3>2. view'[p].token = view[p].token  BY <1>2, <2>2
    <3> QED  BY <2>1, <3>1, <3>2 DEF SlotHeld, SlotOf, Alias
  <2> QED
    BY <1>2, <1>4, <1>5, <1>6, <1>7, <1>8, <1>9, <1>10, <2>1, <2>3, <2>4, <2>5
<1>14. CASE RotatesTo(p, n)
  <2>1. PICK old \in Tokens, new \in Tokens :
          /\ old = view[p].token /\ new = n.token /\ new = accountRow.token /\ old # new
          /\ Exists(view[p]) /\ Exists(accountRow) /\ saving[p].kind # "refresh"
    BY <1>1, <1>14, RowFacts DEF RotatesTo
  <2>2. PICK sources \in SUBSET Tokens :
          /\ sources = Sources(p, old)
          /\ sources = {s \in Tokens : s = old \/ aliases[p][s] = old}
    BY <2>1, SourcesAre DEF CredInv
  <2>3. aliases[p][new] = new  BY <2>1 DEF CredInv, AliasesEnd
  <2>4. PICK moved : moved = MovedAliases(p, new, sources)  OBVIOUS
  <2>5. /\ moved \in [Tokens -> Tokens] /\ moved[new] = new
        /\ \A s \in Tokens :
             /\ moved[moved[s]] = moved[s]
             /\ moved[s] # s => aliases[p][s] # s \/ s = old
             /\ s \in sources => moved[s] = new
    <3>1. PICK roots \in SUBSET Tokens : roots = {old}  BY <2>1
    <3>2. sources = StandingFor(p, roots)  BY <2>2, <3>1 DEF StandingFor
    <3>3. CredTypes /\ AliasesEnd  BY DEF CredInv
    <3>4. /\ MovedAliases(p, new, sources) \in [Tokens -> Tokens]
          /\ MovedAliases(p, new, sources)[new] = new
          /\ \A s \in Tokens :
               /\ MovedAliases(p, new, sources)[MovedAliases(p, new, sources)[s]]
                    = MovedAliases(p, new, sources)[s]
               /\ MovedAliases(p, new, sources)[s] # s =>
                    aliases[p][s] # s \/ s \in roots \ {new}
               /\ s \in sources => MovedAliases(p, new, sources)[s] = new
      BY <2>3, <3>2, <3>3, AliasesMove
    <3> QED  BY <2>4, <3>1, <3>4
  <2>6. /\ aliases' = [aliases EXCEPT ![p] = moved]
        /\ inflight' = [inflight EXCEPT ![p] = MovedInflight(p, new, sources)]
    BY <1>14, <2>1, <2>2, <2>4 DEF ApplyView
  <2>7. /\ aliases'[p] = moved /\ aliases' \in [PoolProcesses -> [Tokens -> Tokens]]
    BY <1>1, <2>5, <2>6
  <2>8. /\ inflight'[p] = MovedInflight(p, new, sources)
        /\ inflight' \in [PoolProcesses -> [Tokens -> Nat]]
    <3>1. MovedInflight(p, new, sources) \in [Tokens -> Nat]  BY MovedCounts DEF CredInv
    <3> QED  BY <1>1, <2>6, <3>1
  <2>9. CredTypes'
    <3>1. \A q \in PoolProcesses : saving'[q].tries < SaveAttempts
      BY CredBounds DEF SaveType
    <3> QED  BY <1>1, <1>2, <2>7, <2>8, <3>1 DEF CredInv, CredTypes, CredTypeOK
  <2>10. /\ old <= liveToken /\ old # accountRow.token
         /\ \A u \in RefreshThreads : InHand(u) => old # caller[u].new
    <3>1. old = base[p].token
      <4>1. saving[p].kind # "refresh" => view[p].token = base[p].token
        BY <2>1 DEF CredInv, SavesHold, SaveHolds
      <4> QED  BY <2>1, <4>1
    <3> QED  BY <2>1, <3>1 DEF CredInv, TokensGrow, NewTokensAreNew
  <2>11. AliasesEnd'
    <3>1. \A s \in Tokens : aliases'[p][s] # s =>
            /\ s <= liveToken /\ s # accountRow.token
            /\ \A u \in RefreshThreads : InHand(u)' => s # caller[u].new
      BY <1>3, <2>5, <2>7, <2>10 DEF CredInv, AliasesEnd
    <3>2. /\ aliases'[p][view'[p].token] = view'[p].token
          /\ \A s \in Tokens : aliases'[p][aliases'[p][s]] = aliases'[p][s]
      BY <1>2, <2>1, <2>5, <2>7
    <3> QED  BY <1>11, <3>1, <3>2 DEF AliasesEnd
  <2>12. SlotsFollow'
    <3> SUFFICES ASSUME ~mishap, Exists(n)  PROVE SlotHeld(p)'
      BY <1>2, <1>12 DEF SlotsFollow
    <3>1. SlotHeld(p)  BY <2>1 DEF CredInv, SlotsFollow
    <3>2. SlotOf(p) = old /\ SlotOf(p)' = new
      BY <1>2, <2>1 DEF SlotOf
    <3>3. PICK held \in BOOLEAN : held <=> holder[p] # -1  OBVIOUS
    <3>4. inflight[p] = [s \in Tokens |-> IF s = old /\ held THEN 1 ELSE 0]
      BY <3>1, <3>2, <3>3 DEF SlotHeld
    <3>5. old \in sources  BY <2>1, <2>2
    <3>6. MovedInflight(p, new, sources) = [s \in Tokens |-> IF s = new /\ held THEN 1 ELSE 0]
      BY <2>1, <3>4, <3>5, MovedSlot
    <3>7. inflight'[p] = [s \in Tokens |-> IF s = SlotOf(p)' /\ holder'[p] # -1 THEN 1 ELSE 0]
      BY <2>8, <3>2, <3>3, <3>6
    <3>8. ASSUME holder[p] # -1  PROVE Alias(p, holder[p])' = new
      <4>1. holder[p] \in Tokens /\ Alias(p, holder[p]) = old
        BY <1>1, <2>1, <3>1, <3>8 DEF SlotHeld
      <4>2. holder[p] \in sources  BY <2>1, <2>2, <4>1 DEF Alias
      <4>3. moved[holder[p]] = new  BY <2>5, <4>1, <4>2
      <4> QED  BY <1>2, <2>1, <2>7, <4>3 DEF Alias
    <3> QED  BY <1>2, <2>1, <3>7, <3>8 DEF SlotHeld
  <2> QED
    BY <1>2, <1>4, <1>5, <1>6, <1>7, <1>8, <1>9, <1>10, <1>14, <2>9, <2>11, <2>12
<1> QED  BY <1>13, <1>14

\* A process reads the store again (_refresh_accounts_snapshot_if_stale).
LEMMA CredRefreshView ==
  ASSUME CredInv, NEW p \in PoolProcesses, RefreshView(p)
  PROVE  CredInv'
<1>1. /\ saving[p].kind = "none" /\ saving[p] = NotSaving /\ ApplyView(p, accountRow)
      /\ base' = [base EXCEPT ![p] = accountRow] /\ upToDate' = upToDate \cup {p}
      /\ UNCHANGED <<accountRow, saving, caller, flights, liveToken, refused,
                     holder, credited, mishap>>
  BY DEF RefreshView, Unlocked, NotSaving
<1>2. accountRow \in Account \cup {NoAccount} /\ saving \in [PoolProcesses -> SaveType]
  BY DEF CredInv, CredTypes, CredTypeOK
<1>3. Exists(accountRow) => Exists(view[p])
  BY <1>1 DEF CredInv, SavesHold, SaveHolds, BasesAreRows
<1>4. /\ CredTypes' /\ BasesAreRows' /\ FlightsHaveOwners' /\ RefusalsAreKnown'
      /\ TokensGrow' /\ NewTokensAreNew' /\ AliasesEnd' /\ NewestIsStored' /\ SlotsFollow'
      /\ ResultsAreKept'
      /\ view'[p] = accountRow /\ base'[p] = accountRow
      /\ \A q \in PoolProcesses : q # p => SaveHolds(q)'
  BY <1>1, <1>2, <1>3, ViewMoves
<1>5. SaveHolds(p)'
  BY <1>1, <1>4 DEF SaveHolds, NotSaving
<1>6. SavesHold'  BY <1>4, <1>5 DEF SavesHold
<1> QED  BY <1>4, <1>6 DEF CredInv

\* What a save holds after it was merged with the stored row
\* (_merge_accounts_after_conflict).
LEMMA MergedRow ==
  ASSUME CredInv, NEW p \in PoolProcesses, saving[p].kind # "none", ~Superseded(p),
         NEW n, n = Merged(base[p], view[p], accountRow)
  PROVE  /\ n \in Account \cup {NoAccount}
         /\ Exists(n) => Exists(view[p])
         /\ Exists(n) <=> Exists(view[p]) /\ Exists(accountRow)
         /\ Exists(n) => n.token = IF saving[p].kind = "refresh" THEN view[p].token
                                   ELSE accountRow.token
         /\ Exists(n) => n.success = IF saving[p].kind = "result" THEN accountRow.success + 1
                                     ELSE accountRow.success
         /\ saving[p].kind \in {"refresh", "terminal"} =>
              Exists(accountRow) /\ accountRow.token = saving[p].expect
<1>1. /\ view[p] \in Account \cup {NoAccount} /\ base[p] \in Account \cup {NoAccount}
      /\ accountRow \in Account \cup {NoAccount} /\ saving[p] \in SaveType
      /\ SaveHolds(p)
  BY DEF CredInv, CredTypes, CredTypeOK, SavesHold
<1>2. saving[p].kind \in {"refresh", "terminal"} =>
        Exists(accountRow) /\ accountRow.token = saving[p].expect
  <2> SUFFICES ASSUME saving[p].kind \in {"refresh", "terminal"}
               PROVE  Exists(accountRow) /\ accountRow.token = saving[p].expect
    OBVIOUS
  <2>1. /\ saving[p].by \in RefreshThreads /\ caller[saving[p].by].key = saving[p].expect
    BY <1>1 DEF SaveHolds
  <2>2. saving[p].expect \in Tokens  BY <2>1, CallerParts
  <2>3. saving[p].expect # -1  BY <2>2, CredBounds DEF Tokens
  <2>4. accountRow.token = saving[p].expect  BY <2>3 DEF Superseded
  <2> QED  BY <1>1, <2>2, <2>4, RowFacts
<1>3. CASE ~Exists(view[p])
  <2>1. n = NoAccount  BY <1>3 DEF Merged
  <2> QED  BY <1>2, <1>3, <2>1, RowFacts
<1>4. CASE Exists(view[p]) /\ ~Exists(accountRow)
  <2>1. n = NoAccount  BY <1>4 DEF Merged, Deleted
  <2> QED  BY <1>2, <1>4, <2>1, RowFacts
<1>5. CASE Exists(view[p]) /\ Exists(accountRow)
  <2>1. PICK old, mine, theirs \in Account :
          old = base[p] /\ mine = view[p] /\ theirs = accountRow
    BY <1>1, <1>5, RowFacts DEF SaveHolds
  <2>2. /\ old.success \in Nat /\ theirs.success \in Nat
        /\ old.token \in Tokens /\ mine.token \in Tokens /\ theirs.token \in Tokens
        /\ mine.success = IF saving[p].kind = "result" THEN old.success + 1 ELSE old.success
        /\ mine.dead \in BOOLEAN /\ theirs.dead \in BOOLEAN /\ old.dead \in BOOLEAN
    BY <1>1, <1>5, <2>1 DEF Account, SaveHolds
  <2>3. CASE saving[p].kind = "refresh"
    <3>1. old.token = saving[p].expect /\ theirs.token = old.token
      BY <1>1, <1>2, <1>5, <2>1, <2>3 DEF SaveHolds
    <3>2. mine.token # old.token
      <4>1. saving[p].by \in RefreshThreads /\ mine.token = caller[saving[p].by].new
        BY <1>1, <2>1, <2>3 DEF SaveHolds
      <4>2. InHand(saving[p].by)
        BY <1>1, <2>3 DEF SaveHolds, InHand, Storing
      <4> QED  BY <2>1, <4>1, <4>2 DEF CredInv, NewTokensAreNew
    <3>3. n = MergedFields(old, mine, theirs)
      BY <1>5, <2>1, <3>1, <3>2 DEF Merged
    <3>4. n.token = mine.token /\ n.success = theirs.success
      BY <2>2, <2>3, <3>2, <3>3 DEF MergedFields
    <3>5. n.dead \in BOOLEAN /\ n = [token |-> n.token, dead |-> n.dead, success |-> n.success]
      BY <2>2, <3>3 DEF MergedFields
    <3>6. n \in Account  BY <2>2, <3>4, <3>5 DEF Account
    <3> QED  BY <1>2, <1>5, <2>1, <2>3, <3>4, <3>6, RowFacts
  <2>4. CASE saving[p].kind # "refresh"
    <3>1. mine.token = old.token
      BY <1>1, <1>5, <2>1, <2>4 DEF SaveHolds
    <3>2. n = MergedFields(old, mine, theirs)
      BY <1>5, <2>1, <3>1 DEF Merged
    <3>3. n.token = theirs.token
      BY <3>1, <3>2 DEF MergedFields
    <3>4. n.success = IF mine.success # old.success
                        THEN theirs.success + (mine.success - old.success) ELSE theirs.success
      BY <3>2 DEF MergedFields, AddedCounter
    <3>5. n.success = IF saving[p].kind = "result" THEN theirs.success + 1 ELSE theirs.success
      <4>1. CASE saving[p].kind = "result"  BY <2>2, <3>4, <4>1
      <4>2. CASE saving[p].kind # "result"  BY <2>2, <3>4, <4>2
      <4> QED  BY <4>1, <4>2
    <3>6. n.dead \in BOOLEAN /\ n = [token |-> n.token, dead |-> n.dead, success |-> n.success]
      BY <2>2, <3>2 DEF MergedFields
    <3>7. n.success \in Nat  BY <2>2, <3>5
    <3>8. n \in Account  BY <2>2, <3>3, <3>6, <3>7 DEF Account
    <3>9. Exists(n)  BY <3>8, RowFacts
    <3> QED  BY <1>2, <1>5, <2>1, <2>4, <3>3, <3>5, <3>8, <3>9
  <2> QED  BY <2>3, <2>4
<1> QED  BY <1>3, <1>4, <1>5

\* A save meets a change of another process and is merged with it.
LEMMA CredSaveMerges ==
  ASSUME CredInv, NEW p \in PoolProcesses, SaveMerges(p)
  PROVE  CredInv'
<1>1. PICK n : n = Merged(base[p], view[p], accountRow)  OBVIOUS
<1>2. /\ saving[p].kind # "none" /\ ~Superseded(p) /\ ApplyView(p, n)
      /\ saving[p].tries + 1 < SaveAttempts
      /\ base' = [base EXCEPT ![p] = accountRow] /\ upToDate' = upToDate \cup {p}
      /\ saving' = [saving EXCEPT ![p].tries = @ + 1]
      /\ UNCHANGED <<accountRow, caller, flights, liveToken, refused, holder, credited, mishap>>
  BY <1>1 DEF SaveMerges
<1>3. /\ n \in Account \cup {NoAccount}
      /\ Exists(n) => Exists(view[p])
      /\ Exists(n) <=> Exists(view[p]) /\ Exists(accountRow)
      /\ Exists(n) => n.token = IF saving[p].kind = "refresh" THEN view[p].token
                                ELSE accountRow.token
      /\ Exists(n) => n.success = IF saving[p].kind = "result" THEN accountRow.success + 1
                                  ELSE accountRow.success
      /\ saving[p].kind \in {"refresh", "terminal"} =>
           Exists(accountRow) /\ accountRow.token = saving[p].expect
  BY <1>1, <1>2, MergedRow
<1>4. saving \in [PoolProcesses -> SaveType] /\ SaveHolds(p)
  BY DEF CredInv, CredTypes, SavesHold
<1>5. PICK save : save = [saving[p] EXCEPT !.tries = @ + 1]  OBVIOUS
<1>6. /\ save \in SaveType /\ save.kind = saving[p].kind /\ save.by = saving[p].by
      /\ save.expect = saving[p].expect /\ save.sources = saving[p].sources
      /\ saving' = [saving EXCEPT ![p] = save]
  <2>1. saving[p] \in SaveType  BY <1>4
  <2>2. saving[p].tries + 1 \in 0..(SaveAttempts - 1)
    BY <1>2, <2>1, CredBounds DEF SaveType
  <2>3. /\ save \in SaveType /\ save.kind = saving[p].kind /\ save.by = saving[p].by
        /\ save.expect = saving[p].expect /\ save.sources = saving[p].sources
    BY <1>5, <2>1, <2>2 DEF SaveType
  <2>4. saving' = [saving EXCEPT ![p] = save]  BY <1>2, <1>4, <1>5, <2>1 DEF SaveType
  <2> QED  BY <2>3, <2>4
<1>7. /\ saving' \in [PoolProcesses -> SaveType] /\ saving'[p] = save
      /\ \A q \in PoolProcesses :
           /\ q # p => saving'[q] = saving[q]
           /\ saving'[q].kind = saving[q].kind /\ saving'[q].by = saving[q].by
           /\ saving'[q].expect = saving[q].expect /\ saving'[q].sources = saving[q].sources
  <2>1. /\ saving' \in [PoolProcesses -> SaveType] /\ saving'[p] = save
        /\ \A q \in PoolProcesses : q # p => saving'[q] = saving[q]
    BY <1>4, <1>6
  <2> QED  BY <1>6, <2>1
<1>8. RotatesTo(p, n) => n.token = accountRow.token /\ saving[p].kind # "refresh"
  BY <1>3 DEF RotatesTo
<1>9. /\ CredTypes' /\ BasesAreRows' /\ FlightsHaveOwners' /\ RefusalsAreKnown'
      /\ TokensGrow' /\ NewTokensAreNew' /\ AliasesEnd' /\ NewestIsStored' /\ SlotsFollow'
      /\ ResultsAreKept'
      /\ view'[p] = n /\ base'[p] = accountRow
      /\ \A q \in PoolProcesses : q # p => SaveHolds(q)'
      /\ ~RotatesTo(p, n) => UNCHANGED aliases
  BY <1>2, <1>3, <1>7, <1>8, ViewMoves
<1>10. SaveHolds(p)'
  <2>1. CASE saving[p].kind = "refresh"
    <3>1. Exists(view[p]) /\ Exists(n) /\ n.token = view[p].token
      BY <1>3, <1>4, <2>1 DEF SaveHolds
    <3>2. aliases' = aliases  BY <1>9, <3>1 DEF RotatesTo
    <3> QED  BY <1>2, <1>3, <1>4, <1>6, <1>7, <1>9, <2>1, <3>1, <3>2 DEF SaveHolds
  <2>2. CASE saving[p].kind = "terminal"
    <3>1. Exists(accountRow) /\ Exists(view[p]) /\ Exists(n)
      BY <1>3, <1>4, <2>2 DEF SaveHolds, CredInv, BasesAreRows
    <3> QED  BY <1>2, <1>3, <1>4, <1>6, <1>7, <1>9, <2>2, <3>1 DEF SaveHolds
  <2>3. CASE saving[p].kind = "result"
    <3>1. Exists(accountRow) => Exists(view[p])
      BY <1>4, <2>3 DEF SaveHolds, CredInv, BasesAreRows
    <3> QED  BY <1>2, <1>3, <1>4, <1>6, <1>7, <1>9, <2>3, <3>1 DEF SaveHolds
  <2>4. CASE saving[p].kind = "delete"
    <3>1. view[p] = NoAccount /\ ~Exists(view[p])  BY <1>4, <2>4, RowFacts DEF SaveHolds
    <3>2. n = NoAccount  BY <1>1, <3>1 DEF Merged
    <3> QED  BY <1>2, <1>3, <1>4, <1>6, <1>7, <1>9, <2>4, <3>1, <3>2 DEF SaveHolds
  <2>5. saving[p].kind \in {"refresh", "terminal", "result", "delete"}
    BY <1>2, <1>4 DEF SaveType, SaveKinds
  <2> QED  BY <2>1, <2>2, <2>3, <2>4, <2>5
<1>11. SavesHold'  BY <1>9, <1>10 DEF SavesHold
<1> QED  BY <1>9, <1>11 DEF CredInv

\* The tokens that a save which gives up moves to the stored one.
LEMMA GivenUpSources ==
  ASSUME CredInv, NEW p \in PoolProcesses, saving[p].kind # "none"
  PROVE  \E roots \in SUBSET Tokens :
           /\ saving[p].sources \cup (IF Exists(view[p]) THEN Sources(p, view[p].token) ELSE {})
                = StandingFor(p, roots)
           /\ Exists(view[p]) => view[p].token \in roots
           /\ \A s \in roots :
                /\ s <= liveToken
                /\ \A u \in RefreshThreads :
                     InHand(u) /\ (saving[p].kind = "refresh" => u # saving[p].by)
                       => s # caller[u].new
<1>1. /\ view[p] \in Account \cup {NoAccount} /\ saving[p] \in SaveType /\ SaveHolds(p)
      /\ aliases[p] \in [Tokens -> Tokens]
  BY DEF CredInv, CredTypes, CredTypeOK, SavesHold
<1>2. Exists(view[p]) =>
        /\ view[p].token \in Tokens
        /\ Sources(p, view[p].token)
             = {s \in Tokens : s = view[p].token \/ aliases[p][s] = view[p].token}
  BY <1>1, SourcesAre, RowFacts DEF CredInv
<1>3. CASE saving[p].kind = "refresh"
  <2>1. PICK t \in RefreshThreads, key \in Tokens, new \in Tokens :
          /\ saving[p].by = t /\ saving[p].expect = key /\ caller[t].key = key
          /\ caller[t].new = new /\ view[p].token = new /\ Exists(view[p]) /\ InHand(t)
          /\ saving[p].sources = {s \in Tokens : s = key \/ aliases[p][s] = key}
    <3>1. /\ saving[p].by \in RefreshThreads /\ ProcessOf[saving[p].by] = p
          /\ caller[saving[p].by].pc = "saving" /\ caller[saving[p].by].key = saving[p].expect
          /\ Exists(view[p]) /\ view[p].token = caller[saving[p].by].new
          /\ saving[p].sources
               = {s \in Tokens : s = saving[p].expect \/ aliases[p][s] = saving[p].expect}
      BY <1>1, <1>3 DEF SaveHolds
    <3>2. InHand(saving[p].by)  BY <1>3, <3>1 DEF InHand, Storing
    <3> QED  BY <3>1, <3>2, CallerParts
  <2>2. PICK roots \in SUBSET Tokens : roots = {key, new}  OBVIOUS
  <2>3. saving[p].sources \cup Sources(p, view[p].token) = StandingFor(p, roots)
    BY <1>2, <2>1, <2>2 DEF StandingFor
  <2>4. /\ new <= liveToken /\ key <= liveToken
        /\ \A u \in RefreshThreads : InHand(u) /\ u # t =>
             key # caller[u].new /\ new # caller[u].new
    <3>1. new = key + 1 /\ new <= liveToken /\ key <= liveToken
      BY <2>1 DEF CredInv, TokensGrow
    <3>2. ASSUME NEW u \in RefreshThreads, InHand(u), u # t
          PROVE  key # caller[u].new /\ new # caller[u].new
      <4>1. caller[u].key # key /\ key # caller[u].new
        BY <2>1, <3>2 DEF CredInv, NewTokensAreNew
      <4>2. caller[u].new = caller[u].key + 1 /\ caller[u].key \in Nat /\ key \in Nat
        BY <3>2, CallerParts, CredBounds DEF CredInv, TokensGrow, Tokens
      <4> QED  BY <3>1, <4>1, <4>2
    <3> QED  BY <3>1, <3>2
  <2> QED  BY <1>3, <2>1, <2>2, <2>3, <2>4
<1>4. CASE saving[p].kind # "refresh"
  <2>1. saving[p].sources = {}
    BY <1>1, <1>4 DEF SaveHolds, SaveType, SaveKinds
  <2>2. CASE Exists(view[p])
    <3>1. PICK roots \in SUBSET Tokens : roots = {view[p].token}  BY <1>2, <2>2
    <3>2. saving[p].sources \cup Sources(p, view[p].token) = StandingFor(p, roots)
      BY <1>2, <2>1, <2>2, <3>1 DEF StandingFor
    <3>3. view[p].token = base[p].token
      BY <1>1, <1>4, <2>2 DEF SaveHolds
    <3>4. /\ view[p].token <= liveToken
          /\ \A u \in RefreshThreads : InHand(u) => view[p].token # caller[u].new
      BY <3>3 DEF CredInv, TokensGrow, NewTokensAreNew
    <3> QED  BY <1>4, <2>2, <3>1, <3>2, <3>4
  <2>3. CASE ~Exists(view[p])
    <3>1. PICK roots \in SUBSET Tokens : roots = {}  OBVIOUS
    <3>2. saving[p].sources \cup {} = StandingFor(p, roots)
      BY <2>1, <3>1 DEF StandingFor
    <3> QED  BY <2>3, <3>1, <3>2
  <2> QED  BY <2>2, <2>3
<1> QED  BY <1>3, <1>4

\* What a save that gives up finds: another credential, or its attempts used up.
LEMMA SaveIsOver ==
  ASSUME CredInv, NEW p \in PoolProcesses, SaveGivesUp(p)
  PROVE  /\ saving[p].kind # "none" /\ saving' = [saving EXCEPT ![p] = NotSaving]
         /\ view' = [view EXCEPT ![p] = accountRow]
         /\ base' = [base EXCEPT ![p] = accountRow] /\ upToDate' = upToDate \cup {p}
         /\ UNCHANGED <<accountRow, liveToken, refused, holder, credited>>
         /\ \E result : After(saving[p], result)
         /\ mishap' \in BOOLEAN
         /\ ~mishap' => ~mishap
         /\ ~mishap' /\ Exists(accountRow) =>
              /\ saving[p].kind = "terminal" /\ Exists(view[p])
              /\ view[p].token # accountRow.token
<1>1. /\ saving[p].kind # "none" /\ saving' = [saving EXCEPT ![p] = NotSaving]
      /\ view' = [view EXCEPT ![p] = accountRow]
      /\ base' = [base EXCEPT ![p] = accountRow] /\ upToDate' = upToDate \cup {p}
      /\ UNCHANGED <<accountRow, liveToken, refused, holder>>
  BY DEF SaveGivesUp
<1>2. PICK superseded \in BOOLEAN :
        /\ superseded => Superseded(p)
        /\ After(saving[p], IF superseded THEN "superseded" ELSE "failed")
  <2> DEFINE over == p \notin upToDate /\ saving[p].tries + 1 < SaveAttempts /\ Superseded(p)
  <2>1. After(saving[p], IF over THEN "superseded" ELSE "failed")  BY DEF SaveGivesUp
  <2>2. CASE over  BY <2>1, <2>2
  <2>3. CASE ~over  BY <2>1, <2>3
  <2> QED  BY <2>2, <2>3
<1>3. mishap \in BOOLEAN  BY DEF CredInv, CredTypes
<1>4. credited' = credited  BY <1>2 DEF After
<1>5. mishap' = (mishap \/ (IF superseded THEN "superseded" ELSE "failed") = "failed")
  BY <1>2 DEF After
<1>6. mishap' \in BOOLEAN /\ (~mishap' => ~mishap /\ superseded)
  BY <1>3, <1>5
<1>7. ASSUME ~mishap', Exists(accountRow)
      PROVE  /\ saving[p].kind = "terminal" /\ Exists(view[p])
             /\ view[p].token # accountRow.token
  <2>1. saving[p].expect # -1 /\ accountRow.token # saving[p].expect
    BY <1>2, <1>6, <1>7 DEF Superseded
  <2>2. SaveHolds(p) /\ saving[p] \in SaveType  BY DEF CredInv, CredTypes, SavesHold
  <2>3. saving[p].kind \in {"refresh", "terminal"}
    BY <1>1, <2>1, <2>2 DEF SaveHolds, SaveType, SaveKinds
  <2>4. saving[p].kind # "refresh"
    <3> SUFFICES ASSUME saving[p].kind = "refresh"  PROVE FALSE
      OBVIOUS
    <3>1. /\ saving[p].by \in RefreshThreads /\ InHand(saving[p].by)
          /\ caller[saving[p].by].key = saving[p].expect
      BY <2>2 DEF SaveHolds, InHand, Storing
    <3> QED  BY <1>6, <1>7, <2>1, <3>1 DEF CredInv, NewestIsStored
  <2>5. Exists(base[p])  BY <1>7 DEF CredInv, BasesAreRows
  <2>6. Exists(view[p])  BY <2>2, <2>3, <2>4, <2>5 DEF SaveHolds
  <2>7. view[p].token = saving[p].expect
    BY <2>2, <2>3, <2>4, <2>6 DEF SaveHolds
  <2> QED  BY <2>1, <2>3, <2>4, <2>6, <2>7
<1> QED  BY <1>1, <1>2, <1>4, <1>6, <1>7

\* The aliases that a save leaves when it gives up.
LEMMA GivenUpAliases ==
  ASSUME CredInv, NEW p \in PoolProcesses, SaveGivesUp(p)
  PROVE  /\ aliases' \in [PoolProcesses -> [Tokens -> Tokens]]
         /\ inflight' \in [PoolProcesses -> [Tokens -> Nat]]
         /\ \A q \in PoolProcesses : q # p => aliases'[q] = aliases[q] /\ inflight'[q] = inflight[q]
         /\ Exists(accountRow) => aliases'[p][accountRow.token] = accountRow.token
         /\ \A s \in Tokens :
              /\ aliases'[p][aliases'[p][s]] = aliases'[p][s]
              /\ aliases'[p][s] # s =>
                   /\ s <= liveToken /\ s # accountRow.token
                   /\ \A u \in RefreshThreads :
                        InHand(u) /\ (saving[p].kind = "refresh" => u # saving[p].by)
                          => s # caller[u].new
         /\ Exists(accountRow) /\ ~mishap' =>
              /\ inflight'[p] = [s \in Tokens |->
                   IF s = accountRow.token /\ holder[p] # -1 THEN 1 ELSE 0]
              /\ holder[p] # -1 => aliases'[p][holder[p]] = accountRow.token
                                   \/ holder[p] = accountRow.token
<1>1. /\ aliases \in [PoolProcesses -> [Tokens -> Tokens]]
      /\ inflight \in [PoolProcesses -> [Tokens -> Nat]]
      /\ holder \in [PoolProcesses -> Tokens \cup {-1}]
      /\ accountRow \in Account \cup {NoAccount}
      /\ view[p] \in Account \cup {NoAccount}
  BY DEF CredInv, CredTypes, CredTypeOK
<1>2. /\ saving[p].kind # "none"
      /\ ~mishap' => ~mishap
      /\ ~mishap' /\ Exists(accountRow) =>
           saving[p].kind = "terminal" /\ Exists(view[p]) /\ view[p].token # accountRow.token
  BY SaveIsOver
<1>3. \A s \in Tokens :
        /\ aliases[p][aliases[p][s]] = aliases[p][s]
        /\ aliases[p][s] # s =>
             /\ s <= liveToken /\ s # accountRow.token
             /\ \A u \in RefreshThreads : InHand(u) => s # caller[u].new
  BY DEF CredInv, AliasesEnd
<1>4. PICK sources : sources = saving[p].sources \cup
                       (IF Exists(view[p]) THEN Sources(p, view[p].token) ELSE {})
  OBVIOUS
<1>5. PICK roots \in SUBSET Tokens :
        /\ sources = StandingFor(p, roots)
        /\ Exists(view[p]) => view[p].token \in roots
        /\ \A s \in roots :
             /\ s <= liveToken
             /\ \A u \in RefreshThreads :
                  InHand(u) /\ (saving[p].kind = "refresh" => u # saving[p].by)
                    => s # caller[u].new
  BY <1>2, <1>4, GivenUpSources
<1>6. CASE Exists(accountRow)
  <2>1. PICK new \in Tokens : new = accountRow.token  BY <1>1, <1>6, RowFacts
  <2>2. aliases[p][new] = new  BY <1>3, <2>1
  <2>3. PICK moved : moved = MovedAliases(p, new, sources)  OBVIOUS
  <2>4. /\ moved \in [Tokens -> Tokens] /\ moved[new] = new
        /\ \A s \in Tokens :
             /\ moved[moved[s]] = moved[s]
             /\ moved[s] # s => aliases[p][s] # s \/ s \in roots \ {new}
             /\ s \in sources => moved[s] = new
    <3>1. CredTypes /\ AliasesEnd  BY DEF CredInv
    <3>2. /\ MovedAliases(p, new, sources) \in [Tokens -> Tokens]
          /\ MovedAliases(p, new, sources)[new] = new
          /\ \A s \in Tokens :
               /\ MovedAliases(p, new, sources)[MovedAliases(p, new, sources)[s]]
                    = MovedAliases(p, new, sources)[s]
               /\ MovedAliases(p, new, sources)[s] # s =>
                    aliases[p][s] # s \/ s \in roots \ {new}
               /\ s \in sources => MovedAliases(p, new, sources)[s] = new
      BY <1>5, <2>2, <3>1, AliasesMove
    <3> QED  BY <2>3, <3>2
  <2>5. /\ aliases' = [aliases EXCEPT ![p] = moved]
        /\ inflight' = [inflight EXCEPT ![p] = MovedInflight(p, new, sources)]
    BY <1>4, <1>6, <2>1, <2>3 DEF SaveGivesUp
  <2>6. sources \in SUBSET Tokens  BY <1>5 DEF StandingFor
  <2>7. MovedInflight(p, new, sources) \in [Tokens -> Nat]
    BY <2>6, MovedCounts DEF CredInv
  <2>8. /\ aliases'[p] = moved /\ aliases' \in [PoolProcesses -> [Tokens -> Tokens]]
        /\ inflight'[p] = MovedInflight(p, new, sources)
        /\ inflight' \in [PoolProcesses -> [Tokens -> Nat]]
        /\ \A q \in PoolProcesses : q # p => aliases'[q] = aliases[q] /\ inflight'[q] = inflight[q]
    BY <1>1, <2>4, <2>5, <2>7
  <2>9. \A s \in Tokens : aliases'[p][s] # s =>
          /\ s <= liveToken /\ s # accountRow.token
          /\ \A u \in RefreshThreads :
               InHand(u) /\ (saving[p].kind = "refresh" => u # saving[p].by) => s # caller[u].new
    BY <1>3, <1>5, <2>1, <2>4, <2>8
  <2>10. ASSUME ~mishap'
         PROVE  /\ inflight'[p] = [s \in Tokens |->
                     IF s = new /\ holder[p] # -1 THEN 1 ELSE 0]
                /\ holder[p] # -1 => aliases'[p][holder[p]] = new \/ holder[p] = new
    <3>1. PICK old \in Tokens : old = view[p].token /\ old # new /\ old \in sources
      <4>1. Exists(view[p]) /\ view[p].token # new  BY <1>2, <1>6, <2>1, <2>10
      <4>2. view[p].token \in Tokens /\ view[p].token \in roots  BY <1>1, <1>5, <4>1, RowFacts
      <4> QED  BY <1>5, <4>1, <4>2 DEF StandingFor
    <3>2. SlotHeld(p) /\ saving[p].kind # "refresh"
      BY <1>2, <1>6, <2>10 DEF CredInv, SlotsFollow
    <3>3. SlotOf(p) = old  BY <3>1, <3>2 DEF SlotOf
    <3>4. PICK held \in BOOLEAN : held <=> holder[p] # -1  OBVIOUS
    <3>5. inflight[p] = [s \in Tokens |-> IF s = old /\ held THEN 1 ELSE 0]
      BY <3>2, <3>3, <3>4 DEF SlotHeld
    <3>6. MovedInflight(p, new, sources) = [s \in Tokens |-> IF s = new /\ held THEN 1 ELSE 0]
      BY <2>6, <3>1, <3>5, MovedSlot
    <3>7. ASSUME holder[p] # -1  PROVE aliases'[p][holder[p]] = new
      <4>1. holder[p] \in Tokens /\ Alias(p, holder[p]) = old
        BY <1>1, <3>1, <3>2, <3>7 DEF SlotHeld
      <4>2. old \in roots  BY <1>2, <1>5, <1>6, <2>10, <3>1
      <4>3. holder[p] \in sources
        BY <1>5, <3>1, <4>1, <4>2 DEF Alias, StandingFor
      <4> QED  BY <2>4, <2>8, <4>1, <4>3
    <3> QED  BY <2>8, <3>4, <3>6, <3>7
  <2> QED  BY <2>1, <2>4, <2>8, <2>9, <2>10
<1>7. CASE ~Exists(accountRow) /\ saving[p].kind = "refresh"
  <2>1. /\ aliases' = [aliases EXCEPT ![p] = [s \in Tokens |-> s]]
        /\ inflight' = [inflight EXCEPT ![p] = [s \in Tokens |-> 0]]
    BY <1>7 DEF SaveGivesUp
  <2>2. /\ aliases'[p] = [s \in Tokens |-> s] /\ aliases' \in [PoolProcesses -> [Tokens -> Tokens]]
        /\ inflight' \in [PoolProcesses -> [Tokens -> Nat]]
        /\ \A q \in PoolProcesses : q # p => aliases'[q] = aliases[q] /\ inflight'[q] = inflight[q]
    BY <1>1, <2>1
  <2> QED  BY <1>7, <2>2
<1>8. CASE ~Exists(accountRow) /\ saving[p].kind # "refresh"
  <2>1. UNCHANGED <<aliases, inflight>>  BY <1>8 DEF SaveGivesUp
  <2> QED  BY <1>1, <1>3, <1>8, <2>1
<1> QED  BY <1>6, <1>7, <1>8

\* A save that gives up takes the stored row instead: another credential is there
\* (superseded), or _restore_accounts_after_save_error.
LEMMA CredSaveGivesUp ==
  ASSUME CredInv, NEW p \in PoolProcesses, SaveGivesUp(p)
  PROVE  CredInv'
<1>1. /\ saving[p].kind # "none" /\ saving' = [saving EXCEPT ![p] = NotSaving]
      /\ view' = [view EXCEPT ![p] = accountRow]
      /\ base' = [base EXCEPT ![p] = accountRow] /\ upToDate' = upToDate \cup {p}
      /\ UNCHANGED <<accountRow, liveToken, refused, holder, credited>>
      /\ mishap' \in BOOLEAN
      /\ ~mishap' => ~mishap
      /\ ~mishap' /\ Exists(accountRow) => saving[p].kind = "terminal"
  BY SaveIsOver
<1>2. PICK result : After(saving[p], result)  BY SaveIsOver
<1>3. /\ caller' \in [RefreshThreads -> CallerType]
      /\ flights' \in [PoolProcesses -> [Tokens -> FlightStates]]
      /\ saving' \in [PoolProcesses -> SaveType] /\ saving'[p] = NotSaving
      /\ \A q \in PoolProcesses : q # p => saving'[q] = saving[q]
      /\ \A u \in RefreshThreads :
           /\ ProcessOf[u] # p => caller'[u] = caller[u]
           /\ caller'[u].key \in {caller[u].key, 0}
           /\ InHand(u)' => InHand(u) /\ caller'[u] = caller[u]
           /\ saving[p].kind = "refresh" /\ u = saving[p].by => InHand(u) /\ ~InHand(u)'
           /\ saving[p].kind # "refresh" \/ u # saving[p].by => (InHand(u)' <=> InHand(u))
      /\ FlightsHaveOwners' /\ RefusalsAreKnown'
  BY <1>1, <1>2, SaveEnds
<1>4. /\ aliases' \in [PoolProcesses -> [Tokens -> Tokens]]
      /\ inflight' \in [PoolProcesses -> [Tokens -> Nat]]
      /\ \A q \in PoolProcesses : q # p => aliases'[q] = aliases[q] /\ inflight'[q] = inflight[q]
      /\ Exists(accountRow) => aliases'[p][accountRow.token] = accountRow.token
      /\ \A s \in Tokens :
           /\ aliases'[p][aliases'[p][s]] = aliases'[p][s]
           /\ aliases'[p][s] # s =>
                /\ s <= liveToken /\ s # accountRow.token
                /\ \A u \in RefreshThreads :
                     InHand(u) /\ (saving[p].kind = "refresh" => u # saving[p].by)
                       => s # caller[u].new
      /\ Exists(accountRow) /\ ~mishap' =>
           /\ inflight'[p] = [s \in Tokens |->
                IF s = accountRow.token /\ holder[p] # -1 THEN 1 ELSE 0]
           /\ holder[p] # -1 => aliases'[p][holder[p]] = accountRow.token
                                \/ holder[p] = accountRow.token
  BY GivenUpAliases
<1>5. /\ view \in [PoolProcesses -> Account \cup {NoAccount}]
      /\ base \in [PoolProcesses -> Account \cup {NoAccount}]
      /\ accountRow \in Account \cup {NoAccount}
  BY DEF CredInv, CredTypes, CredTypeOK
<1>6. /\ view'[p] = accountRow /\ \A q \in PoolProcesses : q # p => view'[q] = view[q]
      /\ view' \in [PoolProcesses -> Account \cup {NoAccount}]
      /\ base'[p] = accountRow /\ \A q \in PoolProcesses : q # p => base'[q] = base[q]
      /\ base' \in [PoolProcesses -> Account \cup {NoAccount}]
  BY <1>1, <1>5
<1>7. CredTypes'
  <2>1. \A q \in PoolProcesses : saving'[q].tries < SaveAttempts
    BY <1>3, CredBounds DEF SaveType
  <2> QED
    BY <1>1, <1>3, <1>4, <1>6, <2>1 DEF CredInv, CredTypes, CredTypeOK, FlightStates
<1>8. SavesHold'
  <2> SUFFICES ASSUME NEW q \in PoolProcesses  PROVE SaveHolds(q)'
    BY DEF SavesHold
  <2>1. CASE q = p  BY <1>3, <1>6, <2>1 DEF SaveHolds, NotSaving
  <2>2. CASE q # p
    <3>1. SaveHolds(q)  BY DEF CredInv, SavesHold
    <3>2. saving[q].kind \in {"refresh", "terminal"} =>
            caller'[saving[q].by] = caller[saving[q].by]
      BY <1>3, <2>2, <3>1 DEF SaveHolds
    <3> QED  BY <1>3, <1>4, <1>6, <2>2, <3>1, <3>2 DEF SaveHolds
  <2> QED  BY <2>1, <2>2
<1>9. BasesAreRows'
  BY <1>1, <1>6 DEF CredInv, BasesAreRows
<1>10. TokensGrow'
  <2>1. TokensGrow  BY DEF CredInv
  <2>2. liveToken \in Nat /\ \A s \in Tokens : s \in Nat
    BY CredBounds DEF CredInv, CredTypes, CredTypeOK, Tokens
  <2>3. Exists(accountRow) => accountRow.token \in Nat  BY <1>5, <2>2, RowFacts
  <2>4. accountRow.token \in Int  BY <1>5, RowFacts
  <2>5. \A q \in PoolProcesses :
          /\ base'[q].token <= liveToken
          /\ Exists(accountRow) => base'[q].token <= accountRow.token
    BY <1>6, <2>1, <2>4 DEF TokensGrow
  <2>6. ASSUME NEW u \in RefreshThreads
        PROVE  /\ caller'[u].key <= liveToken
               /\ Exists(accountRow) => caller'[u].key <= accountRow.token
               /\ Exists(base'[ProcessOf[u]]) => caller'[u].key <= base'[ProcessOf[u]].token
               /\ InHand(u)' => caller'[u].new = caller'[u].key + 1 /\ caller'[u].new <= liveToken
    <3>1. caller'[u].key \in {caller[u].key, 0}  BY <1>3
    <3>2. caller'[u].key <= liveToken /\ (Exists(accountRow) => caller'[u].key <= accountRow.token)
      BY <2>1, <2>2, <2>3, <3>1 DEF TokensGrow
    <3>3. Exists(base'[ProcessOf[u]]) => caller'[u].key <= base'[ProcessOf[u]].token
      <4>1. CASE ProcessOf[u] = p  BY <1>6, <3>2, <4>1
      <4>2. CASE ProcessOf[u] # p
        <5>1. base'[ProcessOf[u]] = base[ProcessOf[u]] /\ caller'[u] = caller[u]
          BY <1>3, <1>6, <4>2, CallerParts
        <5> QED  BY <2>1, <5>1 DEF TokensGrow
      <4> QED  BY <4>1, <4>2
    <3>4. InHand(u)' => InHand(u) /\ caller'[u] = caller[u]  BY <1>3
    <3> QED  BY <2>1, <3>2, <3>3, <3>4 DEF TokensGrow
  <2>7. accountRow'.token <= liveToken'  BY <1>1, <2>1 DEF TokensGrow
  <2> QED  BY <1>1, <2>5, <2>6, <2>7 DEF TokensGrow
<1>11. NewTokensAreNew'
  <2> SUFFICES ASSUME NEW u \in RefreshThreads, InHand(u)'
               PROVE  /\ accountRow.token # caller'[u].new
                      /\ \A q \in PoolProcesses : base'[q].token # caller'[u].new
                      /\ \A w \in RefreshThreads \ {u} :
                           InHand(w)' => caller'[w].key # caller'[u].key
                      /\ \A w \in RefreshThreads : caller'[w].key # caller'[u].new
    BY <1>1 DEF NewTokensAreNew
  <2>1. InHand(u) /\ caller'[u] = caller[u]  BY <1>3
  <2>2. /\ accountRow.token # caller[u].new
        /\ \A q \in PoolProcesses : base[q].token # caller[u].new
        /\ \A w \in RefreshThreads \ {u} : InHand(w) => caller[w].key # caller[u].key
        /\ \A w \in RefreshThreads : caller[w].key # caller[u].new
    BY <2>1 DEF CredInv, NewTokensAreNew
  <2>3. caller[u].new # 0
    BY <2>1, CallerParts, CredBounds DEF CredInv, TokensGrow, Tokens
  <2>4. \A q \in PoolProcesses : base'[q].token # caller'[u].new
    BY <1>6, <2>1, <2>2
  <2>5. \A w \in RefreshThreads \ {u} : InHand(w)' => caller'[w].key # caller'[u].key
    BY <1>3, <2>1, <2>2
  <2>6. \A w \in RefreshThreads : caller'[w].key # caller'[u].new
    BY <1>3, <2>1, <2>2, <2>3
  <2> QED  BY <2>1, <2>2, <2>4, <2>5, <2>6
<1>12. AliasesEnd'
  <2> SUFFICES ASSUME NEW q \in PoolProcesses
               PROVE  /\ Exists(view'[q]) => aliases'[q][view'[q].token] = view'[q].token
                      /\ \A s \in Tokens :
                           /\ aliases'[q][aliases'[q][s]] = aliases'[q][s]
                           /\ aliases'[q][s] # s =>
                                /\ s <= liveToken
                                /\ s # accountRow.token
                                /\ \A u \in RefreshThreads : InHand(u)' => s # caller'[u].new
    BY <1>1 DEF AliasesEnd
  <2>1. \A u \in RefreshThreads : InHand(u)' =>
          /\ InHand(u) /\ caller'[u] = caller[u]
          /\ saving[p].kind = "refresh" => u # saving[p].by
    BY <1>3
  <2>2. CASE q = p  BY <1>4, <1>6, <2>1, <2>2
  <2>3. CASE q # p
    <3>1. aliases'[q] = aliases[q] /\ view'[q] = view[q]  BY <1>4, <1>6, <2>3
    <3>2. /\ Exists(view[q]) => aliases[q][view[q].token] = view[q].token
          /\ \A s \in Tokens :
               /\ aliases[q][aliases[q][s]] = aliases[q][s]
               /\ aliases[q][s] # s =>
                    /\ s <= liveToken /\ s # accountRow.token
                    /\ \A u \in RefreshThreads : InHand(u) => s # caller[u].new
      BY DEF CredInv, AliasesEnd
    <3> QED  BY <2>1, <3>1, <3>2
  <2> QED  BY <2>2, <2>3
<1>13. NewestIsStored'
  <2> SUFFICES ASSUME Exists(accountRow), ~mishap'
               PROVE  /\ \A u \in RefreshThreads : InHand(u)' =>
                           caller'[u].key = accountRow.token /\ liveToken = accountRow.token + 1
                      /\ (\A u \in RefreshThreads : ~InHand(u)') => accountRow.token = liveToken
    BY <1>1 DEF NewestIsStored
  <2>1. ~mishap /\ saving[p].kind = "terminal"  BY <1>1
  <2>2. \A u \in RefreshThreads : InHand(u)' <=> InHand(u)  BY <1>3, <2>1
  <2>3. \A u \in RefreshThreads : InHand(u)' => caller'[u] = caller[u]  BY <1>3
  <2> QED  BY <2>1, <2>2, <2>3 DEF CredInv, NewestIsStored
<1>14. SlotsFollow'
  <2> SUFFICES ASSUME ~mishap', NEW q \in PoolProcesses, Exists(view'[q])
               PROVE  SlotHeld(q)'
    BY DEF SlotsFollow
  <2>1. CASE q = p
    <3>1. Exists(accountRow) /\ view'[p].token = accountRow.token  BY <1>6, <2>1
    <3>2. saving'[p].kind = "none" /\ SlotOf(p)' = accountRow.token
      BY <1>3, <3>1 DEF SlotOf, NotSaving
    <3>3. holder[p] # -1 => Alias(p, holder[p])' = accountRow.token
      BY <1>1, <1>4, <3>1 DEF Alias
    <3> QED  BY <1>1, <1>4, <2>1, <3>1, <3>2, <3>3 DEF SlotHeld
  <2>2. CASE q # p
    <3>1. SlotHeld(q)  BY <1>1, <1>6, <2>2 DEF CredInv, SlotsFollow
    <3> QED  BY <1>1, <1>3, <1>4, <1>6, <2>2, <3>1 DEF SlotHeld, SlotOf, Alias
  <2> QED  BY <2>1, <2>2
<1>15. ResultsAreKept'  BY <1>1 DEF CredInv, ResultsAreKept
<1> QED
  BY <1>3, <1>7, <1>8, <1>9, <1>10, <1>11, <1>12, <1>13, <1>14, <1>15 DEF CredInv

\* The first state.
LEMMA CredBegins == CredInit => CredInv
<1> SUFFICES ASSUME CredInit  PROVE CredInv
  OBVIOUS
<1>1. 0 \in Tokens /\ Tokens \subseteq Nat  BY CredBounds DEF Tokens
<1>2. /\ accountRow = [token |-> 0, dead |-> FALSE, success |-> 0]
      /\ \A p \in PoolProcesses : view[p] = accountRow /\ base[p] = accountRow
      /\ view \in [PoolProcesses -> {accountRow}] /\ base \in [PoolProcesses -> {accountRow}]
      /\ upToDate = PoolProcesses
      /\ liveToken = 0 /\ refused = {} /\ credited = 0 /\ mishap = FALSE
  BY DEF CredInit
<1>3. accountRow.token = 0 /\ accountRow.success = 0 /\ accountRow \in Account
  BY <1>1, <1>2 DEF Account
<1>4. Exists(accountRow)  BY <1>3 DEF Exists
<1>5. /\ \A p \in PoolProcesses :
           saving[p] = NotSaving /\ saving[p].kind = "none" /\ saving[p].tries = 0
      /\ saving \in [PoolProcesses -> SaveType]
  <2>1. 0 \in 0..(SaveAttempts - 1)  BY CredBounds
  <2>2. NotSaving \in SaveType  BY <2>1 DEF NotSaving, SaveType, SaveKinds
  <2> QED  BY <2>2 DEF CredInit, NotSaving
<1>6. /\ \A t \in RefreshThreads :
           caller[t].pc = "idle" /\ caller[t].key = 0 /\ caller[t].owner = FALSE
      /\ caller \in [RefreshThreads -> CallerType]
  <2>1. IdleCaller \in CallerType  BY <1>1 DEF IdleCaller, CallerType, CallerPcs
  <2> QED  BY <2>1 DEF CredInit, IdleCaller
<1>7. /\ \A p \in PoolProcesses, k \in Tokens : flights[p][k] = "none"
      /\ flights \in [PoolProcesses -> [Tokens -> FlightStates]]
  BY DEF CredInit, FlightStates
<1>8. /\ \A p \in PoolProcesses : /\ aliases[p] = [k \in Tokens |-> k]
                                  /\ inflight[p] = [k \in Tokens |-> 0]
                                  /\ holder[p] = -1
      /\ aliases \in [PoolProcesses -> [Tokens -> Tokens]]
      /\ inflight \in [PoolProcesses -> [Tokens -> Nat]]
      /\ holder \in [PoolProcesses -> Tokens \cup {-1}]
  BY <1>1 DEF CredInit
<1>9. \A t \in RefreshThreads : ~InHand(t)  BY <1>6 DEF InHand, Storing
<1>10. CredTypes
  <2>1. \A p \in PoolProcesses : saving[p].tries < SaveAttempts  BY <1>5, CredBounds
  <2>2. mishap \in BOOLEAN  BY <1>2
  <2>3. /\ view \in [PoolProcesses -> Account \cup {NoAccount}]
        /\ base \in [PoolProcesses -> Account \cup {NoAccount}]
    BY <1>2, <1>3
  <2>4. liveToken \in Tokens /\ refused \subseteq Tokens  BY <1>1, <1>2
  <2>5. CredTypeOK
    BY <1>3, <1>7, <1>8, <2>1, <2>3, <2>4 DEF CredTypeOK, FlightStates
  <2> QED  BY <1>2, <1>5, <1>6, <1>8, <2>2, <2>5 DEF CredTypes
<1>11. SavesHold  BY <1>2, <1>5 DEF SavesHold, SaveHolds
<1>12. BasesAreRows  BY <1>2 DEF BasesAreRows
<1>13. FlightsHaveOwners  BY <1>6, <1>7 DEF FlightsHaveOwners, OwnerPcs
<1>14. RefusalsAreKnown  BY <1>5, <1>6, <1>7 DEF RefusalsAreKnown
<1>15. TokensGrow
  <2>1. \A t \in RefreshThreads : ProcessOf[t] \in PoolProcesses  BY CredBounds
  <2> QED  BY <1>2, <1>3, <1>6, <1>9, <2>1 DEF TokensGrow
<1>16. NewTokensAreNew  BY <1>9 DEF NewTokensAreNew
<1>17. AliasesEnd  BY <1>1, <1>2, <1>3, <1>8 DEF AliasesEnd
<1>18. NewestIsStored  BY <1>2, <1>3, <1>9 DEF NewestIsStored
<1>19. SlotsFollow  BY <1>8 DEF SlotsFollow, SlotHeld
<1>20. ResultsAreKept  BY <1>2, <1>3 DEF ResultsAreKept
<1> QED
  BY <1>10, <1>11, <1>12, <1>13, <1>14, <1>15, <1>16, <1>17, <1>18, <1>19, <1>20 DEF CredInv

\* Every step of a process or a thread keeps the invariant.
LEMMA CredSteps == CredInv /\ [CredNext]_credVars => CredInv'
<1> SUFFICES ASSUME CredInv, [CredNext]_credVars  PROVE CredInv'
  OBVIOUS
<1>1. ASSUME NEW p \in PoolProcesses,
             SaveStep(p) \/ RefreshView(p) \/ TakeSlot(p) \/ RecordResult(p) \/ DeleteAccount(p)
      PROVE  CredInv'
  <2>1. CASE SaveCommits(p)  BY <2>1, CredTokensStored, CredOtherStored
  <2>2. CASE SaveMerges(p)  BY <2>2, CredSaveMerges
  <2>3. CASE SaveGivesUp(p)  BY <2>3, CredSaveGivesUp
  <2>4. CASE RefreshView(p)  BY <2>4, CredRefreshView
  <2>5. CASE TakeSlot(p)  BY <2>5, CredTakeSlot
  <2>6. CASE RecordResult(p)  BY <2>6, CredRecordResult
  <2>7. CASE DeleteAccount(p)  BY <2>7, CredDeleteAccount
  <2> QED  BY <1>1, <2>1, <2>2, <2>3, <2>4, <2>5, <2>6, <2>7 DEF SaveStep
<1>2. ASSUME NEW t \in RefreshThreads, StartMaintain(t) \/ Advance(t)
      PROVE  CredInv'
  <2>1. CASE StartMaintain(t)  BY <2>1, CredStartMaintain
  <2>2. CASE JoinFlight(t)  BY <2>2, CredJoinFlight
  <2>3. CASE Exchange(t)  BY <2>3, CredAnswered, CredRefused
  <2>4. CASE ExchangeFails(t)  BY <2>4, CredExchangeFails
  <2>5. CASE CheckRefused(t)  BY <2>5, CredCheckRefused
  <2>6. CASE ApplyRefreshed(t)  BY <2>6, CredTokensApplied, CredTokensDropped
  <2>7. CASE Wake(t)  BY <2>7, CredWake
  <2>8. CASE RecordTerminal(t)  BY <2>8, CredRefusalNoted, CredRefusalDropped
  <2>9. CASE CloseFlight(t)  BY <2>9, CredCloseFlight
  <2> QED  BY <1>2, <2>1, <2>2, <2>3, <2>4, <2>5, <2>6, <2>7, <2>8, <2>9 DEF Advance
<1>3. ASSUME UNCHANGED credVars  PROVE CredInv'
  <2>1. \A p \in PoolProcesses : SaveHolds(p)'
    BY <1>3 DEF credVars, CredInv, SavesHold, SaveHolds
  <2>2. \A p \in PoolProcesses : SlotHeld(p) => SlotHeld(p)'
    BY <1>3 DEF credVars, SlotHeld, SlotOf, Alias
  <2>3. SlotsFollow'  BY <1>3, <2>2 DEF credVars, CredInv, SlotsFollow
  <2>4. CredTypes'  BY <1>3 DEF credVars, CredInv, CredTypes, CredTypeOK
  <2>5. FlightsHaveOwners' /\ RefusalsAreKnown'
    BY <1>3 DEF credVars, CredInv, FlightsHaveOwners, RefusalsAreKnown
  <2>6. BasesAreRows' /\ ResultsAreKept'
    BY <1>3 DEF credVars, CredInv, BasesAreRows, ResultsAreKept
  <2>7. TokensGrow' /\ NewTokensAreNew' /\ AliasesEnd' /\ NewestIsStored'
    BY <1>3 DEF credVars, CredInv, TokensGrow, NewTokensAreNew, AliasesEnd, NewestIsStored,
       InHand, Storing
  <2> QED  BY <2>1, <2>3, <2>4, <2>5, <2>6, <2>7 DEF CredInv, SavesHold
<1> QED  BY <1>1, <1>2, <1>3 DEF CredNext

\* The invariant holds in every state.
LEMMA CredAlways == CredSpec => []CredInv
<1>1. CredInv /\ [CredNext]_credVars => CredInv'  BY CredSteps
<1> QED  BY <1>1, CredBegins, PTL DEF CredSpec

\* What the invariant promises of results, credentials and slots.
LEMMA CredPromises ==
  ASSUME CredInv
  PROVE  /\ ResultsAreKept /\ ExchangedTokenSurvives /\ OneExchange
         /\ SlotFollowsToken /\ WaitersHaveOwner
<1>1. ResultsAreKept  BY DEF CredInv
<1>2. ExchangedTokenSurvives
  <2> SUFFICES ASSUME Exists(accountRow), ~mishap, ~Exchanging
               PROVE  accountRow.token = liveToken
    BY DEF ExchangedTokenSurvives
  <2>1. \A t \in RefreshThreads : ~InHand(t)  BY DEF Exchanging, InHand, Storing
  <2> QED  BY <2>1 DEF CredInv, NewestIsStored
<1>3. OneExchange
  BY DEF OneExchange, CredInv, FlightsHaveOwners, OwnerPcs
<1>4. SlotFollowsToken
  <2> SUFFICES ASSUME NEW p \in PoolProcesses, ~mishap, Unlocked(p), Exists(view[p])
               PROVE  inflight[p][view[p].token] = IF holder[p] # -1 THEN 1 ELSE 0
    BY DEF SlotFollowsToken
  <2>1. SlotHeld(p) /\ view[p] \in Account \cup {NoAccount}
    BY DEF CredInv, SlotsFollow, CredTypes, CredTypeOK
  <2>2. view[p].token \in Tokens  BY <2>1, RowFacts
  <2>3. SlotOf(p) = view[p].token  BY DEF SlotOf, Unlocked, NotSaving
  <2> QED  BY <2>1, <2>2, <2>3 DEF SlotHeld
<1>5. WaitersHaveOwner
  <2> SUFFICES ASSUME NEW t \in RefreshThreads, caller[t].pc = "waiting",
                      flights[ProcessOf[t]][caller[t].key] = "open"
               PROVE  \E u \in RefreshThreads :
                        /\ ProcessOf[u] = ProcessOf[t] /\ caller[u].key = caller[t].key
                        /\ caller[u].owner
                        /\ caller[u].pc \in {"exchange", "answered", "refused", "saving"}
    BY DEF WaitersHaveOwner
  <2>1. PICK u \in RefreshThreads :
          caller[u].owner /\ ProcessOf[u] = ProcessOf[t] /\ caller[u].key = caller[t].key
    BY CallerParts DEF CredInv, FlightsHaveOwners
  <2>2. /\ caller[u].pc \notin {"idle", "keyed", "waiting"}
        /\ caller[u].pc \notin {"closing", "terminal"}
    BY <2>1 DEF CredInv, FlightsHaveOwners
  <2>3. caller[u].pc \in CallerPcs  BY CallerParts DEF CallerType
  <2> QED  BY <2>1, <2>2, <2>3 DEF CallerPcs
<1> QED  BY <1>1, <1>2, <1>3, <1>4, <1>5

\* A step that ends the save of a refusal and writes the row is that save
\* (_save_accounts).
LEMMA RefusalMarksOne ==
  ASSUME CredInv, [CredNext]_credVars, NEW p \in PoolProcesses,
         saving[p].kind = "terminal", saving'[p].kind = "none",
         Exists(accountRow'), accountRow' # accountRow
  PROVE  accountRow'.token \in refused
<1>1. PICK q \in PoolProcesses : SaveCommits(q)
  <2>1. CASE \E q \in PoolProcesses : SaveStep(q)
    BY <2>1 DEF SaveStep, SaveMerges, SaveGivesUp
  <2>2. CASE \E q \in PoolProcesses :
               RefreshView(q) \/ TakeSlot(q) \/ RecordResult(q) \/ DeleteAccount(q)
    BY <2>2 DEF RefreshView, TakeSlot, RecordResult, DeleteAccount
  <2>3. CASE \E t \in RefreshThreads : StartMaintain(t) \/ Advance(t)
    BY <2>3 DEF StartMaintain, Advance, JoinFlight, Exchange, ExchangeFails, CheckRefused,
       ApplyRefreshed, Wake, RecordTerminal, CloseFlight
  <2>4. CASE UNCHANGED credVars  BY <2>4 DEF credVars
  <2> QED  BY <2>1, <2>2, <2>3, <2>4 DEF CredNext
<1>2. saving \in [PoolProcesses -> SaveType]  BY DEF CredInv, CredTypes
<1>3. q = p
  BY <1>1, <1>2 DEF SaveCommits
<1>4. accountRow' = view[p] /\ SaveHolds(p)
  BY <1>1, <1>3, SaveWrites
<1>5. accountRow'.token = saving[p].expect
  BY <1>4 DEF SaveHolds
<1> QED  BY <1>5 DEF CredInv, RefusalsAreKnown

\* No step brings a deleted row back.
LEMMA DeletedStays ==
  ASSUME CredInv, [CredNext]_credVars, ~Exists(accountRow)
  PROVE  ~Exists(accountRow')
<1>1. CASE \E p \in PoolProcesses : SaveCommits(p)
  <2>1. PICK p \in PoolProcesses : SaveCommits(p)  BY <1>1
  <2>2. /\ SaveHolds(p)
        /\ \/ UNCHANGED accountRow
           \/ base[p] = accountRow /\ accountRow' = view[p]
    BY <2>1, SaveWrites
  <2> QED  BY <2>2 DEF SaveHolds
<1>2. CASE \E p \in PoolProcesses : SaveMerges(p) \/ SaveGivesUp(p)
  BY <1>2 DEF SaveMerges, SaveGivesUp
<1>3. CASE \E q \in PoolProcesses :
             RefreshView(q) \/ TakeSlot(q) \/ RecordResult(q) \/ DeleteAccount(q)
  BY <1>3 DEF RefreshView, TakeSlot, RecordResult, DeleteAccount
<1>4. CASE \E t \in RefreshThreads : StartMaintain(t) \/ Advance(t)
  BY <1>4 DEF StartMaintain, Advance, JoinFlight, Exchange, ExchangeFails, CheckRefused,
     ApplyRefreshed, Wake, RecordTerminal, CloseFlight
<1>5. CASE UNCHANGED credVars  BY <1>5 DEF credVars
<1> QED  BY <1>1, <1>2, <1>3, <1>4, <1>5 DEF CredNext, SaveStep

\* Results, new tokens and slots survive the races of threads and processes, a refusal is
\* written to no other credential, and no late save brings a deleted account back
\* (_save_accounts, _merge_accounts_after_conflict, _oauth_refresh_flights).
THEOREM CredentialsKept == CredSpec => CredentialsAreKept
<1>1. CredInv /\ [CredNext]_credVars =>
        \A p \in PoolProcesses :
          saving[p].kind = "terminal" /\ saving'[p].kind = "none"
            /\ Exists(accountRow') /\ accountRow' # accountRow
          => accountRow'.token \in refused
  BY RefusalMarksOne
<1>2. CredInv /\ [CredNext]_credVars => (~Exists(accountRow) => ~Exists(accountRow'))
  BY DeletedStays
<1>3. CredInv => /\ ResultsAreKept /\ ExchangedTokenSurvives /\ OneExchange
                 /\ SlotFollowsToken /\ WaitersHaveOwner
  BY CredPromises
<1> QED
  BY <1>1, <1>2, <1>3, CredAlways, PTL
  DEF CredSpec, CredentialsAreKept, RefusalMarksItsCredential, DeletedStaysDeleted

=============================================================================
