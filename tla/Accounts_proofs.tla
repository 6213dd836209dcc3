---------------------------- MODULE Accounts_proofs ----------------------------
(***************************************************************************)
(* Proofs about Accounts, and about Organisations composed with it:        *)
(* revoked sessions stay out and the one that replaced them is let in,     *)
(* links and counters keep to their limits but for the requests that were  *)
(* at them at once, and so do the seats of teams, for every set of users   *)
(* and workers and every bound.                                            *)
(*                                                                         *)
(* The argument about limits counts, with what a limit has let through     *)
(* already, the requests that may still add to it: the sum never grows     *)
(* but when a request begins, and then it is within what that request saw  *)
(* and the number of those under way.  The argument about sessions is that *)
(* a revocation that commits over the generation it read writes the next.  *)
(***************************************************************************)
EXTENDS Organisations, FiniteSetTheorems, TLAPS

-----------------------------------------------------------------------------
(* The inductive invariant *)

Held == {w \in Workers : request[w] # Idle}

Signing == {w \in Workers : attempt[w] # Idle}

\* The generation of an account is the number of its revocations.
Generations ==
    \A u \in Users \ crossed :
        account[u] # Absent => account[u].version = epoch[u] + 1

\* A row that is not there yet was never revoked, and nothing refers to it.
NothingBefore ==
    /\ \A u \in Users : account[u] = Absent => epoch[u] = 0
    /\ \A l \in links : account[l.user] # Absent
    /\ \A t \in tokens : account[t.user] # Absent
    /\ \A w \in Held : account[request[w].user] # Absent
    /\ \A w \in Signing : attempt[w].row # Absent => account[attempt[w].user] # Absent

\* A token is of the generation of the revocation it follows; a challenge has a number.
TokensDated ==
    \A t \in tokens :
        /\ t.user \notin crossed => t.version = t.epoch + 1
        /\ t.scope = "mfa" => t.code # 0

\* So is the row that an attempt holds, and one with a challenge holds a row.
AttemptsDated ==
    \A w \in Signing : LET a == attempt[w] IN
        /\ a.row # Absent /\ a.user \notin crossed => a.row.version = a.since + 1
        /\ a.stage \in {"right", "burnt"} => a.code # 0
        /\ a.code # 0 => a.row # Absent

\* A request raises the generation by one exactly if it ends sessions.
RequestsSound ==
    \A w \in Held : LET r == request[w] IN
        r.new.version = IF r.ends THEN r.seen.version + 1 ELSE r.seen.version

\* The live links that no request of S is about to burn.
Unspent(kind, u, S) == {l \in Unused(kind, u) : \A w \in S : l.id \notin request[w].burn}

\* Whichever of the requests under way commit last, the links they leave and their own
\* are no more than were under way at once.
LinksBounded ==
    \A u \in Users, kind \in Kinds :
        /\ IsFiniteSet(Minting(kind, u)) /\ Cardinality(Minting(kind, u)) <= crowd[<<kind, u>>]
        /\ crowd[<<kind, u>>] >= 1
        /\ \A S \in SUBSET Minting(kind, u) :
              Cardinality(Unspent(kind, u, S)) + Cardinality(S) <= crowd[<<kind, u>>]

\* A counter that is not full has counted every try; one that is full lets pass no more
\* than the attempts that were let in before it was.
Counted(k) ==
    /\ IsFiniteSet(AtWork(k)) /\ Cardinality(AtWork(k)) <= crowd[k]
    /\ Full(k) => tries[k] + Cardinality(AtWork(k)) < Limit(k) + crowd[k]
    /\ ~ Full(k) => tries[k] <= hits[k]

CountersBounded == \A k \in Keys : Counted(k)

Dates == TypeOK /\ NothingBefore /\ Generations /\ TokensDated /\ AttemptsDated /\ RequestsSound

IInv == Dates /\ LinksBounded /\ CountersBounded

-----------------------------------------------------------------------------
(* Counts *)

LEMMA SubsetCounted ==
    ASSUME NEW S, IsFiniteSet(S)
    PROVE  /\ Cardinality(S) \in Nat
           /\ \A T \in SUBSET S : IsFiniteSet(T) /\ Cardinality(T) \in Nat /\ Cardinality(T) <= Cardinality(S)
BY FS_Subset, FS_CardinalityType

LEMMA OneMore ==
    ASSUME NEW S, IsFiniteSet(S), NEW x
    PROVE  /\ IsFiniteSet(S \cup {x}) /\ Cardinality(S \cup {x}) \in Nat
           /\ Cardinality(S \cup {x}) <= Cardinality(S) + 1
<1>1. IsFiniteSet(S \cup {x}) /\ Cardinality(S \cup {x}) = IF x \in S THEN Cardinality(S) ELSE Cardinality(S) + 1
  BY FS_AddElement
<1>2. Cardinality(S) \in Nat
  BY FS_CardinalityType
<1> QED BY <1>1, <1>2

LEMMA OneLess ==
    ASSUME NEW S, IsFiniteSet(S), NEW x \in S
    PROVE  /\ IsFiniteSet(S \ {x}) /\ Cardinality(S \ {x}) \in Nat
           /\ Cardinality(S) = Cardinality(S \ {x}) + 1
<1>1. IsFiniteSet(S \ {x}) /\ Cardinality(S \ {x}) = IF x \in S THEN Cardinality(S) - 1 ELSE Cardinality(S)
  BY FS_RemoveElement
<1>2. Cardinality(S) \in Nat /\ Cardinality(S \ {x}) \in Nat
  BY <1>1, FS_CardinalityType
<1> QED BY <1>1, <1>2

-----------------------------------------------------------------------------
(* Rows, tokens, links *)

\* A commit writes a row; the generation is the one it holds if it changed it, the one
\* there was otherwise.
LEMMA FlushedRow ==
    ASSUME NEW row \in Rows, NEW seen \in Rows, NEW new \in Rows
    PROVE  /\ Flushed(row, seen, new) \in Rows
           /\ Flushed(row, seen, new).version = IF new.version = seen.version THEN row.version ELSE new.version
BY DEF Flushed, Rows

LEMMA ChallengesCounted == ASSUME TypeOK PROVE Cardinality(Challenges) \in Nat
<1>1. Challenges \subseteq tokens /\ IsFiniteSet(tokens)
  BY DEF Challenges, TypeOK
<1> QED BY <1>1, FS_Subset, FS_CardinalityType

\* Tokens for an account u made from a row of the generation they carry.
Dated(u, gives) ==
    /\ gives \subseteq Tokens /\ IsFiniteSet(gives)
    /\ \A t \in gives : /\ t.user = u
                        /\ u \notin crossed => t.version = t.epoch + 1
                        /\ t.scope = "mfa" => t.code # 0

LEMMA TokenDated ==
    ASSUME NEW u \in Users, NEW row \in Rows, NEW since \in Nat,
           u \notin crossed => row.version = since + 1,
           NEW scope \in {"session", "mfa"}, NEW code \in 0 .. MaxCodes, scope = "mfa" => code # 0
    PROVE  Dated(u, {Token(scope, u, row, since, code)})
<1> DEFINE t == Token(scope, u, row, since, code)
<1>1. t.scope = scope /\ t.user = u /\ t.version = row.version /\ t.code = code /\ t.epoch = since
  BY DEF Token
<1>2. t \in Tokens
  BY DEF Token, Tokens, Rows
<1> HIDE DEF t
<1>3. Dated(u, {t})
  BY <1>1, <1>2, FS_Singleton DEF Dated
<1> QED BY <1>3 DEF t

LEMMA AnswersDated ==
    ASSUME AccountsAssumption, TypeOK, NEW u \in Users, NEW row \in Rows, NEW since \in Nat,
           u \notin crossed => row.version = since + 1,
           row.totp = "on" => Cardinality(Challenges) < MaxCodes
    PROVE  Dated(u, {Session(u, row, since)}) /\ Dated(u, {SessionOrChallenge(u, row, since)})
<1>1. Cardinality(Challenges) \in Nat /\ MaxCodes \in Nat /\ 0 \in 0 .. MaxCodes
  BY ChallengesCounted DEF AccountsAssumption
<1>2. Dated(u, {Session(u, row, since)})
  BY <1>1, TokenDated DEF Session
<1>3. CASE row.totp = "on"
  <2>1. Cardinality(Challenges) + 1 \in 0 .. MaxCodes /\ Cardinality(Challenges) + 1 # 0
    BY <1>1, <1>3
  <2>2. Dated(u, {Token("mfa", u, row, since, Cardinality(Challenges) + 1)})
    BY <2>1, TokenDated
  <2> QED BY <1>2, <1>3, <2>2 DEF SessionOrChallenge
<1> QED BY <1>2, <1>3 DEF SessionOrChallenge

LEMMA NothingGiven == ASSUME NEW u PROVE Dated(u, {})
BY FS_EmptySet DEF Dated

\* Adding such tokens keeps the table of tokens in order.
LEMMA TokensAdded ==
    ASSUME TypeOK, TokensDated, NEW u, NEW gives, Dated(u, gives),
           tokens' = tokens \cup gives, crossed \subseteq crossed'
    PROVE  (tokens \subseteq Tokens /\ IsFiniteSet(tokens))' /\ TokensDated'
<1>1. IsFiniteSet(tokens \cup gives)
  BY FS_Union DEF TypeOK, Dated
<1>2. (tokens \subseteq Tokens /\ IsFiniteSet(tokens))'
  BY <1>1 DEF TypeOK, Dated
<1>3. TokensDated'
  BY DEF TokensDated, Dated
<1> QED BY <1>2, <1>3

LEMMA MintedLink ==
    ASSUME TypeOK, NEW u \in Users, NEW kind \in Kinds
    PROVE  /\ Minted(kind, u, 0) \in Links
           /\ Minted(kind, u, 0).kind = kind /\ Minted(kind, u, 0).user = u
<1>1. Cardinality(links) + 1 \in Nat
  BY FS_CardinalityType DEF TypeOK
<1> QED BY <1>1 DEF Minted, Links

\* The keys of counters and of links are apart.
LEMMA KeysApart ==
    /\ \A k \in Keys, kind \in Kinds, u \in Users : k # <<kind, u>>
    /\ \A u \in Users : <<"acct", u>> \in Keys /\ <<"mfa", u>> \in Keys
    /\ \A c \in 1 .. MaxCodes : <<"jti", c>> \in Keys
    /\ \A u, v \in Users, kind, other \in Kinds : <<kind, u>> = <<other, v>> => kind = other /\ u = v
BY DEF Keys, Kinds

LEMMA LimitPositive == ASSUME AccountsAssumption PROVE \A k : Limit(k) \in Nat /\ Limit(k) >= 1
BY DEF Limit, AccountsAssumption

\* crowd is a count of each counter and of each kind of link, and only grows.
LEMMA CrowdGrows ==
    ASSUME TypeOK, NEW k \in Keys \cup (Kinds \X Users), NEW n \in Nat
    PROVE  LET c == Crowded(k, n) IN
           /\ c \in [Keys \cup (Kinds \X Users) -> Nat]
           /\ \A j \in Keys \cup (Kinds \X Users) : c[j] >= crowd[j] /\ (j # k => c[j] = crowd[j])
           /\ c[k] >= n
BY DEF TypeOK, Crowded

LEMMA CrowdAfter ==
    ASSUME TypeOK, NEW k \in Keys, NEW n \in Nat, crowd' = Crowded(k, n)
    PROVE  /\ crowd' \in [Keys \cup (Kinds \X Users) -> Nat]
           /\ \A j \in Keys \cup (Kinds \X Users) : j # k => crowd'[j] = crowd[j]
           /\ crowd'[k] >= n
<1>1. k \in Keys \cup (Kinds \X Users)
  OBVIOUS
<1>2. /\ Crowded(k, n) \in [Keys \cup (Kinds \X Users) -> Nat]
      /\ \A j \in Keys \cup (Kinds \X Users) : j # k => Crowded(k, n)[j] = crowd[j]
      /\ Crowded(k, n)[k] >= n
  BY <1>1, CrowdGrows
<1> QED BY <1>2

LEMMA UnspentCounted ==
    ASSUME TypeOK, NEW kind, NEW u, NEW S
    PROVE  IsFiniteSet(Unspent(kind, u, S)) /\ Cardinality(Unspent(kind, u, S)) \in Nat
<1>1. Unspent(kind, u, S) \subseteq links /\ IsFiniteSet(links)
  BY DEF Unspent, Unused, TypeOK
<1> QED BY <1>1, FS_Subset, FS_CardinalityType

\* A step that leaves fewer live links and fewer requests that mint any.
LEMMA LinksShrunk ==
    ASSUME TypeOK, LinksBounded,
           \A v \in Users, kind \in Kinds :
              /\ crowd'[<<kind, v>>] = crowd[<<kind, v>>]
              /\ Minting(kind, v)' \in SUBSET Minting(kind, v)
              /\ \A S \in SUBSET Minting(kind, v)' : Unspent(kind, v, S)' \in SUBSET Unspent(kind, v, S)
    PROVE  LinksBounded'
<1> SUFFICES ASSUME NEW v \in Users, NEW kind \in Kinds
             PROVE  /\ IsFiniteSet(Minting(kind, v)') /\ Cardinality(Minting(kind, v)') <= crowd[<<kind, v>>]
                    /\ \A S \in SUBSET Minting(kind, v)' :
                          Cardinality(Unspent(kind, v, S)') + Cardinality(S) <= crowd[<<kind, v>>]
  BY DEF LinksBounded
<1> DEFINE n == crowd[<<kind, v>>]
<1>1. /\ IsFiniteSet(Minting(kind, v)) /\ Cardinality(Minting(kind, v)) <= n /\ n \in Nat
      /\ \A S \in SUBSET Minting(kind, v) : Cardinality(Unspent(kind, v, S)) + Cardinality(S) <= n
  BY DEF LinksBounded, TypeOK
<1> HIDE DEF n
<1>2. /\ Cardinality(Minting(kind, v)) \in Nat /\ IsFiniteSet(Minting(kind, v)')
      /\ Cardinality(Minting(kind, v)') \in Nat /\ Cardinality(Minting(kind, v)') <= Cardinality(Minting(kind, v))
  BY <1>1, SubsetCounted
<1>3. ASSUME NEW S \in SUBSET Minting(kind, v)'
      PROVE  Cardinality(Unspent(kind, v, S)') + Cardinality(S) <= n
  <2>1. S \in SUBSET Minting(kind, v) /\ Cardinality(S) \in Nat
    BY <1>2, SubsetCounted
  <2>2. Cardinality(Unspent(kind, v, S)') \in Nat /\ Cardinality(Unspent(kind, v, S)') <= Cardinality(Unspent(kind, v, S))
        /\ Cardinality(Unspent(kind, v, S)) \in Nat
    BY UnspentCounted, SubsetCounted
  <2> QED BY <1>1, <2>1, <2>2
<1>4. Cardinality(Minting(kind, v)') <= n
  BY <1>1, <1>2
<1> QED BY <1>2, <1>3, <1>4 DEF n

LEMMA LinksUntouched ==
    ASSUME TypeOK, LinksBounded, UNCHANGED <<links, request>>,
           \A kind \in Kinds, u \in Users : crowd'[<<kind, u>>] = crowd[<<kind, u>>]
    PROVE  LinksBounded'
<1>1. \A kind \in Kinds, u \in Users :
          Minting(kind, u)' = Minting(kind, u) /\ \A S : Unspent(kind, u, S)' = Unspent(kind, u, S)
  BY DEF Minting, Unspent, Unused
<1> QED BY <1>1, LinksShrunk

\* Clearing a counter is safe whoever is at it.
LEMMA CountersCleared ==
    ASSUME AccountsAssumption, TypeOK, CountersBounded, UNCHANGED attempt,
           \A k \in Keys : crowd'[k] = crowd[k],
           UNCHANGED <<hits, tries>> \/ \E u \in Users : ResetKey(<<"acct", u>>)
    PROVE  CountersBounded' /\ (hits \in [Keys -> Nat] /\ tries \in [Keys -> Nat])'
<1>1. hits \in [Keys -> Nat] /\ tries \in [Keys -> Nat]
  BY DEF TypeOK
<1>2. \A k \in Keys : AtWork(k)' = AtWork(k)
  BY DEF AtWork
<1>3. CASE UNCHANGED <<hits, tries>>
  BY <1>1, <1>2, <1>3 DEF CountersBounded, Counted, Full
<1>4. ASSUME NEW u \in Users, ResetKey(<<"acct", u>>)
      PROVE  CountersBounded' /\ (hits \in [Keys -> Nat] /\ tries \in [Keys -> Nat])'
  <2>1. /\ (hits \in [Keys -> Nat] /\ tries \in [Keys -> Nat])'
        /\ \A k \in Keys : \/ hits'[k] = 0 /\ tries'[k] = 0
                           \/ hits'[k] = hits[k] /\ tries'[k] = tries[k]
    BY <1>1, <1>4 DEF ResetKey
  <2>2. ASSUME NEW k \in Keys PROVE Counted(k)'
    <3>1. CASE hits'[k] = 0 /\ tries'[k] = 0
      BY <1>2, <3>1, LimitPositive DEF CountersBounded, Counted, Full
    <3>2. CASE hits'[k] = hits[k] /\ tries'[k] = tries[k]
      BY <1>2, <3>2 DEF CountersBounded, Counted, Full
    <3> QED BY <2>1, <3>1, <3>2
  <2> QED BY <2>1, <2>2 DEF CountersBounded
<1> QED BY <1>3, <1>4


-----------------------------------------------------------------------------
(* Requests that begin *)

\* What every request that begins sees to.
Careful(u, new, ends, burn, mint, gives) ==
    /\ new \in Rows /\ ends \in BOOLEAN /\ burn \in SUBSET Nat
    /\ mint \in Kinds \cup {"none"}
    /\ new.version = IF ends THEN account[u].version + 1 ELSE account[u].version
    /\ mint # "none" => \A l \in Unused(mint, u) : l.id \in burn
    /\ Dated(u, gives)

LEMMA BegunKeepsDates ==
    ASSUME AccountsAssumption, IInv, NEW w \in Workers, NEW u \in Users,
           NEW new, NEW ends, NEW burn, NEW mint, NEW gives,
           Careful(u, new, ends, burn, mint, gives),
           Begin(w, u, new, ends, burn, mint, gives),
           (hits \in [Keys -> Nat] /\ tries \in [Keys -> Nat])'
    PROVE  Dates'
<1> DEFINE q == [user |-> u, seen |-> account[u], new |-> new, ends |-> ends, burn |-> burn,
                 mint |-> mint, gave |-> gives # {}]
<1>1. /\ request' = [request EXCEPT ![w] = q] /\ tokens' = tokens \cup gives
      /\ UNCHANGED <<account, links, attempt, epoch, crossed>>
      /\ request[w] = Idle /\ account[u] # Absent
  BY DEF Begin, Unoccupied
<1>2. TypeOK /\ account[u] \in Rows
  BY <1>1 DEF IInv, Dates, TypeOK
<1>3. q \in Requests
  BY <1>2 DEF Careful, Requests
<1>4. q.user = u /\ q.seen = account[u] /\ q.new = new /\ q.ends = ends
  OBVIOUS
<1> HIDE DEF q
<1>5. \A x \in Workers : request'[x] = IF x = w THEN q ELSE request[x]
  BY <1>1, <1>2 DEF TypeOK
<1>6. (tokens \subseteq Tokens /\ IsFiniteSet(tokens))' /\ TokensDated'
  BY <1>1, <1>2, TokensAdded DEF IInv, Dates, Careful
<1>7. TypeOK'
  <2>1. request' \in [Workers -> Requests \cup {Idle}]
    BY <1>1, <1>2, <1>3 DEF TypeOK
  <2>2. crowd' \in [Keys \cup (Kinds \X Users) -> Nat]
    <3>1. CASE mint = "none"
      BY <1>2, <3>1 DEF Begin, TypeOK
    <3>2. CASE mint # "none"
      <4>1. <<mint, u>> \in Keys \cup (Kinds \X Users)
        BY <3>2 DEF Careful
      <4>2. IsFiniteSet(Minting(mint, u))
        BY <3>2 DEF IInv, LinksBounded, Careful
      <4>3. Cardinality(Minting(mint, u)) + 1 \in Nat
        BY <4>2, FS_CardinalityType
      <4> QED BY <1>2, <3>2, <4>1, <4>3, CrowdGrows DEF Begin
    <3> QED BY <3>1, <3>2
  <2> QED BY <1>1, <1>2, <1>6, <2>1, <2>2 DEF TypeOK
<1>8. NothingBefore'
  BY <1>1, <1>4, <1>5 DEF IInv, Dates, NothingBefore, Held, Signing, Careful, Dated
<1>9. Generations' /\ AttemptsDated'
  BY <1>1 DEF IInv, Dates, Generations, AttemptsDated, Signing
<1>10. RequestsSound'
  BY <1>1, <1>4, <1>5 DEF IInv, Dates, RequestsSound, Held, Careful
<1> QED BY <1>6, <1>7, <1>8, <1>9, <1>10 DEF Dates

\* A request that is to mint a link burns those there are.
LEMMA BegunKeepsLinks ==
    ASSUME AccountsAssumption, IInv, NEW w \in Workers, NEW u \in Users,
           NEW new, NEW ends, NEW burn, NEW mint, NEW gives,
           Careful(u, new, ends, burn, mint, gives),
           Begin(w, u, new, ends, burn, mint, gives)
    PROVE  LinksBounded' /\ \A k \in Keys : crowd'[k] = crowd[k]
<1> DEFINE q == [user |-> u, seen |-> account[u], new |-> new, ends |-> ends, burn |-> burn,
                 mint |-> mint, gave |-> gives # {}]
<1>1. /\ request' = [request EXCEPT ![w] = q] /\ links' = links
      /\ request[w] = Idle
  BY DEF Begin, Unoccupied
<1>2. TypeOK
  BY DEF IInv, Dates
<1>3. q.user = u /\ q.burn = burn /\ q.mint = mint
  OBVIOUS
<1> HIDE DEF q
<1>4. \A x \in Workers : request'[x] = IF x = w THEN q ELSE request[x]
  BY <1>1, <1>2 DEF TypeOK
<1>5. \A v \in Users, kind \in Kinds :
         Minting(kind, v)' \subseteq Minting(kind, v) \cup (IF kind = mint /\ v = u THEN {w} ELSE {})
  BY <1>1, <1>3, <1>4 DEF Minting
<1>6. ASSUME NEW v \in Users, NEW kind \in Kinds, NEW S, w \notin S
      PROVE  Unspent(kind, v, S)' = Unspent(kind, v, S)
  BY <1>1, <1>4, <1>6 DEF Unspent, Unused
<1>7. /\ crowd' \in [Keys \cup (Kinds \X Users) -> Nat]
      /\ IF mint = "none" THEN crowd' = crowd
         ELSE
           /\ \A j \in Keys \cup (Kinds \X Users) : crowd'[j] >= crowd[j] /\ (j # <<mint, u>> => crowd'[j] = crowd[j])
           /\ crowd'[<<mint, u>>] >= Cardinality(Minting(mint, u)) + 1
  <2>1. CASE mint = "none"
    BY <1>2, <2>1 DEF Begin, TypeOK
  <2>2. CASE mint # "none"
    <3>1. <<mint, u>> \in Keys \cup (Kinds \X Users) /\ mint \in Kinds
      BY <2>2 DEF Careful
    <3>2. Cardinality(Minting(mint, u)) + 1 \in Nat
      BY <3>1, FS_CardinalityType DEF IInv, LinksBounded
    <3>3. crowd' = Crowded(<<mint, u>>, Cardinality(Minting(mint, u)) + 1)
      BY <2>2 DEF Begin
    <3> QED BY <1>2, <2>2, <3>1, <3>2, <3>3, CrowdGrows
  <2> QED BY <2>1, <2>2
<1>8. \A k \in Keys : crowd'[k] = crowd[k]
  <2>1. mint # "none" => \A k \in Keys : k # <<mint, u>>
    BY KeysApart DEF Careful
  <2> QED BY <1>7, <2>1
<1>9. ASSUME NEW v \in Users, NEW kind \in Kinds
      PROVE  /\ (IsFiniteSet(Minting(kind, v)) /\ Cardinality(Minting(kind, v)) <= crowd[<<kind, v>>])'
             /\ crowd'[<<kind, v>>] >= 1
             /\ \A S \in SUBSET Minting(kind, v)' :
                   Cardinality(Unspent(kind, v, S)') + Cardinality(S) <= crowd'[<<kind, v>>]
  <2> DEFINE k == <<kind, v>>
  <2>1. k \in Keys \cup (Kinds \X Users) /\ crowd[k] \in Nat
    BY <1>2 DEF TypeOK
  <2>2. crowd'[k] \in Nat /\ crowd'[k] >= crowd[k]
    <3>1. CASE mint = "none"
      BY <1>7, <2>1, <3>1
    <3>2. CASE mint # "none"
      BY <1>7, <2>1, <3>2
    <3> QED BY <3>1, <3>2
  <2>3. /\ IsFiniteSet(Minting(kind, v)) /\ Cardinality(Minting(kind, v)) <= crowd[k]
        /\ crowd[k] >= 1
        /\ \A S \in SUBSET Minting(kind, v) : Cardinality(Unspent(kind, v, S)) + Cardinality(S) <= crowd[k]
    BY DEF IInv, LinksBounded
  <2> HIDE DEF k
  <2>4. CASE kind = mint /\ v = u
    <3>1. Minting(kind, v)' \subseteq Minting(kind, v) \cup {w}
      BY <1>5, <2>4
    <3>2. IsFiniteSet(Minting(kind, v) \cup {w})
          /\ Cardinality(Minting(kind, v) \cup {w}) <= Cardinality(Minting(kind, v)) + 1
          /\ Cardinality(Minting(kind, v)) \in Nat
      BY <2>3, OneMore, SubsetCounted
    <3>3. crowd'[k] >= Cardinality(Minting(kind, v)) + 1
      BY <1>7, <2>4 DEF Kinds, k
    <3>4. ASSUME NEW S \in SUBSET (Minting(kind, v) \cup {w})
          PROVE  /\ IsFiniteSet(S) /\ Cardinality(S) \in Nat /\ Cardinality(S) <= crowd'[k]
                 /\ w \in S => Cardinality(Unspent(kind, v, S)') = 0
      <4>1. IsFiniteSet(S) /\ Cardinality(S) <= Cardinality(Minting(kind, v) \cup {w}) /\ Cardinality(S) \in Nat
            /\ Cardinality(Minting(kind, v) \cup {w}) \in Nat
        BY <3>2, SubsetCounted
      <4>2. Cardinality(S) <= crowd'[k]
        BY <2>2, <3>2, <3>3, <4>1
      <4>3. w \in S => Unspent(kind, v, S)' = {}
        <5>1. \A l \in Unused(kind, v) : l.id \in burn
          BY <2>4 DEF Careful, Kinds
        <5>2. Unused(kind, v)' = Unused(kind, v) /\ request'[w].burn = burn
          BY <1>1, <1>3, <1>4 DEF Unused
        <5> QED BY <5>1, <5>2 DEF Unspent
      <4> QED BY <4>1, <4>2, <4>3, FS_EmptySet
    <3>5. ASSUME NEW S \in SUBSET Minting(kind, v)'
          PROVE  Cardinality(Unspent(kind, v, S)') + Cardinality(S) <= crowd'[k]
      <4>1. CASE w \in S
        BY <2>2, <3>1, <3>4, <4>1
      <4>2. CASE w \notin S
        <5>1. S \in SUBSET Minting(kind, v) /\ Unspent(kind, v, S)' = Unspent(kind, v, S)
          BY <1>6, <3>1, <4>2
        <5>2. Cardinality(Unspent(kind, v, S)) + Cardinality(S) <= crowd[k]
          BY <2>3, <5>1
        <5> QED BY <1>2, <2>1, <2>2, <2>3, <5>1, <5>2, UnspentCounted, <3>1, <3>4
      <4> QED BY <4>1, <4>2
    <3>6. IsFiniteSet(Minting(kind, v)') /\ Cardinality(Minting(kind, v)') <= crowd'[k]
      BY <3>1, <3>4
    <3>7. crowd'[k] >= 1
      BY <2>1, <2>2, <2>3
    <3> QED BY <3>5, <3>6, <3>7 DEF k
  <2>5. CASE ~ (kind = mint /\ v = u)
    <3>1. Minting(kind, v)' \subseteq Minting(kind, v)
      BY <1>5, <2>5
    <3>2. ASSUME NEW S \in SUBSET Minting(kind, v)'
          PROVE  Cardinality(Unspent(kind, v, S)') + Cardinality(S) <= crowd'[k]
      <4>1. S \in SUBSET Minting(kind, v) /\ w \notin S
        BY <1>1, <3>1 DEF Minting
      <4>2. Unspent(kind, v, S)' = Unspent(kind, v, S)
        BY <1>6, <4>1
      <4>3. Cardinality(Unspent(kind, v, S)) + Cardinality(S) <= crowd[k]
        BY <2>3, <4>1
      <4>4. Cardinality(Unspent(kind, v, S)) \in Nat /\ Cardinality(S) \in Nat
        BY <1>2, <2>3, <4>1, UnspentCounted, FS_Subset, FS_CardinalityType
      <4> QED BY <2>1, <2>2, <4>2, <4>3, <4>4
    <3>3. IsFiniteSet(Minting(kind, v)') /\ Cardinality(Minting(kind, v)') <= Cardinality(Minting(kind, v))
      BY <2>3, <3>1, FS_Subset
    <3>4. Cardinality(Minting(kind, v)') \in Nat /\ Cardinality(Minting(kind, v)) \in Nat
      BY <2>3, <3>3, FS_CardinalityType
    <3> QED BY <2>1, <2>2, <2>3, <3>2, <3>3, <3>4 DEF k
  <2> QED BY <2>4, <2>5 DEF k
<1> QED BY <1>8, <1>9 DEF LinksBounded

LEMMA BegunKeepsIInv ==
    ASSUME AccountsAssumption, IInv, NEW w \in Workers, NEW u \in Users,
           NEW new, NEW ends, NEW burn, NEW mint, NEW gives,
           Careful(u, new, ends, burn, mint, gives),
           Begin(w, u, new, ends, burn, mint, gives),
           UNCHANGED <<hits, tries>> \/ \E v \in Users : ResetKey(<<"acct", v>>)
    PROVE  IInv'
<1>1. LinksBounded' /\ \A k \in Keys : crowd'[k] = crowd[k]
  BY BegunKeepsLinks
<1>2. CountersBounded' /\ (hits \in [Keys -> Nat] /\ tries \in [Keys -> Nat])'
  BY <1>1, CountersCleared DEF IInv, Dates, Begin
<1>3. Dates'
  BY <1>2, BegunKeepsDates
<1> QED BY <1>1, <1>2, <1>3 DEF IInv

\* The rows that a request may hold.
LEMMA RowRevoked ==
    ASSUME NEW row \in Rows
    PROVE  Revoked(row) \in Rows /\ Revoked(row).version = row.version + 1
BY DEF Rows, Revoked

LEMMA RowVerified ==
    ASSUME NEW row \in Rows
    PROVE  LET new == [row EXCEPT !.verified = TRUE] IN new \in Rows /\ new.version = row.version
BY DEF Rows

LEMMA RowEnrolled ==
    ASSUME NEW row \in Rows, NEW to \in {"none", "pending", "on"}
    PROVE  LET new == [row EXCEPT !.totp = to] IN new \in Rows /\ new.version = row.version
BY DEF Rows

LEMMA LinkRows ==
    ASSUME TypeOK, NEW u \in Users, NEW kind
    PROVE  Superseded(kind, u) \in SUBSET Nat /\ \A l \in Unused(kind, u) : l.id \in Superseded(kind, u)
BY DEF TypeOK, Superseded, Unused, Links

\* A row revoked by an uncrossed request is of the generation of the next revocation.
LEMMA RevokedDated ==
    ASSUME IInv, NEW u \in Users, account[u] # Absent, NEW new, new.version = account[u].version + 1
    PROVE  epoch[u] + 1 \in Nat /\ (u \notin crossed => new.version = (epoch[u] + 1) + 1)
<1>1. account[u] \in Rows /\ epoch[u] \in Nat
  BY DEF IInv, Dates, TypeOK
<1>2. account[u].version \in Nat
  BY <1>1 DEF Rows
<1> QED BY <1>1, <1>2 DEF IInv, Dates, Generations

LEMMA LinkStepKeepsIInv == ASSUME AccountsAssumption, IInv, LinkStep PROVE IInv'
<1>0. TypeOK /\ \A u \in Users : account[u] # Absent => account[u] \in Rows
  BY DEF IInv, Dates, TypeOK
<1>1. ASSUME NEW w \in Workers, NEW u \in Users, Forgot(w, u) PROVE IInv'
  <2>1. Careful(u, account[u], FALSE, Superseded("RESET", u), "RESET", {})
    BY <1>0, <1>1, LinkRows, NothingGiven DEF Forgot, Careful, Kinds
  <2> QED BY <1>1, <2>1, BegunKeepsIInv DEF Forgot
<1>2. ASSUME NEW w \in Workers, NEW u \in Users, Resend(w, u) PROVE IInv'
  <2>1. account[u] # Absent
    BY <1>2 DEF Resend, Begin
  <2>2. Careful(u, account[u], FALSE, Superseded("VERIFY", u), "VERIFY", {})
    BY <1>0, <2>1, LinkRows, NothingGiven DEF Careful, Kinds
  <2> QED BY <1>2, <2>2, BegunKeepsIInv DEF Resend
<1>3. ASSUME NEW w \in Workers, NEW l \in links, Reset(w, l) PROVE IInv'
  <2> DEFINE u == l.user
             new == [Revoked(account[u]) EXCEPT !.verified = TRUE]
  <2>1. u \in Users /\ l.id \in Nat /\ account[u] # Absent
    BY <1>0, <1>3 DEF Reset, LiveLinks, TypeOK, Links
  <2>2. new \in Rows /\ new.version = account[u].version + 1 /\ new.totp = account[u].totp
    <3>1. account[u] \in Rows
      BY <1>0, <2>1
    <3>2. new.totp = account[u].totp
      BY <3>1 DEF Revoked, Rows
    <3> QED BY <3>1, <3>2, RowRevoked, RowVerified
  <2>3. Begin(w, u, new, TRUE, {l.id}, "none", {SessionOrChallenge(u, new, epoch[u] + 1)})
    BY <1>3 DEF Reset
  <2>4. ResetKey(<<"acct", u>>) /\ (account[u].totp = "on" => Cardinality(Challenges) < MaxCodes)
    BY <1>3 DEF Reset
  <2> HIDE DEF new, u
  <2>5. Dated(u, {SessionOrChallenge(u, new, epoch[u] + 1)})
    BY <1>0, <2>1, <2>2, <2>4, RevokedDated, AnswersDated
  <2>6. Careful(u, new, TRUE, {l.id}, "none", {SessionOrChallenge(u, new, epoch[u] + 1)})
    BY <2>1, <2>2, <2>5 DEF Careful
  <2> QED BY <2>1, <2>3, <2>4, <2>6, BegunKeepsIInv
<1>4. ASSUME NEW w \in Workers, NEW l \in links, Verify(w, l) PROVE IInv'
  <2> DEFINE u == l.user
             new == [account[u] EXCEPT !.verified = TRUE]
  <2>1. u \in Users /\ l.id \in Nat /\ account[u] # Absent
    BY <1>0, <1>4 DEF Verify, LiveLinks, TypeOK, Links
  <2>2. new \in Rows /\ new.version = account[u].version
    BY <1>0, <2>1, RowVerified
  <2>3. Begin(w, u, new, FALSE, {l.id}, "none", {}) /\ UNCHANGED <<hits, tries>>
    BY <1>4 DEF Verify
  <2> HIDE DEF new, u
  <2>4. Careful(u, new, FALSE, {l.id}, "none", {})
    BY <2>1, <2>2, NothingGiven DEF Careful
  <2> QED BY <2>1, <2>3, <2>4, BegunKeepsIInv
<1> QED BY <1>1, <1>2, <1>3, <1>4 DEF LinkStep

LEMMA SessionStepKeepsIInv == ASSUME AccountsAssumption, IInv, SessionStep PROVE IInv'
<1> PICK w \in Workers, u \in Users : ChangePassword(w, u) \/ LogoutAll(w, u)
  BY DEF SessionStep
<1> DEFINE new == Revoked(account[u])
           given == {Session(u, new, epoch[u] + 1)}
<1>1. /\ UNCHANGED <<hits, tries>> /\ account[u] # Absent
      /\ Begin(w, u, new, TRUE, {}, "none", given) \/ Begin(w, u, new, TRUE, {}, "none", {})
  BY DEF ChangePassword, LogoutAll, Begin
<1>2. new \in Rows /\ new.version = account[u].version + 1
  BY <1>1, RowRevoked DEF IInv, Dates, TypeOK
<1>3. Dated(u, given)
  <2>1. 0 \in 0 .. MaxCodes
    BY DEF AccountsAssumption
  <2> HIDE DEF new
  <2> QED BY <1>1, <1>2, <2>1, RevokedDated, TokenDated DEF Session
<1> HIDE DEF new, given
<1>4. \A gives \in {{}, given} : Careful(u, new, TRUE, {}, "none", gives)
  BY <1>2, <1>3, NothingGiven DEF Careful
<1> QED BY <1>1, <1>4, BegunKeepsIInv

LEMMA OperatorStepKeepsIInv == ASSUME AccountsAssumption, IInv, OperatorStep PROVE IInv'
<1>0. \A u \in Users : account[u] # Absent => account[u] \in Rows
  BY DEF IInv, Dates, TypeOK
<1>1. ASSUME NEW w \in Workers, NEW u \in Users, CliSetPassword(w, u) PROVE IInv'
  <2> DEFINE new == Revoked(account[u])
  <2>1. new \in Rows /\ new.version = account[u].version + 1
    BY <1>0, <1>1, RowRevoked DEF CliSetPassword
  <2>2. Begin(w, u, new, TRUE, {}, "none", {}) /\ ResetKey(<<"acct", u>>)
    BY <1>1 DEF CliSetPassword
  <2> HIDE DEF new
  <2>3. Careful(u, new, TRUE, {}, "none", {})
    BY <2>1, NothingGiven DEF Careful
  <2> QED BY <2>2, <2>3, BegunKeepsIInv
<1>2. ASSUME NEW w \in Workers, NEW u \in Users, NEW actor \in Users, NEW role \in {"USER", "ADMIN"},
             NEW active \in BOOLEAN, PatchUser(w, actor, u, role, active)
      PROVE  IInv'
  <2> DEFINE new == [Revoked(account[u]) EXCEPT !.role = role, !.active = active]
  <2>1. new \in Rows /\ new.version = account[u].version + 1
    <3>1. PICK old \in Rows : old = Revoked(account[u]) /\ old.version = account[u].version + 1
      BY <1>0, <1>2, RowRevoked DEF PatchUser
    <3>2. LET n == [old EXCEPT !.role = role, !.active = active] IN n \in Rows /\ n.version = old.version
      BY DEF Rows
    <3>3. new = [old EXCEPT !.role = role, !.active = active]
      BY <3>1
    <3> QED BY <3>1, <3>2, <3>3
  <2>2. Begin(w, u, new, TRUE, {}, "none", {}) /\ UNCHANGED <<hits, tries>>
    BY <1>2 DEF PatchUser
  <2> HIDE DEF new
  <2>3. Careful(u, new, TRUE, {}, "none", {})
    BY <2>1, NothingGiven DEF Careful
  <2> QED BY <2>2, <2>3, BegunKeepsIInv
<1> QED BY <1>1, <1>2 DEF OperatorStep

LEMMA EnrolKeepsIInv ==
    ASSUME AccountsAssumption, IInv, NEW w \in Workers, NEW u \in Users, NEW from,
           NEW to \in {"none", "pending", "on"}, Enrol(w, u, from, to)
    PROVE  IInv'
<1> DEFINE new == [account[u] EXCEPT !.totp = to]
<1>1. new \in Rows /\ new.version = account[u].version
  <2>1. account[u] \in Rows
    BY DEF Enrol, Begin, IInv, Dates, TypeOK
  <2> QED BY <2>1, RowEnrolled
<1>2. Begin(w, u, new, FALSE, {}, "none", {}) /\ UNCHANGED <<hits, tries>>
  BY DEF Enrol
<1> HIDE DEF new
<1>3. Careful(u, new, FALSE, {}, "none", {})
  BY <1>1, NothingGiven DEF Careful
<1> QED BY <1>2, <1>3, BegunKeepsIInv

-----------------------------------------------------------------------------
(* Signing in *)

\* What an attempt knows of an account.
Knows(a) ==
    /\ a \in Knocks
    /\ a.row # Absent => account[a.user] # Absent
    /\ a.row # Absent /\ a.user \notin crossed => a.row.version = a.since + 1
    /\ a.stage \in {"right", "burnt"} => a.code # 0
    /\ a.code # 0 => a.row # Absent

LEMMA AttemptKnows == ASSUME IInv, NEW w \in Signing PROVE Knows(attempt[w])
BY DEF IInv, Dates, TypeOK, NothingBefore, AttemptsDated, Signing, Knows

LEMMA Staged ==
    ASSUME NEW a, Knows(a), NEW stage \in Stages, stage \in {"right", "burnt"} => a.code # 0
    PROVE  LET b == [a EXCEPT !.stage = stage]
           IN  Knows(b) /\ b.stage = stage /\ b.code = a.code /\ b.user = a.user
BY DEF Knows, Knocks

\* A step of an attempt changes neither rows, links nor requests.
LEMMA AttemptKeepsDates ==
    ASSUME AccountsAssumption, IInv, UNCHANGED <<account, links, request, epoch, crossed>>,
           NEW w \in Workers, NEW x, attempt' = [attempt EXCEPT ![w] = x], x = Idle \/ Knows(x),
           NEW u, NEW gives, Dated(u, gives), tokens' = tokens \cup gives, gives # {} => account[u] # Absent,
           hits' \in [Keys -> Nat], tries' \in [Keys -> Nat],
           crowd' \in [Keys \cup (Kinds \X Users) -> Nat]
    PROVE  Dates'
<1>1. \A y \in Workers : attempt'[y] = IF y = w THEN x ELSE attempt[y]
  BY DEF IInv, Dates, TypeOK
<1>2. (tokens \subseteq Tokens /\ IsFiniteSet(tokens))' /\ TokensDated'
  BY TokensAdded DEF IInv, Dates
<1>3. TypeOK'
  BY <1>2 DEF IInv, Dates, TypeOK, Knows
<1>4. NothingBefore'
  BY <1>1 DEF IInv, Dates, NothingBefore, Held, Signing, Dated, Knows
<1>5. AttemptsDated'
  BY <1>1 DEF IInv, Dates, AttemptsDated, Signing, Knows
<1>6. Generations' /\ RequestsSound'
  BY DEF IInv, Dates, Generations, RequestsSound, Held
<1> QED BY <1>2, <1>3, <1>4, <1>5, <1>6 DEF Dates

\* Who is at a counter, after a step of one attempt.
LEMMA AtWorkAfter ==
    ASSUME TypeOK, NEW w \in Workers, NEW x, attempt' = [attempt EXCEPT ![w] = x], NEW j
    PROVE  AtWork(j)' \subseteq (AtWork(j) \ {w}) \cup
                                (IF x # Idle /\ x.stage # "burnt" /\ Target(x) = j THEN {w} ELSE {})
<1>1. \A y \in Workers : attempt'[y] = IF y = w THEN x ELSE attempt[y]
  BY DEF TypeOK
<1> QED BY <1>1 DEF AtWork

\* A counter that nobody came to: it is as it was, it was cleared, a hit left its window,
\* or one of those at it went away with a try.
LEMMA CountedKept ==
    ASSUME AccountsAssumption, IInv, NEW k \in Keys,
           AtWork(k)' \subseteq AtWork(k), crowd'[k] = crowd[k],
           \/ hits'[k] = hits[k] /\ tries'[k] = tries[k]
           \/ hits'[k] = 0 /\ tries'[k] = 0
           \/ hits[k] > 0 /\ hits'[k] = hits[k] - 1 /\ tries'[k] = 0
           \/ /\ AtWork(k)' # AtWork(k)
              /\ tries'[k] = tries[k] + 1
              /\ hits'[k] = hits[k] + 1 \/ (Full(k) /\ hits'[k] = hits[k])
    PROVE  Counted(k)'
<1> DEFINE n == Cardinality(AtWork(k))
           m == Cardinality(AtWork(k)')
           L == Limit(k)
<1>1. /\ hits[k] \in Nat /\ tries[k] \in Nat /\ crowd[k] \in Nat /\ L \in Nat /\ L >= 1
      /\ IsFiniteSet(AtWork(k)) /\ n <= crowd[k]
      /\ hits[k] >= L => tries[k] + n < L + crowd[k]
      /\ hits[k] < L => tries[k] <= hits[k]
  BY LimitPositive DEF IInv, Dates, TypeOK, CountersBounded, Counted, Full
<1>2. IsFiniteSet(AtWork(k)') /\ m \in Nat /\ n \in Nat /\ m <= n
  BY <1>1, SubsetCounted
<1>3. AtWork(k)' # AtWork(k) => m + 1 <= n
  <2> SUFFICES ASSUME NEW y \in AtWork(k), y \notin AtWork(k)' PROVE m + 1 <= n
    OBVIOUS
  <2>1. AtWork(k)' \in SUBSET (AtWork(k) \ {y})
    OBVIOUS
  <2>2. IsFiniteSet(AtWork(k) \ {y}) /\ n = Cardinality(AtWork(k) \ {y}) + 1 /\ Cardinality(AtWork(k) \ {y}) \in Nat
    BY <1>1, OneLess
  <2>3. m <= Cardinality(AtWork(k) \ {y})
    BY <2>1, <2>2, SubsetCounted
  <2> QED BY <1>2, <2>2, <2>3
<1>4. Full(k) <=> hits[k] >= L
  BY DEF Full
<1>5. Counted(k)' <=> /\ IsFiniteSet(AtWork(k)') /\ m <= crowd[k]
                      /\ hits'[k] >= L => tries'[k] + m < L + crowd[k]
                      /\ ~ (hits'[k] >= L) => tries'[k] <= hits'[k]
  BY DEF Counted, Full, Limit
<1> HIDE DEF n, m, L
<1>6. CASE hits'[k] = hits[k] /\ tries'[k] = tries[k]
  BY <1>1, <1>2, <1>5, <1>6
<1>7. CASE hits'[k] = 0 /\ tries'[k] = 0
  BY <1>1, <1>2, <1>5, <1>7
<1>8. CASE hits[k] > 0 /\ hits'[k] = hits[k] - 1 /\ tries'[k] = 0
  BY <1>1, <1>2, <1>5, <1>8
<1>9. CASE /\ AtWork(k)' # AtWork(k)
           /\ tries'[k] = tries[k] + 1
           /\ hits'[k] = hits[k] + 1 \/ (Full(k) /\ hits'[k] = hits[k])
  BY <1>1, <1>2, <1>3, <1>4, <1>5, <1>9
<1> QED BY <1>6, <1>7, <1>8, <1>9

\* A counter that is not full, to which one more comes.
LEMMA CountedJoined ==
    ASSUME AccountsAssumption, IInv, NEW k \in Keys, NEW w,
           AtWork(k)' \subseteq AtWork(k) \cup {w}, ~ Full(k),
           crowd'[k] \in Nat, crowd'[k] >= Cardinality(AtWork(k)) + 1,
           hits'[k] = hits[k] /\ tries'[k] = tries[k]
    PROVE  Counted(k)'
<1>1. IsFiniteSet(AtWork(k)) /\ tries[k] <= hits[k]
  BY DEF IInv, CountersBounded, Counted
<1>2. /\ IsFiniteSet(AtWork(k) \cup {w}) /\ Cardinality(AtWork(k) \cup {w}) \in Nat /\ Cardinality(AtWork(k)) \in Nat
      /\ Cardinality(AtWork(k) \cup {w}) <= Cardinality(AtWork(k)) + 1
  BY <1>1, OneMore, SubsetCounted
<1>3. IsFiniteSet(AtWork(k)') /\ Cardinality(AtWork(k)') \in Nat
      /\ Cardinality(AtWork(k)') <= Cardinality(AtWork(k) \cup {w})
  BY <1>2, SubsetCounted
<1>4. Cardinality(AtWork(k)') <= crowd'[k]
  BY <1>2, <1>3
<1> QED BY <1>1, <1>3, <1>4 DEF Counted, Full, Limit

LEMMA Doors ==
    ASSUME NEW a, Knows(a)
    PROVE  /\ Door(a) \in Keys /\ Target(a) \in Keys
           /\ a.stage # "right" => Target(a) = Door(a)
           /\ a.code # 0 => <<"jti", a.code>> \in Keys /\ <<"jti", a.code>> # Door(a)
<1>1. a.user \in Users /\ a.code \in 0 .. MaxCodes
  BY DEF Knows, Knocks
<1>2. Door(a) \in Keys
  BY <1>1 DEF Door, Keys
<1>3. a.code # 0 => a.code \in 1 .. MaxCodes
  <2>1. MaxCodes \in Nat \/ MaxCodes \notin Nat
    OBVIOUS
  <2> QED BY <1>1
<1>4. a.code # 0 => <<"jti", a.code>> \in Keys /\ <<"jti", a.code>> # Door(a)
  BY <1>3 DEF Door, Keys
<1>5. a.stage = "right" => a.code # 0
  BY DEF Knows
<1> QED BY <1>2, <1>4, <1>5 DEF Target

\* Whoever is let in by a counter that is not full.
LEMMA EntersKeepsIInv ==
    ASSUME AccountsAssumption, IInv, NEW w \in Workers, NEW k, NEW code, Enters(w, k, code),
           k[2] \in Users, code \in 0 .. MaxCodes, code # 0 => account[k[2]] # Absent,
           k = <<IF code = 0 THEN "acct" ELSE "mfa", k[2]>>, tokens' = tokens
    PROVE  IInv'
<1> DEFINE u == k[2]
           x == [stage |-> "known", user |-> u, row |-> account[u], since |-> epoch[u], code |-> code]
<1>1. /\ attempt[w] = Idle /\ ~ Full(k) /\ attempt' = [attempt EXCEPT ![w] = x]
      /\ crowd' = Crowded(k, Cardinality(AtWork(k)) + 1)
      /\ UNCHANGED <<account, links, tokens, hits, request, epoch, tries, crossed>>
  BY DEF Enters, Unoccupied
<1>2. TypeOK /\ account[u] \in Rows \cup {Absent} /\ epoch[u] \in Nat
  BY DEF IInv, Dates, TypeOK
<1>3. x \in Knocks
  BY <1>2 DEF Knocks, Stages
<1>4. Knows(x)
  <2>1. account[u] # Absent /\ u \notin crossed => account[u].version = epoch[u] + 1
    BY DEF IInv, Dates, Generations
  <2> QED BY <1>3, <2>1 DEF Knows
<1>5. Target(x) = k /\ k \in Keys /\ x.stage = "known"
  <2>1. Target(x) = k
    BY DEF Target, Door
  <2> QED BY <1>4, <2>1, Doors
<1> HIDE DEF x, u
<1>6. IsFiniteSet(AtWork(k)) /\ Cardinality(AtWork(k)) + 1 \in Nat
  BY <1>5, FS_CardinalityType DEF IInv, CountersBounded, Counted
<1>7. /\ crowd' \in [Keys \cup (Kinds \X Users) -> Nat]
      /\ \A j \in Keys \cup (Kinds \X Users) : j # k => crowd'[j] = crowd[j]
      /\ crowd'[k] >= Cardinality(AtWork(k)) + 1
  BY <1>1, <1>2, <1>5, <1>6, CrowdAfter
<1>8. Dates'
  <2>1. tokens' = tokens \cup {} /\ Dated(u, {}) /\ hits' \in [Keys -> Nat] /\ tries' \in [Keys -> Nat]
    BY <1>1, <1>2, NothingGiven DEF TypeOK
  <2> QED BY <1>1, <1>4, <1>7, <2>1, AttemptKeepsDates
<1>9. LinksBounded'
  BY <1>1, <1>5, <1>7, KeysApart, LinksUntouched DEF IInv, Dates
<1>10. CountersBounded'
  <2> SUFFICES ASSUME NEW j \in Keys PROVE Counted(j)'
    BY DEF CountersBounded
  <2>1. AtWork(j)' \subseteq AtWork(j) \cup (IF k = j THEN {w} ELSE {})
    BY <1>1, <1>2, <1>5, AtWorkAfter
  <2>2. CASE j = k
    BY <1>1, <1>7, <2>1, <2>2, CountedJoined
  <2>3. CASE j # k
    BY <1>1, <1>7, <2>1, <2>3, CountedKept
  <2> QED BY <2>2, <2>3
<1> QED BY <1>8, <1>9, <1>10 DEF IInv

LEMMA KnockKeepsIInv ==
    ASSUME AccountsAssumption, IInv, NEW w \in Workers, NEW u \in Users, Knock(w, u)
    PROVE  IInv'
<1>1. 0 \in 0 .. MaxCodes /\ tokens' = tokens
  BY DEF AccountsAssumption, Knock, Enters
<1> QED BY <1>1, EntersKeepsIInv DEF Knock

LEMMA AnswerKeepsIInv ==
    ASSUME AccountsAssumption, IInv, NEW w \in Workers, NEW t \in tokens, Answer(w, t)
    PROVE  IInv'
<1>1. t.code # 0 /\ t.code \in 0 .. MaxCodes /\ t.user \in Users /\ account[t.user] # Absent
  BY DEF IInv, Dates, TypeOK, TokensDated, Tokens, Answer, Accepted
<1>2. tokens' = tokens
  BY DEF Answer, Enters
<1> QED BY <1>1, <1>2, EntersKeepsIInv DEF Answer

\* The step of an attempt that stays at its counter or goes away.
LEMMA AttemptStepKeepsIInv ==
    ASSUME AccountsAssumption, IInv, UNCHANGED <<account, links, request, epoch, crossed, crowd>>,
           NEW w \in Signing, NEW x, attempt' = [attempt EXCEPT ![w] = x], x = Idle \/ Knows(x),
           x = Idle \/ x.stage = "burnt" \/ (attempt[w].stage # "burnt" /\ Target(x) = Target(attempt[w])),
           NEW gives, Dated(attempt[w].user, gives), tokens' = tokens \cup gives,
           gives # {} => account[attempt[w].user] # Absent,
           NEW k \in Keys,
           \/ UNCHANGED <<hits, tries>>
           \/ ResetKey(k)
           \/ /\ attempt[w].stage # "burnt" /\ k = Target(attempt[w]) /\ (x = Idle \/ x.stage = "burnt")
              /\ tries' = [tries EXCEPT ![k] = @ + 1]
              /\ hits' = [hits EXCEPT ![k] = @ + 1] \/ (Full(k) /\ hits' = hits)
    PROVE  IInv'
<1>1. TypeOK /\ w \in Workers /\ attempt[w] # Idle /\ hits \in [Keys -> Nat] /\ tries \in [Keys -> Nat]
  BY DEF IInv, Dates, TypeOK, Signing
<1>2. hits' \in [Keys -> Nat] /\ tries' \in [Keys -> Nat]
  BY <1>1 DEF ResetKey
<1>3. crowd' \in [Keys \cup (Kinds \X Users) -> Nat]
  BY <1>1 DEF TypeOK
<1>4. Dates'
  BY <1>1, <1>2, <1>3, AttemptKeepsDates
<1>5. LinksBounded'
  BY LinksUntouched DEF IInv, Dates
<1>6. ASSUME NEW j \in Keys PROVE Counted(j)'
  <2>1. AtWork(j)' \subseteq AtWork(j)
    <3>1. AtWork(j)' \subseteq (AtWork(j) \ {w}) \cup
                               (IF x # Idle /\ x.stage # "burnt" /\ Target(x) = j THEN {w} ELSE {})
      BY <1>1, AtWorkAfter
    <3>2. x # Idle /\ x.stage # "burnt" /\ Target(x) = j => w \in AtWork(j)
      BY <1>1 DEF AtWork
    <3> QED BY <3>1, <3>2
  <2>2. CASE UNCHANGED <<hits, tries>>
    BY <2>1, <2>2, CountedKept
  <2>3. CASE ResetKey(k)
    BY <1>1, <2>1, <2>3, CountedKept DEF ResetKey
  <2>4. CASE /\ attempt[w].stage # "burnt" /\ k = Target(attempt[w]) /\ (x = Idle \/ x.stage = "burnt")
             /\ tries' = [tries EXCEPT ![k] = @ + 1]
             /\ hits' = [hits EXCEPT ![k] = @ + 1] \/ (Full(k) /\ hits' = hits)
    <3>1. CASE j # k
      BY <1>1, <2>1, <2>4, <3>1, CountedKept
    <3>2. CASE j = k
      <4>1. w \in AtWork(j) /\ w \notin AtWork(j)'
        BY <1>1, <2>4, <3>2 DEF AtWork, TypeOK
      <4> QED BY <1>1, <2>1, <2>4, <3>2, <4>1, CountedKept
    <3> QED BY <3>1, <3>2
  <2> QED BY <2>2, <2>3, <2>4
<1> QED BY <1>4, <1>5, <1>6 DEF IInv, CountersBounded

LEMMA FailKeepsIInv == ASSUME AccountsAssumption, IInv, NEW w \in Workers, Fail(w) PROVE IInv'
<1> DEFINE a == attempt[w]
           k == Door(a)
<1>1. w \in Signing /\ a.stage = "known"
  BY DEF Fail, Signing
<1>2. Knows(a)
  BY <1>1, AttemptKnows
<1>3. Target(a) = k /\ k \in Keys
  BY <1>1, <1>2, Doors
<1>4. /\ UNCHANGED <<account, links, tokens, hits, request, epoch, crowd, crossed>>
      /\ IF Full(k) THEN Done(w) /\ tries' = [tries EXCEPT ![k] = @ + 1] ELSE Stage(w, a, "wrong") /\ tries' = tries
  BY DEF Fail
<1>5. tokens' = tokens \cup {} /\ Dated(a.user, {})
  BY <1>4, NothingGiven
<1> HIDE DEF k
<1>6. CASE Full(k)
  BY <1>1, <1>3, <1>4, <1>5, <1>6, AttemptStepKeepsIInv DEF Done
<1>7. CASE ~ Full(k)
  <2> DEFINE b == [a EXCEPT !.stage = "wrong"]
  <2>1. Knows(b) /\ b.stage = "wrong" /\ b.code = a.code /\ b.user = a.user
    BY <1>2, Staged DEF Stages
  <2>2. attempt' = [attempt EXCEPT ![w] = b]
    BY <1>4, <1>7 DEF Stage
  <2> HIDE DEF b, a
  <2>3. Target(b) = k
    BY <1>3, <2>1, <1>1 DEF Target, Door
  <2> QED BY <1>1, <1>3, <1>4, <1>5, <1>7, <2>1, <2>2, <2>3, AttemptStepKeepsIInv DEF a
<1> QED BY <1>6, <1>7

LEMMA InsertKeepsIInv == ASSUME AccountsAssumption, IInv, NEW w \in Workers, Insert(w) PROVE IInv'
<1> DEFINE a == attempt[w]
           k == Target(a)
<1>1. w \in Signing /\ a.stage \in {"wrong", "right"}
  BY DEF Insert, Signing
<1>2. Knows(a) /\ k \in Keys
  BY <1>1, AttemptKnows, Doors
<1>3. /\ UNCHANGED <<account, links, tokens, request, epoch, crowd, crossed>>
      /\ hits' = [hits EXCEPT ![k] = @ + 1] /\ tries' = [tries EXCEPT ![k] = @ + 1]
      /\ IF a.stage = "right" THEN Stage(w, a, "burnt") ELSE Done(w)
  BY DEF Insert
<1>4. tokens' = tokens \cup {} /\ Dated(a.user, {})
  BY <1>3, NothingGiven
<1>5. CASE a.stage = "right"
  <2> DEFINE b == [a EXCEPT !.stage = "burnt"]
  <2>1. Knows(b) /\ b.stage = "burnt"
    <3>1. a.code # 0
      BY <1>2, <1>5 DEF Knows
    <3> QED BY <1>2, <3>1, Staged DEF Stages
  <2>2. attempt' = [attempt EXCEPT ![w] = b]
    BY <1>3, <1>5 DEF Stage
  <2> HIDE DEF b
  <2> QED BY <1>1, <1>2, <1>3, <1>4, <1>5, <2>1, <2>2, AttemptStepKeepsIInv
<1>6. CASE a.stage # "right"
  <2>1. attempt' = [attempt EXCEPT ![w] = Idle]
    BY <1>3, <1>6 DEF Done
  <2> QED BY <1>1, <1>2, <1>3, <1>4, <2>1, AttemptStepKeepsIInv
<1> QED BY <1>5, <1>6

LEMMA LoginKeepsIInv == ASSUME AccountsAssumption, IInv, NEW w \in Workers, Login(w) PROVE IInv'
<1> DEFINE a == attempt[w]
           gives == {SessionOrChallenge(a.user, a.row, a.since)}
<1>1. w \in Signing /\ a.row # Absent
  BY DEF Login, Signing
<1>2. Knows(a) /\ Door(a) \in Keys
  BY <1>1, AttemptKnows, Doors
<1>3. /\ UNCHANGED <<account, links, request, epoch, crowd, crossed>>
      /\ ResetKey(Door(a)) /\ Done(w) /\ tokens' = tokens \cup gives
      /\ a.row.totp = "on" => Cardinality(Challenges) < MaxCodes
  BY DEF Login
<1>4. Dated(a.user, gives) /\ account[a.user] # Absent
  BY <1>1, <1>2, <1>3, AnswersDated DEF Knows, Knocks, IInv, Dates
<1> HIDE DEF gives
<1> QED BY <1>1, <1>2, <1>3, <1>4, AttemptStepKeepsIInv DEF Done

LEMMA MfaVerifyKeepsIInv == ASSUME AccountsAssumption, IInv, NEW w \in Workers, MfaVerify(w) PROVE IInv'
<1> DEFINE a == attempt[w]
           gives == {Session(a.user, a.row, a.since)}
<1>1. w \in Signing /\ a.stage = "burnt"
  BY DEF MfaVerify, Signing
<1>2. Knows(a) /\ Door(a) \in Keys /\ a.row # Absent
  BY <1>1, AttemptKnows, Doors DEF Knows
<1>3. /\ UNCHANGED <<account, links, request, epoch, crowd, crossed>>
      /\ ResetKey(Door(a)) /\ Done(w) /\ tokens' = tokens \cup gives
  BY DEF MfaVerify
<1>4. Dated(a.user, gives) /\ account[a.user] # Absent
  <2>1. 0 \in 0 .. MaxCodes
    BY DEF AccountsAssumption
  <2> QED BY <1>2, <2>1, TokenDated DEF Session, Knows, Knocks
<1> HIDE DEF gives
<1> QED BY <1>1, <1>2, <1>3, <1>4, AttemptStepKeepsIInv DEF Done

\* The right code leads from the counter of its failures to that of its challenge.
LEMMA ProveKeepsIInv == ASSUME AccountsAssumption, IInv, NEW w \in Workers, Prove(w) PROVE IInv'
<1> DEFINE a == attempt[w]
           k == <<"jti", a.code>>
<1>1. w \in Signing /\ a.stage = "known" /\ a.code # 0
  BY DEF Prove, Signing
<1>2. Knows(a) /\ k \in Keys /\ Target(a) = Door(a) /\ k # Door(a)
  <2>1. Knows(a)
    BY <1>1, AttemptKnows
  <2> QED BY <1>1, <2>1, Doors
<1>3. /\ UNCHANGED <<account, links, tokens, hits, request, epoch, tries, crossed>>
      /\ IF Full(k) THEN Done(w) /\ crowd' = crowd
                    ELSE Stage(w, a, "right") /\ crowd' = Crowded(k, Cardinality(AtWork(k)) + 1)
  BY DEF Prove
<1>4. tokens' = tokens \cup {} /\ Dated(a.user, {})
  BY <1>3, NothingGiven
<1>5. CASE Full(k)
  <2>1. attempt' = [attempt EXCEPT ![w] = Idle] /\ crowd' = crowd
    BY <1>3, <1>5 DEF Done
  <2> QED BY <1>1, <1>2, <1>3, <1>4, <2>1, AttemptStepKeepsIInv
<1>6. CASE ~ Full(k)
  <2> DEFINE b == [a EXCEPT !.stage = "right"]
             n == Cardinality(AtWork(k)) + 1
  <2>1. Knows(b) /\ b.stage = "right" /\ b.code = a.code
    BY <1>1, <1>2, Staged DEF Stages
  <2>2. attempt' = [attempt EXCEPT ![w] = b] /\ crowd' = Crowded(k, n)
    BY <1>3, <1>6 DEF Stage
  <2> HIDE DEF b
  <2>3. Target(b) = k
    BY <2>1 DEF Target
  <2> HIDE DEF k
  <2>4. n \in Nat /\ TypeOK
    BY <1>2, FS_CardinalityType DEF IInv, CountersBounded, Counted, Dates
  <2> HIDE DEF n, a
  <2>5. /\ crowd' \in [Keys \cup (Kinds \X Users) -> Nat]
        /\ \A j \in Keys \cup (Kinds \X Users) : j # k => crowd'[j] = crowd[j]
        /\ crowd'[k] >= n
    BY <1>2, <2>2, <2>4, CrowdAfter
  <2>6. Dates'
    <3>1. hits' \in [Keys -> Nat] /\ tries' \in [Keys -> Nat]
      BY <1>3, <2>4 DEF TypeOK
    <3> QED BY <1>3, <1>4, <2>1, <2>2, <2>5, <3>1, AttemptKeepsDates
  <2>7. LinksBounded'
    BY <1>2, <1>3, <2>5, KeysApart, LinksUntouched DEF IInv, Dates
  <2>8. CountersBounded'
    <3> SUFFICES ASSUME NEW j \in Keys PROVE Counted(j)'
      BY DEF CountersBounded
    <3>1. AtWork(j)' \subseteq AtWork(j) \cup (IF k = j THEN {w} ELSE {})
      BY <2>2, <2>3, <2>4, AtWorkAfter
    <3>2. CASE j = k
      BY <1>3, <1>6, <2>5, <3>1, <3>2, CountedJoined DEF n
    <3>3. CASE j # k
      BY <1>3, <2>5, <3>1, <3>3, CountedKept
    <3> QED BY <3>2, <3>3
  <2> QED BY <2>6, <2>7, <2>8 DEF IInv
<1> QED BY <1>5, <1>6

LEMMA LapseKeepsIInv == ASSUME AccountsAssumption, IInv, NEW k \in Keys, Lapse(k) PROVE IInv'
<1>1. /\ hits[k] > 0 /\ hits' = [hits EXCEPT ![k] = @ - 1] /\ tries' = [tries EXCEPT ![k] = 0]
      /\ UNCHANGED <<account, links, tokens, request, attempt, epoch, crowd, crossed>>
  BY DEF Lapse
<1>2. TypeOK /\ hits \in [Keys -> Nat] /\ tries \in [Keys -> Nat]
  BY DEF IInv, Dates, TypeOK
<1>3. Dates'
  <2>1. TypeOK'
    BY <1>1, <1>2 DEF TypeOK
  <2> QED BY <1>1, <2>1 DEF IInv, Dates, NothingBefore, Generations, TokensDated, AttemptsDated, RequestsSound, Held, Signing
<1>4. LinksBounded'
  BY <1>1, LinksUntouched DEF IInv, Dates
<1>5. ASSUME NEW j \in Keys PROVE Counted(j)'
  <2>1. AtWork(j)' = AtWork(j)
    BY <1>1 DEF AtWork
  <2> QED BY <1>1, <1>2, <2>1, CountedKept
<1> QED BY <1>3, <1>4, <1>5 DEF IInv, CountersBounded

\* No request holds an account that is not there, and the first link of one is its only one.
LEMMA RegisterKeepsIInv == ASSUME AccountsAssumption, IInv, NEW u \in Users, Register(u) PROVE IInv'
<1> DEFINE gives == {Session(u, NewAccount, 0)}
           minted == IF Smtp THEN {Minted("VERIFY", u, 0)} ELSE {}
<1>0. /\ TypeOK /\ account[u] = Absent /\ account' = [account EXCEPT ![u] = NewAccount] /\ tokens' = tokens \cup gives
      /\ links' = links \cup minted
      /\ UNCHANGED <<hits, request, attempt, epoch, tries, crowd, crossed>>
  BY DEF IInv, Dates, Register
<1>1. NewAccount \in Rows /\ NewAccount # Absent /\ NewAccount.version = 1
  <2>1. NewAccount \in Rows
    BY DEF NewAccount, Rows
  <2>2. NewAccount.version = 1
    BY DEF NewAccount
  <2> QED BY <2>1, <2>2, AccountsAssumption DEF AccountsAssumption
<1>2. \A v \in Users : account'[v] = IF v = u THEN NewAccount ELSE account[v]
  BY <1>0 DEF TypeOK
<1>3. Dated(u, gives)
  <2>1. 0 \in 0 .. MaxCodes /\ 0 \in Nat /\ NewAccount.version = 0 + 1
    BY <1>1 DEF AccountsAssumption
  <2> QED BY <1>1, <2>1, TokenDated DEF Session
<1>4. \A l \in minted : l \in Links /\ l.kind = "VERIFY" /\ l.user = u
  BY <1>0, MintedLink DEF Kinds
<1>5. IsFiniteSet(minted) /\ \A l, m \in minted : l = m
  BY FS_Singleton, FS_EmptySet
<1> HIDE DEF gives, minted
<1>6. (tokens \subseteq Tokens /\ IsFiniteSet(tokens))' /\ TokensDated'
  BY <1>0, <1>3, TokensAdded DEF IInv, Dates
<1>7. TypeOK'
  <2>1. links' \subseteq Links /\ IsFiniteSet(links')
    BY <1>0, <1>4, <1>5, FS_Union DEF TypeOK
  <2> QED BY <1>0, <1>1, <1>6, <2>1 DEF TypeOK
<1>8. /\ \A l \in links : l.user # u
      /\ \A w \in Held : request[w].user # u
      /\ epoch[u] = 0
  BY <1>0 DEF IInv, Dates, NothingBefore
<1>9. NothingBefore'
  BY <1>0, <1>1, <1>2, <1>3, <1>4 DEF IInv, Dates, NothingBefore, Held, Signing, Dated, TypeOK, Requests, Knocks, Tokens, Links
<1>10. Generations'
  BY <1>0, <1>1, <1>2, <1>8 DEF IInv, Dates, Generations
<1>11. AttemptsDated' /\ RequestsSound'
  BY <1>0 DEF IInv, Dates, AttemptsDated, RequestsSound, Signing, Held
<1>12. LinksBounded'
  <2> SUFFICES ASSUME NEW v \in Users, NEW kind \in Kinds, NEW S \in SUBSET Minting(kind, v)
               PROVE  Cardinality(Unspent(kind, v, S)') + Cardinality(S) <= crowd[<<kind, v>>]
    <3>1. \A v \in Users, kind \in Kinds : Minting(kind, v)' = Minting(kind, v)
      BY <1>0 DEF Minting
    <3> QED BY <1>0, <3>1 DEF IInv, LinksBounded
  <2>1. CASE kind = "VERIFY" /\ v = u
    <3>1. Unspent(kind, v, S)' \subseteq minted
      BY <1>0, <1>8, <2>1 DEF Unspent, Unused
    <3>2. S = {}
      BY <1>8, <2>1 DEF Minting, Held
    <3>3. Cardinality(S) = 0 /\ IsFiniteSet({Minted("VERIFY", u, 0)}) /\ Cardinality({Minted("VERIFY", u, 0)}) = 1
      BY <3>2, FS_EmptySet, FS_Singleton
    <3>4. Unspent(kind, v, S)' \subseteq {Minted("VERIFY", u, 0)}
      BY <3>1 DEF minted
    <3>5. Cardinality(Unspent(kind, v, S)') \in Nat /\ Cardinality(Unspent(kind, v, S)') <= 1
      BY <3>3, <3>4, SubsetCounted
    <3>6. crowd[<<kind, v>>] >= 1 /\ crowd[<<kind, v>>] \in Nat
      BY <1>0 DEF IInv, LinksBounded, TypeOK
    <3> QED BY <3>3, <3>5, <3>6
  <2>2. CASE ~ (kind = "VERIFY" /\ v = u)
    <3>1. Unspent(kind, v, S)' = Unspent(kind, v, S)
      BY <1>0, <1>4, <2>2 DEF Unspent, Unused
    <3> QED BY <3>1 DEF IInv, LinksBounded
  <2> QED BY <2>1, <2>2
<1>13. CountersBounded'
  <2> SUFFICES ASSUME NEW k \in Keys PROVE Counted(k)'
    BY DEF CountersBounded
  <2>1. AtWork(k)' = AtWork(k)
    BY <1>0 DEF AtWork
  <2> QED BY <1>0, <2>1, CountedKept
<1> QED BY <1>6, <1>7, <1>9, <1>10, <1>11, <1>12, <1>13 DEF IInv, Dates

LEMMA SignInStepKeepsIInv == ASSUME AccountsAssumption, IInv, SignInStep PROVE IInv'
BY RegisterKeepsIInv, KnockKeepsIInv, LoginKeepsIInv, FailKeepsIInv, InsertKeepsIInv, LapseKeepsIInv DEF SignInStep

LEMMA FactorStepKeepsIInv == ASSUME AccountsAssumption, IInv, FactorStep PROVE IInv'
BY ProveKeepsIInv, MfaVerifyKeepsIInv, AnswerKeepsIInv, EnrolKeepsIInv DEF FactorStep

-----------------------------------------------------------------------------
(* Requests that end *)

LEMMA LoseKeepsIInv == ASSUME AccountsAssumption, IInv, NEW w \in Workers, Lose(w) PROVE IInv'
<1>0. /\ TypeOK /\ request' = [request EXCEPT ![w] = Idle] /\ attempt' = [attempt EXCEPT ![w] = Idle]
      /\ crossed \subseteq crossed'
      /\ UNCHANGED <<account, links, tokens, hits, epoch, tries, crowd>>
  BY DEF IInv, Dates, Lose
<1>1. \A x \in Workers : /\ request'[x] = IF x = w THEN Idle ELSE request[x]
                         /\ attempt'[x] = IF x = w THEN Idle ELSE attempt[x]
  BY <1>0 DEF TypeOK
<1>2. TypeOK'
  <2>1. crossed' \subseteq Users
    BY <1>0 DEF Lose, TypeOK, Requests
  <2> QED BY <1>0, <2>1 DEF TypeOK
<1>3. NothingBefore' /\ Generations' /\ TokensDated' /\ AttemptsDated' /\ RequestsSound'
  BY <1>0, <1>1 DEF IInv, Dates, NothingBefore, Generations, TokensDated, AttemptsDated, RequestsSound, Held, Signing
<1>4. LinksBounded'
  <2> SUFFICES ASSUME NEW v \in Users, NEW kind \in Kinds
               PROVE  /\ Minting(kind, v)' \in SUBSET Minting(kind, v)
                      /\ \A S \in SUBSET Minting(kind, v)' : Unspent(kind, v, S)' = Unspent(kind, v, S)
    BY <1>0, LinksShrunk DEF IInv
  <2>1. Minting(kind, v)' \in SUBSET Minting(kind, v) /\ w \notin Minting(kind, v)'
    BY <1>1 DEF Minting
  <2>2. ASSUME NEW S \in SUBSET Minting(kind, v)' PROVE Unspent(kind, v, S)' = Unspent(kind, v, S)
    <3>1. \A x \in S : x \in Workers /\ x # w
      BY <2>1 DEF Minting
    <3> QED BY <1>0, <1>1, <3>1 DEF Unspent, Unused
  <2> QED BY <2>1, <2>2
<1>5. CountersBounded'
  <2> SUFFICES ASSUME NEW k \in Keys PROVE Counted(k)'
    BY DEF CountersBounded
  <2>1. AtWork(k)' \subseteq AtWork(k)
    BY <1>1 DEF AtWork
  <2> QED BY <1>0, <2>1, CountedKept
<1> QED BY <1>2, <1>3, <1>4, <1>5 DEF IInv, Dates

LEMMA LinksCommitted ==
    ASSUME TypeOK, NEW r \in Requests,
           links' = {IF l.id \in r.burn THEN [l EXCEPT !.used = TRUE] ELSE l : l \in links}
                    \cup (IF r.mint = "none" THEN {} ELSE {Minted(r.mint, r.user, 0)})
    PROVE  /\ links' \subseteq Links /\ IsFiniteSet(links')
           /\ \A l \in links' : l.user = r.user \/ \E m \in links : m.user = l.user
           /\ \A l \in links' : ~ l.used =>
                \/ l \in links /\ l.id \notin r.burn
                \/ r.mint # "none" /\ l = Minted(r.mint, r.user, 0)
<1> DEFINE Burnt(l) == IF l.id \in r.burn THEN [l EXCEPT !.used = TRUE] ELSE l
           kept == {Burnt(l) : l \in links}
           minted == IF r.mint = "none" THEN {} ELSE {Minted(r.mint, r.user, 0)}
<1>1. links' = kept \cup minted
  OBVIOUS
<1>2. \A l \in links : /\ Burnt(l) \in Links /\ Burnt(l).user = l.user
                       /\ ~ Burnt(l).used => Burnt(l) = l /\ l.id \notin r.burn
  <2> TAKE l \in links
  <2>1. l \in Links
    BY DEF TypeOK
  <2>2. CASE l.id \in r.burn
    <3>1. Burnt(l) = [l EXCEPT !.used = TRUE]
      BY <2>2
    <3> HIDE DEF Burnt
    <3> QED BY <2>1, <3>1 DEF Links
  <2>3. CASE l.id \notin r.burn
    BY <2>1, <2>3 DEF Links
  <2> QED BY <2>2, <2>3
<1>3. IsFiniteSet(kept)
  <2> DEFINE f == [l \in links |-> Burnt(l)]
  <2>1. f \in Surjection(links, kept)
    BY DEF Surjection
  <2> QED BY <2>1, FS_Surjection DEF TypeOK
<1>4. r.user \in Users /\ r.mint \in Kinds \cup {"none"}
  BY DEF Requests
<1>5. \A l \in minted : r.mint # "none" /\ l = Minted(r.mint, r.user, 0) /\ l \in Links /\ l.user = r.user
  BY <1>4, MintedLink
<1>6. IsFiniteSet(minted)
  BY FS_Singleton, FS_EmptySet
<1> HIDE DEF Burnt, minted
<1>7. IsFiniteSet(kept \cup minted)
  BY <1>3, <1>6, FS_Union
<1>8. ASSUME NEW l \in links'
      PROVE  /\ l \in Links /\ (l.user = r.user \/ \E m \in links : m.user = l.user)
             /\ ~ l.used => \/ l \in links /\ l.id \notin r.burn
                            \/ r.mint # "none" /\ l = Minted(r.mint, r.user, 0)
  <2>1. CASE l \in minted
    BY <1>5, <2>1
  <2>2. CASE l \in kept
    <3>1. PICK m \in links : l = Burnt(m)
      BY <2>2
    <3> QED BY <1>2, <3>1
  <2> QED BY <1>1, <2>1, <2>2
<1> QED BY <1>1, <1>7, <1>8

\* Over the row it read, a request that ends sessions writes the next generation; the links
\* it leaves are those it did not burn and its own.
LEMMA CommitKeepsIInv == ASSUME AccountsAssumption, IInv, NEW w \in Workers, Commit(w) PROVE IInv'
<1> DEFINE r == request[w]
           row == Flushed(account[r.user], r.seen, r.new)
<1>0. TypeOK /\ r \in Requests /\ w \in Held
  BY DEF IInv, Dates, TypeOK, Commit, Held
<1>1. /\ account' = [account EXCEPT ![r.user] = row]
      /\ links' = {IF l.id \in r.burn THEN [l EXCEPT !.used = TRUE] ELSE l : l \in links}
                  \cup (IF r.mint = "none" THEN {} ELSE {Minted(r.mint, r.user, 0)})
      /\ epoch' = [epoch EXCEPT ![r.user] = IF r.ends THEN @ + 1 ELSE @]
      /\ crossed' = IF r.ends /\ account[r.user].version # r.seen.version THEN crossed \cup {r.user} ELSE crossed
      /\ request' = [request EXCEPT ![w] = Idle]
      /\ UNCHANGED <<tokens, hits, attempt, tries, crowd>>
  BY DEF Commit
<1>2. r.user \in Users /\ r.seen \in Rows /\ r.new \in Rows /\ r.ends \in BOOLEAN /\ account[r.user] \in Rows
      /\ r.burn \in SUBSET Nat /\ r.mint \in Kinds \cup {"none"}
  BY <1>0 DEF Requests, TypeOK, IInv, Dates, NothingBefore
<1>3. r.new.version = IF r.ends THEN r.seen.version + 1 ELSE r.seen.version
  BY <1>0 DEF IInv, Dates, RequestsSound
<1>4. row \in Rows /\ row # Absent
      /\ row.version = IF r.new.version = r.seen.version THEN account[r.user].version ELSE r.new.version
  BY <1>2, FlushedRow, AccountsAssumption DEF AccountsAssumption
<1>5. /\ links' \subseteq Links /\ IsFiniteSet(links')
      /\ \A l \in links' : l.user = r.user \/ \E m \in links : m.user = l.user
      /\ \A l \in links' : ~ l.used =>
           \/ l \in links /\ l.id \notin r.burn
           \/ r.mint # "none" /\ l = Minted(r.mint, r.user, 0)
  BY <1>0, <1>1, LinksCommitted
<1> HIDE DEF row
<1>6. /\ \A u \in Users : account'[u] = IF u = r.user THEN row ELSE account[u]
      /\ \A u \in Users : epoch'[u] = IF u = r.user /\ r.ends THEN epoch[u] + 1 ELSE epoch[u]
      /\ \A x \in Workers : request'[x] = IF x = w THEN Idle ELSE request[x]
  BY <1>0, <1>1 DEF TypeOK
<1>7. crossed \subseteq crossed' /\ crossed' \subseteq Users
  BY <1>0, <1>1, <1>2 DEF TypeOK
<1>8. TypeOK'
  BY <1>0, <1>1, <1>2, <1>4, <1>5, <1>7 DEF TypeOK
<1>9. NothingBefore'
  <2>1. \A u \in Users : account'[u] = Absent => epoch'[u] = 0
    BY <1>4, <1>6 DEF IInv, Dates, NothingBefore
  <2>2. \A u \in Users : account[u] # Absent => account'[u] # Absent
    BY <1>4, <1>6
  <2>3. \A l \in links' : account'[l.user] # Absent
    BY <1>0, <1>2, <1>5, <2>2 DEF IInv, Dates, NothingBefore, TypeOK, Links
  <2>4. \A t \in tokens' : account'[t.user] # Absent
    BY <1>0, <1>1, <2>2 DEF IInv, Dates, NothingBefore, TypeOK, Tokens
  <2>5. \A x \in Held' : account'[request'[x].user] # Absent
    BY <1>0, <1>6, <2>2 DEF IInv, Dates, NothingBefore, TypeOK, Requests, Held
  <2>6. \A x \in Signing' : attempt'[x].row # Absent => account'[attempt'[x].user] # Absent
    BY <1>0, <1>1, <2>2 DEF IInv, Dates, NothingBefore, TypeOK, Knocks, Signing
  <2> QED BY <2>1, <2>3, <2>4, <2>5, <2>6 DEF NothingBefore
<1>10. Generations'
  <2> SUFFICES ASSUME NEW u \in Users \ crossed', account'[u] # Absent PROVE account'[u].version = epoch'[u] + 1
    BY DEF Generations
  <2>1. CASE u # r.user
    BY <1>6, <1>7, <2>1 DEF IInv, Dates, Generations
  <2>2. CASE u = r.user
    <3>1. account[u].version = epoch[u] + 1 /\ epoch[u] \in Nat /\ account[u].version \in Nat /\ r.seen.version \in Nat
      BY <1>0, <1>2, <1>4, <1>7, <2>2 DEF IInv, Dates, Generations, TypeOK, Rows
    <3>2. CASE r.ends
      <4>1. account[u].version = r.seen.version
        BY <1>1, <2>2, <3>2
      <4>2. row.version = r.seen.version + 1
        BY <1>3, <1>4, <3>1, <3>2
      <4> QED BY <1>6, <2>2, <3>1, <3>2, <4>1, <4>2
    <3>3. CASE ~ r.ends
      BY <1>3, <1>4, <1>6, <2>2, <3>1, <3>3
    <3> QED BY <3>2, <3>3
  <2> QED BY <2>1, <2>2
<1>11. TokensDated' /\ AttemptsDated' /\ RequestsSound'
  BY <1>1, <1>6, <1>7 DEF IInv, Dates, TokensDated, AttemptsDated, RequestsSound, Held, Signing
<1>12. LinksBounded'
  <2> SUFFICES ASSUME NEW v \in Users, NEW kind \in Kinds
               PROVE  /\ IsFiniteSet(Minting(kind, v)') /\ Cardinality(Minting(kind, v)') <= crowd[<<kind, v>>]
                      /\ \A S \in SUBSET Minting(kind, v)' :
                            Cardinality(Unspent(kind, v, S)') + Cardinality(S) <= crowd[<<kind, v>>]
    BY <1>1 DEF IInv, LinksBounded
  <2> DEFINE n == crowd[<<kind, v>>]
  <2>1. /\ IsFiniteSet(Minting(kind, v)) /\ Cardinality(Minting(kind, v)) <= n /\ n \in Nat
        /\ \A S \in SUBSET Minting(kind, v) : Cardinality(Unspent(kind, v, S)) + Cardinality(S) <= n
    BY <1>0 DEF IInv, LinksBounded, TypeOK
  <2> HIDE DEF n
  <2>2. Minting(kind, v)' \in SUBSET (Minting(kind, v) \ {w})
    BY <1>6 DEF Minting
  <2>3. /\ IsFiniteSet(Minting(kind, v)') /\ Cardinality(Minting(kind, v)') \in Nat
        /\ Cardinality(Minting(kind, v)) \in Nat
        /\ Cardinality(Minting(kind, v)') <= Cardinality(Minting(kind, v))
    BY <2>1, <2>2, SubsetCounted
  <2>4. ASSUME NEW S \in SUBSET Minting(kind, v)'
        PROVE  Cardinality(Unspent(kind, v, S)') + Cardinality(S) <= n
    <3>1. S \in SUBSET Minting(kind, v) /\ w \notin S /\ IsFiniteSet(S) /\ Cardinality(S) \in Nat
      BY <2>2, <2>3, SubsetCounted
    <3>2. \A x \in S : x \in Workers /\ x # w /\ request'[x] = request[x]
      BY <1>6, <3>1 DEF Minting
    <3>3. CASE r.mint = kind /\ r.user = v
      <4> DEFINE T == S \cup {w}
                 m == Minted(kind, v, 0)
      <4>1. T \in SUBSET Minting(kind, v)
        BY <1>0, <3>1, <3>3 DEF Minting, Held
      <4>2. IsFiniteSet(T) /\ Cardinality(T) = Cardinality(S) + 1
        BY <3>1, FS_AddElement
      <4>3. Unspent(kind, v, S)' \subseteq Unspent(kind, v, T) \cup {m}
        BY <1>5, <3>2, <3>3 DEF Unspent, Unused
      <4> HIDE DEF T, m
      <4>4. IsFiniteSet(Unspent(kind, v, T)) /\ Cardinality(Unspent(kind, v, T)) \in Nat
        BY <1>0, UnspentCounted
      <4>5. /\ IsFiniteSet(Unspent(kind, v, T) \cup {m}) /\ Cardinality(Unspent(kind, v, T) \cup {m}) \in Nat
            /\ Cardinality(Unspent(kind, v, T) \cup {m}) <= Cardinality(Unspent(kind, v, T)) + 1
        BY <4>4, OneMore
      <4>6. Cardinality(Unspent(kind, v, S)') \in Nat
            /\ Cardinality(Unspent(kind, v, S)') <= Cardinality(Unspent(kind, v, T) \cup {m})
        BY <4>3, <4>5, SubsetCounted
      <4>7. Cardinality(Unspent(kind, v, T)) + Cardinality(T) <= n
        BY <2>1, <4>1
      <4> QED BY <2>1, <3>1, <4>2, <4>4, <4>5, <4>6, <4>7
    <3>4. CASE ~ (r.mint = kind /\ r.user = v)
      <4>1. r.mint # "none" => Minted(r.mint, r.user, 0).kind = r.mint /\ Minted(r.mint, r.user, 0).user = r.user
        BY DEF Minted
      <4>2. Unspent(kind, v, S)' \subseteq Unspent(kind, v, S)
        BY <1>5, <3>2, <3>4, <4>1 DEF Unspent, Unused
      <4>3. /\ Cardinality(Unspent(kind, v, S)') \in Nat /\ Cardinality(Unspent(kind, v, S)) \in Nat
            /\ Cardinality(Unspent(kind, v, S)') <= Cardinality(Unspent(kind, v, S))
        BY <1>0, <4>2, UnspentCounted, SubsetCounted
      <4>4. Cardinality(Unspent(kind, v, S)) + Cardinality(S) <= n
        BY <2>1, <3>1
      <4> QED BY <2>1, <3>1, <4>3, <4>4
    <3> QED BY <3>3, <3>4
  <2>5. Cardinality(Minting(kind, v)') <= n
    BY <2>1, <2>3
  <2> QED BY <2>3, <2>4, <2>5 DEF n
<1>13. CountersBounded'
  <2> SUFFICES ASSUME NEW k \in Keys PROVE Counted(k)'
    BY DEF CountersBounded
  <2>1. AtWork(k)' = AtWork(k)
    BY <1>1 DEF AtWork
  <2> QED BY <1>1, <2>1, CountedKept
<1> QED BY <1>8, <1>9, <1>10, <1>11, <1>12, <1>13 DEF IInv, Dates

-----------------------------------------------------------------------------
(* The theorems about accounts *)

LEMMA InitIInv == ASSUME AccountsAssumption, Init PROVE IInv
<1>1. \A u \in Users : account[u] = Absent \/ (account[u] \in Rows /\ account[u].version = 1)
  <2> TAKE u \in Users
  <2>1. CASE u \notin Created
    BY <2>1 DEF Init
  <2>2. CASE u \in Created
    <3>1. account[u] = [NewAccount EXCEPT !.role = IF u = Operator THEN "ADMIN" ELSE @]
      BY <2>2 DEF Init
    <3>2. PICK role \in {"USER", "ADMIN"} : account[u] = [NewAccount EXCEPT !.role = role]
      BY <3>1 DEF NewAccount
    <3>3. account[u] = [role |-> role, active |-> TRUE, version |-> 1, verified |-> FALSE, totp |-> "none"]
      BY <3>2 DEF NewAccount
    <3> QED BY <3>3 DEF Rows
  <2> QED BY <2>1, <2>2
<1>2. /\ \A w \in Workers : request[w] = Idle /\ attempt[w] = Idle
      /\ links = {} /\ tokens = {} /\ crossed = {}
  BY DEF Init
<1>3. Held = {} /\ Signing = {}
  BY <1>2 DEF Held, Signing
<1>4. TypeOK
  <2>1. account \in [Users -> Rows \cup {Absent}]
    BY <1>1 DEF Init
  <2>2. hits \in [Keys -> Nat] /\ tries \in [Keys -> Nat] /\ epoch \in [Users -> Nat]
    BY DEF Init
  <2>3. request \in [Workers -> Requests \cup {Idle}] /\ attempt \in [Workers -> Knocks \cup {Idle}]
    BY DEF Init
  <2>4. crowd \in [Keys \cup (Kinds \X Users) -> Nat]
    BY DEF Init
  <2> QED BY <1>2, <2>1, <2>2, <2>3, <2>4, FS_EmptySet DEF TypeOK
<1>5. NothingBefore /\ Generations /\ TokensDated /\ AttemptsDated /\ RequestsSound
  BY <1>1, <1>2, <1>3 DEF Init, NothingBefore, Generations, TokensDated, AttemptsDated, RequestsSound
<1>6. LinksBounded
  <2> SUFFICES ASSUME NEW u \in Users, NEW kind \in Kinds
               PROVE  /\ IsFiniteSet(Minting(kind, u)) /\ Cardinality(Minting(kind, u)) <= 1
                      /\ \A S \in SUBSET Minting(kind, u) : Cardinality(Unspent(kind, u, S)) + Cardinality(S) <= 1
    BY DEF Init, LinksBounded
  <2>1. Minting(kind, u) = {} /\ \A S : Unspent(kind, u, S) = {}
    BY <1>2 DEF Minting, Unspent, Unused
  <2>2. IsFiniteSet({}) /\ Cardinality({}) = 0
    BY FS_EmptySet
  <2>3. ASSUME NEW S \in SUBSET Minting(kind, u) PROVE Cardinality(Unspent(kind, u, S)) + Cardinality(S) <= 1
    <3>1. S = {} /\ Unspent(kind, u, S) = {}
      BY <2>1
    <3>2. Cardinality(S) = 0 /\ Cardinality(Unspent(kind, u, S)) = 0
      BY <2>2, <3>1
    <3> QED BY <3>2
  <2> QED BY <2>1, <2>2, <2>3
<1>7. ASSUME NEW k \in Keys PROVE Counted(k)
  <2>1. AtWork(k) = {}
    BY <1>2 DEF AtWork
  <2>2. hits[k] = 0 /\ tries[k] = 0 /\ crowd[k] = 1
    BY DEF Init
  <2> QED BY <2>1, <2>2, LimitPositive, FS_EmptySet DEF Counted, Full
<1> QED BY <1>4, <1>5, <1>6, <1>7 DEF IInv, Dates, CountersBounded

LEMMA NextIInv == ASSUME AccountsAssumption, IInv, [Next]_accountVars PROVE IInv'
<1>1. CASE WorkerStep
  BY <1>1, CommitKeepsIInv, LoseKeepsIInv DEF WorkerStep
<1>2. CASE UNCHANGED accountVars
  <2>1. UNCHANGED <<account, links, tokens, hits, request, attempt, epoch, tries, crowd, crossed>>
    BY <1>2 DEF accountVars
  <2>2. Dates'
    BY <2>1 DEF IInv, Dates, TypeOK, NothingBefore, Generations, TokensDated, AttemptsDated, RequestsSound, Held, Signing
  <2>3. LinksBounded'
    BY <2>1, LinksUntouched DEF IInv, Dates
  <2>4. CountersBounded'
    BY <2>1, CountersCleared DEF IInv, Dates
  <2> QED BY <2>2, <2>3, <2>4 DEF IInv
<1> QED BY <1>1, <1>2, SignInStepKeepsIInv, SessionStepKeepsIInv, FactorStepKeepsIInv, LinkStepKeepsIInv,
           OperatorStepKeepsIInv DEF Next

LEMMA Invariance == Spec => []IInv
BY InitIInv, NextIInv, AccountsAssumption, PTL DEF Spec

\* The type invariant holds of every behaviour.
THEOREM TypesHold == Spec => []TypeOK
<1>1. IInv => TypeOK
  BY DEF IInv, Dates
<1> QED BY <1>1, Invariance, PTL

LEMMA CredentialsFollow == ASSUME IInv PROVE CredentialsHold
<1>1. RevokedStaysOut
  <2> SUFFICES ASSUME NEW t \in tokens, t.user \notin crossed, account[t.user].active
               PROVE  Accepted(t, t.scope) <=> t.epoch = epoch[t.user]
    BY DEF RevokedStaysOut
  <2>1. t.user \in Users /\ t.epoch \in Nat /\ epoch[t.user] \in Nat /\ account[t.user] # Absent
    BY DEF IInv, Dates, TypeOK, NothingBefore, Tokens
  <2>2. account[t.user].version = epoch[t.user] + 1 /\ t.version = t.epoch + 1
    BY <2>1 DEF IInv, Dates, Generations, TokensDated
  <2> QED BY <2>1, <2>2 DEF Accepted
<1>2. OneLiveLink
  <2> SUFFICES ASSUME NEW u \in Users, NEW kind \in Kinds
               PROVE  Cardinality(Unused(kind, u)) <= crowd[<<kind, u>>]
    BY DEF OneLiveLink
  <2>1. Unspent(kind, u, {}) = Unused(kind, u)
    BY DEF Unspent
  <2>2. Cardinality(Unspent(kind, u, {})) + Cardinality({}) <= crowd[<<kind, u>>]
    BY DEF IInv, LinksBounded
  <2>3. Cardinality({}) = 0 /\ Cardinality(Unspent(kind, u, {})) \in Nat
    BY FS_EmptySet, UnspentCounted DEF IInv, Dates
  <2> QED BY <2>1, <2>2, <2>3
<1> QED BY <1>1, <1>2 DEF CredentialsHold

LEMMA LimitsFollow == ASSUME AccountsAssumption, IInv PROVE LimitsHold
<1> SUFFICES ASSUME NEW k \in Keys PROVE tries[k] < Limit(k) + crowd[k]
  BY DEF LimitsHold
<1>1. /\ hits[k] \in Nat /\ tries[k] \in Nat /\ crowd[k] \in Nat
      /\ Limit(k) \in Nat /\ Limit(k) >= 1 /\ IsFiniteSet(AtWork(k))
      /\ Full(k) => tries[k] + Cardinality(AtWork(k)) < Limit(k) + crowd[k]
      /\ ~ Full(k) => tries[k] <= hits[k]
  BY LimitPositive DEF IInv, Dates, TypeOK, CountersBounded, Counted
<1>2. Cardinality(AtWork(k)) \in Nat
  BY <1>1, FS_CardinalityType
<1> QED BY <1>1, <1>2 DEF Full

\* On every account of which no revocation was written over another, or lost after its
\* answer, a token is let in exactly if no revocation committed since it was made; and the
\* live links of a kind are no more than the requests for one that were under way at once.
\* Sign-ins, changes of the row and commits may overlap in any order.
THEOREM CredentialsAlwaysHold == Spec => []CredentialsHold
BY CredentialsFollow, Invariance, PTL

\* A counter checked in one transaction and counted in another lets pass no more than its
\* limit and one for each further worker at it at once: wrong passwords, wrong codes, and
\* the sessions that one challenge gives.
THEOREM TheLimitsHold == Spec => []LimitsHold
BY LimitsFollow, AccountsAssumption, Invariance, PTL

-----------------------------------------------------------------------------
(* Teams: the inductive invariant *)

Calling == {w \in Workers : call[w] # Idle}

TeamTypeOK ==
    /\ plan \in [Users -> Plans]
    /\ teams \subseteq Users
    /\ rows \subseteq SeatRows /\ IsFiniteSet(rows)
    /\ call \in [Workers -> Calls \cup {Idle}]
    /\ most \in [Users -> Nat] /\ squeeze \in [Users -> Nat] /\ joins \in [Users -> Nat]

\* A row is of a team that exists and has an id of its own; an accepted one is its invitee's.
RowsPlaced ==
    /\ \A r, s \in rows : r.id = s.id => r = s
    /\ \A r \in rows : /\ r.org \in teams
                       /\ r.accepted => r.user = r.email
                       /\ r.role = "OWNER" => r.accepted /\ r.email = r.org

OwnersSit ==
    /\ \A o \in teams : \E r \in rows : r.org = o /\ r.role = "OWNER"
    /\ \A r, s \in rows : r.role = "OWNER" /\ s.role = "OWNER" /\ r.org = s.org => r = s

\* The row that a request holds is not replaced by another while it holds it.
HeldStays(c) ==
    /\ \A r \in rows : r.id \in c.held =>
          /\ r.org = c.org
          /\ c.op # "delete" => r.email = c.user
          /\ c.op \in {"accept", "remove"} => r.role # "OWNER"
    /\ c.op = "create" => c.org = c.user /\ c.seats > 0

CallsSound == \A w \in Calling : HeldStays(call[w])

\* The rows of a team and the requests that may still add one.
SeatsCounted ==
    \A o \in Users :
        /\ IsFiniteSet(Taking(o)) /\ Cardinality(Taking(o)) <= squeeze[o] /\ squeeze[o] >= 1
        /\ o \in teams => Cardinality(RowsOf(o)) + Cardinality(Taking(o)) < most[o] + squeeze[o]

\* The teams of an account and the requests that may still sit it in one.
JoinsCounted ==
    \A u \in Users :
        /\ IsFiniteSet(Joining(u))
        /\ Cardinality(Memberships(u)) + Cardinality(Joining(u)) <= joins[u]

TeamsInv == TeamTypeOK /\ RowsPlaced /\ OwnersSit /\ CallsSound /\ SeatsCounted /\ JoinsCounted

\* An inviting account exists, so that its link names an account.
CallersKnown == \A w \in Calling : call[w].op = "invite" => account[call[w].org] # Absent

LEMMA RowsCounted ==
    ASSUME TeamTypeOK, NEW o
    PROVE  IsFiniteSet(RowsOf(o)) /\ Cardinality(RowsOf(o)) \in Nat
<1>1. RowsOf(o) \in SUBSET rows /\ IsFiniteSet(rows)
  BY DEF RowsOf, TeamTypeOK
<1> QED BY <1>1, FS_Subset, FS_CardinalityType

LEMMA MembershipsCounted ==
    ASSUME TeamTypeOK, NEW u
    PROVE  IsFiniteSet(Memberships(u)) /\ Cardinality(Memberships(u)) \in Nat
<1> DEFINE orgs == {r.org : r \in rows}
           f == [r \in rows |-> r.org]
<1>1. f \in Surjection(rows, orgs)
  BY DEF Surjection
<1>2. IsFiniteSet(orgs)
  BY <1>1, FS_Surjection DEF TeamTypeOK
<1>3. Memberships(u) \in SUBSET orgs
  BY DEF Memberships, RowsOf
<1> HIDE DEF orgs
<1> QED BY <1>2, <1>3, FS_Subset, FS_CardinalityType

\* A count of users that is raised to n for one of them, or left as it is.
LEMMA Raised ==
    ASSUME NEW f \in [Users -> Nat], NEW u \in Users, NEW n \in Nat, NEW g,
           g = [f EXCEPT ![u] = Larger(@, n)] \/ g = [f EXCEPT ![u] = @]
    PROVE  /\ g \in [Users -> Nat] /\ \A v \in Users : g[v] >= f[v]
           /\ g = [f EXCEPT ![u] = Larger(@, n)] => g[u] >= n
<1>1. CASE g = [f EXCEPT ![u] = Larger(@, n)]
  <2>1. f[u] \in Nat /\ Larger(f[u], n) \in Nat /\ Larger(f[u], n) >= f[u] /\ Larger(f[u], n) >= n
    BY DEF Larger
  <2>2. \A v \in Users : g[v] = IF v = u THEN Larger(f[u], n) ELSE f[v]
    BY <1>1
  <2> QED BY <1>1, <2>1, <2>2
<1>2. CASE g = [f EXCEPT ![u] = @] /\ g # [f EXCEPT ![u] = Larger(@, n)]
  <2>1. g = f
    BY <1>2
  <2> QED BY <1>2, <2>1
<1> QED BY <1>1, <1>2

-----------------------------------------------------------------------------
(* Teams: requests that begin *)

LEMMA BegunKeepsTeams ==
    ASSUME TeamsInv, NEW w \in Workers,
           NEW op \in {"create", "invite", "accept", "remove", "delete"}, NEW org \in Users, NEW user \in Users,
           NEW held \in SUBSET RowIds, NEW seats \in Nat, NEW link \in Nat,
           BeginCall(w, op, org, user, held, seats, link),
           \A r \in rows : r.id \in held =>
               /\ r.org = org
               /\ op # "delete" => r.email = user
               /\ op \in {"accept", "remove"} => r.role # "OWNER",
           op = "create" => org = user /\ seats > 0 /\ org \notin teams,
           op \in {"create", "accept"} => Memberships(user) = {},
           op = "invite" /\ held = {} => Cardinality(RowsOf(org)) < seats
    PROVE  TeamsInv'
<1> DEFINE q == [op |-> op, org |-> org, user |-> user, held |-> held, seats |-> seats, link |-> link]
<1>1. /\ call' = [call EXCEPT ![w] = q] /\ UNCHANGED <<plan, teams, rows>>
      /\ call[w] = Idle
      /\ most' = [most EXCEPT ![org] = IF op = "invite" /\ held = {} THEN Larger(@, seats) ELSE @]
      /\ squeeze' = [squeeze EXCEPT ![org] = IF AddsRow(op, held) THEN Larger(@, Cardinality(Taking(org)) + 1) ELSE @]
      /\ joins' = [joins EXCEPT ![user] = IF AddsSeat(op) THEN Larger(@, Cardinality(Joining(user)) + 1) ELSE @]
  BY DEF BeginCall
<1>2. q \in Calls /\ q.op = op /\ q.org = org /\ q.user = user /\ q.held = held /\ q.seats = seats
  BY DEF Calls
<1> HIDE DEF q
<1>3. TeamTypeOK /\ RowsPlaced /\ OwnersSit /\ CallsSound /\ SeatsCounted /\ JoinsCounted
  BY DEF TeamsInv
<1>4. \A x \in Workers : call'[x] = IF x = w THEN q ELSE call[x]
  BY <1>1, <1>3 DEF TeamTypeOK
<1>5. /\ IsFiniteSet(Taking(org)) /\ Cardinality(Taking(org)) \in Nat
      /\ IsFiniteSet(Joining(user)) /\ Cardinality(Joining(user)) \in Nat
  BY <1>3, FS_CardinalityType DEF SeatsCounted, JoinsCounted
<1>6. /\ most' \in [Users -> Nat] /\ \A o \in Users : most'[o] >= most[o]
      /\ op = "invite" /\ held = {} => most'[org] >= seats
  <2> DEFINE n == seats
  <2>1. n \in Nat
    BY <1>5
  <2> HIDE DEF n
  <2>2. CASE op = "invite" /\ held = {}
    <3>1. most' = [most EXCEPT ![org] = Larger(@, n)]
      BY <1>1, <2>2 DEF n
    <3>2. /\ most' \in [Users -> Nat] /\ \A o \in Users : most'[o] >= most[o]
          /\ most'[org] >= n
      BY <1>3, <2>1, <3>1, Raised DEF TeamTypeOK
    <3> QED BY <3>2 DEF n
  <2>3. CASE ~ (op = "invite" /\ held = {})
    <3>1. most' = [most EXCEPT ![org] = @]
      BY <1>1, <2>3
    <3>2. most' \in [Users -> Nat] /\ \A o \in Users : most'[o] >= most[o]
      BY <1>3, <2>1, <3>1, Raised DEF TeamTypeOK
    <3> QED BY <2>3, <3>2
  <2> QED BY <2>2, <2>3
<1>7. /\ squeeze' \in [Users -> Nat] /\ \A o \in Users : squeeze'[o] >= squeeze[o]
      /\ AddsRow(op, held) => squeeze'[org] >= Cardinality(Taking(org)) + 1
  <2> DEFINE n == Cardinality(Taking(org)) + 1
  <2>1. n \in Nat
    BY <1>5
  <2> HIDE DEF n
  <2>2. CASE AddsRow(op, held)
    <3>1. squeeze' = [squeeze EXCEPT ![org] = Larger(@, n)]
      BY <1>1, <2>2 DEF n
    <3>2. /\ squeeze' \in [Users -> Nat] /\ \A o \in Users : squeeze'[o] >= squeeze[o]
          /\ squeeze'[org] >= n
      BY <1>3, <2>1, <3>1, Raised DEF TeamTypeOK
    <3> QED BY <3>2 DEF n
  <2>3. CASE ~ (AddsRow(op, held))
    <3>1. squeeze' = [squeeze EXCEPT ![org] = @]
      BY <1>1, <2>3
    <3>2. squeeze' \in [Users -> Nat] /\ \A o \in Users : squeeze'[o] >= squeeze[o]
      BY <1>3, <2>1, <3>1, Raised DEF TeamTypeOK
    <3> QED BY <2>3, <3>2
  <2> QED BY <2>2, <2>3
<1>8. /\ joins' \in [Users -> Nat] /\ \A o \in Users : joins'[o] >= joins[o]
      /\ AddsSeat(op) => joins'[user] >= Cardinality(Joining(user)) + 1
  <2> DEFINE n == Cardinality(Joining(user)) + 1
  <2>1. n \in Nat
    BY <1>5
  <2> HIDE DEF n
  <2>2. CASE AddsSeat(op)
    <3>1. joins' = [joins EXCEPT ![user] = Larger(@, n)]
      BY <1>1, <2>2 DEF n
    <3>2. /\ joins' \in [Users -> Nat] /\ \A o \in Users : joins'[o] >= joins[o]
          /\ joins'[user] >= n
      BY <1>3, <2>1, <3>1, Raised DEF TeamTypeOK
    <3> QED BY <3>2 DEF n
  <2>3. CASE ~ (AddsSeat(op))
    <3>1. joins' = [joins EXCEPT ![user] = @]
      BY <1>1, <2>3
    <3>2. joins' \in [Users -> Nat] /\ \A o \in Users : joins'[o] >= joins[o]
      BY <1>3, <2>1, <3>1, Raised DEF TeamTypeOK
    <3> QED BY <2>3, <3>2
  <2> QED BY <2>2, <2>3
<1>9. TeamTypeOK'
  <2>1. call' \in [Workers -> Calls \cup {Idle}]
    BY <1>1, <1>2, <1>3 DEF TeamTypeOK
  <2> QED BY <1>1, <1>3, <1>6, <1>7, <1>8, <2>1 DEF TeamTypeOK
<1>10. RowsPlaced' /\ OwnersSit'
  BY <1>1, <1>3 DEF RowsPlaced, OwnersSit
<1>11. CallsSound'
  <2> SUFFICES ASSUME NEW x \in Workers, NEW c, c = call'[x], c # Idle PROVE HeldStays(c)'
    BY DEF CallsSound, Calling
  <2>1. CASE x = w
    <3>1. c = q
      BY <1>4, <2>1
    <3>2. HeldStays(q)
      BY <1>2 DEF HeldStays
    <3> QED BY <1>1, <3>1, <3>2 DEF HeldStays
  <2>2. CASE x # w
    <3>1. c = call[x] /\ x \in Calling
      BY <1>4, <2>2 DEF Calling
    <3> QED BY <1>1, <1>3, <3>1 DEF CallsSound, HeldStays
  <2> QED BY <2>1, <2>2
<1>12. SeatsCounted'
  <2> SUFFICES ASSUME NEW o \in Users
               PROVE  /\ IsFiniteSet(Taking(o)') /\ Cardinality(Taking(o)') <= squeeze'[o] /\ squeeze'[o] >= 1
                      /\ o \in teams => Cardinality(RowsOf(o)) + Cardinality(Taking(o)') < most'[o] + squeeze'[o]
    BY <1>1 DEF SeatsCounted, RowsOf
  <2>1. /\ squeeze[o] \in Nat /\ squeeze'[o] \in Nat /\ squeeze'[o] >= squeeze[o] /\ squeeze[o] >= 1
        /\ most[o] \in Nat /\ most'[o] \in Nat /\ most'[o] >= most[o]
        /\ IsFiniteSet(Taking(o)) /\ Cardinality(Taking(o)) <= squeeze[o] /\ Cardinality(Taking(o)) \in Nat
        /\ o \in teams => Cardinality(RowsOf(o)) + Cardinality(Taking(o)) < most[o] + squeeze[o]
        /\ Cardinality(RowsOf(o)) \in Nat
    BY <1>3, <1>6, <1>7, RowsCounted, FS_CardinalityType DEF TeamTypeOK, SeatsCounted
  <2>2. Taking(o)' \subseteq Taking(o) \cup (IF o = org /\ AddsRow(op, held) THEN {w} ELSE {})
    BY <1>2, <1>4 DEF Taking
  <2>3. CASE o = org /\ AddsRow(op, held)
    <3>1. /\ IsFiniteSet(Taking(o) \cup {w}) /\ Cardinality(Taking(o) \cup {w}) \in Nat
          /\ Cardinality(Taking(o) \cup {w}) <= Cardinality(Taking(o)) + 1
      BY <2>1, OneMore
    <3>2. Taking(o)' \in SUBSET (Taking(o) \cup {w})
      BY <2>2, <2>3
    <3>3. /\ IsFiniteSet(Taking(o)') /\ Cardinality(Taking(o)') \in Nat
          /\ Cardinality(Taking(o)') <= Cardinality(Taking(o) \cup {w})
      BY <3>1, <3>2, SubsetCounted
    <3>4. Cardinality(Taking(o)') <= squeeze'[o]
      BY <1>7, <2>1, <2>3, <3>1, <3>3
    <3>5. o \in teams => Cardinality(RowsOf(o)) < most'[o]
      BY <1>6, <2>1, <2>3 DEF AddsRow
    <3> QED BY <2>1, <3>3, <3>4, <3>5
  <2>4. CASE ~ (o = org /\ AddsRow(op, held))
    <3>1. Taking(o)' \in SUBSET Taking(o)
      BY <2>2, <2>4
    <3>2. IsFiniteSet(Taking(o)') /\ Cardinality(Taking(o)') \in Nat /\ Cardinality(Taking(o)') <= Cardinality(Taking(o))
      BY <2>1, <3>1, SubsetCounted
    <3> QED BY <2>1, <3>2
  <2> QED BY <2>3, <2>4
<1>13. JoinsCounted'
  <2> SUFFICES ASSUME NEW u \in Users
               PROVE  /\ IsFiniteSet(Joining(u)')
                      /\ Cardinality(Memberships(u)) + Cardinality(Joining(u)') <= joins'[u]
    <3>1. \A u : Memberships(u)' = Memberships(u)
      BY <1>1 DEF Memberships, RowsOf
    <3> QED BY <3>1 DEF JoinsCounted
  <2>1. /\ joins[u] \in Nat /\ joins'[u] \in Nat /\ joins'[u] >= joins[u]
        /\ IsFiniteSet(Joining(u)) /\ Cardinality(Joining(u)) \in Nat
        /\ Cardinality(Memberships(u)) + Cardinality(Joining(u)) <= joins[u]
        /\ Cardinality(Memberships(u)) \in Nat
    BY <1>3, <1>8, MembershipsCounted, FS_CardinalityType DEF TeamTypeOK, JoinsCounted
  <2>2. Joining(u)' \subseteq Joining(u) \cup (IF u = user /\ AddsSeat(op) THEN {w} ELSE {})
    BY <1>2, <1>4 DEF Joining
  <2>3. CASE u = user /\ AddsSeat(op)
    <3>1. /\ IsFiniteSet(Joining(u) \cup {w}) /\ Cardinality(Joining(u) \cup {w}) \in Nat
          /\ Cardinality(Joining(u) \cup {w}) <= Cardinality(Joining(u)) + 1
      BY <2>1, OneMore
    <3>2. Joining(u)' \in SUBSET (Joining(u) \cup {w})
      BY <2>2, <2>3
    <3>3. /\ IsFiniteSet(Joining(u)') /\ Cardinality(Joining(u)') \in Nat
          /\ Cardinality(Joining(u)') <= Cardinality(Joining(u) \cup {w})
      BY <3>1, <3>2, SubsetCounted
    <3>4. Cardinality(Memberships(u)) = 0
      BY <2>3, FS_EmptySet DEF AddsSeat
    <3> QED BY <1>8, <2>1, <2>3, <3>1, <3>3, <3>4
  <2>4. CASE ~ (u = user /\ AddsSeat(op))
    <3>1. Joining(u)' \in SUBSET Joining(u)
      BY <2>2, <2>4
    <3>2. IsFiniteSet(Joining(u)') /\ Cardinality(Joining(u)') \in Nat /\ Cardinality(Joining(u)') <= Cardinality(Joining(u))
      BY <2>1, <3>1, SubsetCounted
    <3> QED BY <2>1, <3>2
  <2> QED BY <2>3, <2>4
<1> QED BY <1>9, <1>10, <1>11, <1>12, <1>13 DEF TeamsInv

\* Whoever is signed in has an account.
LEMMA SignedInKnown == ASSUME NEW u, SignedIn(u) PROVE account[u] # Absent /\ account[u].active
BY DEF SignedIn, Accepted

\* Who sits in no team has none.
LEMMA NoTeam ==
    ASSUME TeamsInv, NEW u \in Users, Memberships(u) = {}
    PROVE  u \notin teams
<1> SUFFICES ASSUME u \in teams PROVE FALSE
  OBVIOUS
<1>1. PICK r \in rows : r.org = u /\ r.role = "OWNER"
  BY DEF TeamsInv, OwnersSit
<1>2. r.accepted /\ r.user = u
  BY <1>1 DEF TeamsInv, RowsPlaced
<1> QED BY <1>1, <1>2 DEF Memberships, RowsOf

LEMMA CreateKeepsTeams ==
    ASSUME OrganisationsAssumption, TeamsInv, NEW w \in Workers, NEW u \in Users, Create(w, u)
    PROVE  TeamsInv'
<1> DEFINE seats == Granted(u, SeatsOf[plan[u]], 1)
<1>1. SeatsOf[plan[u]] \in Nat
  BY DEF OrganisationsAssumption, TeamsInv, TeamTypeOK
<1>2. seats \in Nat /\ seats > 0
  BY <1>1 DEF Create, Granted
<1>3. BeginCall(w, "create", u, u, {}, seats, 0) /\ Memberships(u) = {} /\ u \notin teams
  BY NoTeam DEF Create
<1> QED BY <1>2, <1>3, BegunKeepsTeams

LEMMA InviteKeepsTeams ==
    ASSUME OrganisationsAssumption, TeamsInv, NEW w \in Workers, NEW u \in Users, NEW email \in Users, Invite(w, u, email)
    PROVE  TeamsInv'
<1> DEFINE held == {r.id : r \in {x \in RowsOf(u) : x.email = email}}
           seats == Granted(u, Seats(u), SeatsUsed(u) + 1)
<1>1. SeatsOf[plan[u]] \in Nat /\ SeatsUsed(u) \in Nat /\ rows \subseteq SeatRows
  BY RowsCounted DEF OrganisationsAssumption, TeamsInv, TeamTypeOK, SeatsUsed
<1>2. Seats(u) = SeatsOf[plan[u]]
  BY SignedInKnown DEF Invite, Seats
<1>3. held \in SUBSET RowIds
  BY <1>1 DEF SeatRows, RowsOf
<1>4. seats \in Nat
  BY <1>1, <1>2 DEF Granted
<1>5. held = {} => SeatsUsed(u) < seats
  BY <1>1, <1>2 DEF Invite, Granted
<1>6. \A r \in rows : r.id \in held => r.org = u /\ r.email = email
  BY DEF TeamsInv, RowsPlaced, RowsOf
<1>7. BeginCall(w, "invite", u, email, held, seats, 0)
  BY DEF Invite
<1> HIDE DEF held, seats
<1>8. held = {} => Cardinality(RowsOf(u)) < seats
  BY <1>5 DEF SeatsUsed
<1>9. 0 \in Nat
  OBVIOUS
<1> QED BY ONLY TeamsInv, w \in Workers, u \in Users, email \in Users, <1>3, <1>4, <1>6, <1>7, <1>8, <1>9, BegunKeepsTeams

LEMMA AcceptKeepsTeams ==
    ASSUME TypeOK, TeamsInv, NEW w \in Workers, NEW u \in Users, NEW l \in links, Accept(w, u, l)
    PROVE  TeamsInv'
<1>1. PICK r \in InvitedRows(u, l) : BeginCall(w, "accept", l.user, u, {r.id}, 0, l.id)
  BY DEF Accept
<1>2. /\ r \in rows /\ r.org = l.user /\ r.email = u /\ ~ r.accepted
      /\ r.id \in RowIds /\ l.user \in Users /\ l.id \in Nat
  BY <1>1 DEF InvitedRows, RowsOf, TeamsInv, TeamTypeOK, SeatRows, TypeOK, Links
<1>3. Memberships(u) = {}
  BY DEF Accept
<1>4. \A s \in rows : s.id \in {r.id} => s.org = l.user /\ s.email = u /\ s.role # "OWNER"
  BY <1>2 DEF TeamsInv, RowsPlaced
<1> QED BY <1>1, <1>2, <1>3, <1>4, BegunKeepsTeams

LEMMA RemoveKeepsTeams ==
    ASSUME TeamsInv, NEW w \in Workers, NEW actor \in Users, NEW r \in rows, Remove(w, actor, r)
    PROVE  TeamsInv'
<1>1. r.org \in Users /\ r.email \in Users /\ r.id \in RowIds
  BY DEF TeamsInv, TeamTypeOK, SeatRows
<1>2. \A s \in rows : s.id \in {r.id} => s = r
  BY DEF TeamsInv, RowsPlaced
<1> QED BY <1>1, <1>2, BegunKeepsTeams DEF Remove

LEMMA DeleteKeepsTeams ==
    ASSUME TeamsInv, NEW w \in Workers, NEW u \in Users, Delete(w, u)
    PROVE  TeamsInv'
<1> DEFINE held == {r.id : r \in RowsOf(u)}
<1>1. held \in SUBSET RowIds
  BY DEF TeamsInv, TeamTypeOK, SeatRows, RowsOf
<1>2. \A s \in rows : s.id \in held => s.org = u
  BY DEF TeamsInv, RowsPlaced, RowsOf
<1>3. BeginCall(w, "delete", u, u, held, 0, 0)
  BY DEF Delete
<1> HIDE DEF held
<1> QED BY <1>1, <1>2, <1>3, BegunKeepsTeams

-----------------------------------------------------------------------------
(* Teams: requests that end *)

LEMMA CallsSettled ==
    ASSUME TeamTypeOK, NEW w \in Calling, call' = [call EXCEPT ![w] = Idle]
    PROVE  /\ call' \in [Workers -> Calls \cup {Idle}]
           /\ \A x \in Calling' : x \in Calling /\ x # w /\ call'[x] = call[x]
           /\ \A o : Taking(o)' \subseteq Taking(o) \ {w}
           /\ \A u : Joining(u)' \subseteq Joining(u) \ {w}
<1>1. \A x \in Workers : call'[x] = IF x = w THEN Idle ELSE call[x]
  BY DEF TeamTypeOK
<1>2. call' \in [Workers -> Calls \cup {Idle}]
  BY DEF TeamTypeOK
<1> QED BY <1>1, <1>2 DEF Calling, Taking, Joining

\* What every commit of a request sees to: the rows of other teams are left alone, a row
\* of `rows'` is one of before or has a free id, and a seat is only taken by the request
\* of its account.
Orderly(c) ==
    /\ rows' \subseteq SeatRows /\ IsFiniteSet(rows')
    /\ teams' \subseteq teams \cup {c.org}
    /\ most' \in [Users -> Nat] /\ \A o \in Users : o # c.org => most'[o] = most[o]
    /\ \A r \in rows' :
         \/ r.id \in FreeIds
         \/ \E s \in rows : s.id = r.id /\ s.org = r.org /\ s.email = r.email /\ s.role = r.role
    /\ \A r \in rows' : \/ r \in rows
                        \/ r.org = c.org /\ (r.accepted => r.user = c.user /\ AddsSeat(c.op))

LEMMA CommittedKeeps ==
    ASSUME TeamsInv, NEW w \in Calling, Settle(w), NEW c, c = call[w], Orderly(c),
           c.org \in teams' =>
              Cardinality(RowsOf(c.org)') + Cardinality(Taking(c.org)') < most'[c.org] + squeeze[c.org]
    PROVE  TeamTypeOK' /\ CallsSound' /\ SeatsCounted' /\ JoinsCounted'
<1>1. /\ TeamTypeOK /\ CallsSound /\ SeatsCounted /\ JoinsCounted /\ RowsPlaced
      /\ w \in Workers /\ c \in Calls
      /\ UNCHANGED <<plan, squeeze, joins>>
  BY DEF TeamsInv, TeamTypeOK, Calling, Settle
<1>2. /\ call' \in [Workers -> Calls \cup {Idle}]
      /\ \A x \in Calling' : x \in Calling /\ x # w /\ call'[x] = call[x]
      /\ \A o : Taking(o)' \subseteq Taking(o) \ {w}
      /\ \A u : Joining(u)' \subseteq Joining(u) \ {w}
  BY <1>1, CallsSettled DEF Settle
<1>3. TeamTypeOK'
  BY <1>1, <1>2 DEF TeamTypeOK, Orderly, Calls
<1>4. CallsSound'
  <2> SUFFICES ASSUME NEW x \in Calling', NEW d, d = call[x] PROVE HeldStays(d)'
    BY <1>2 DEF CallsSound
  <2>1. x \in Calling /\ HeldStays(d) /\ d \in Calls
    BY <1>1, <1>2 DEF CallsSound, TeamTypeOK, Calling
  <2>2. FreeIds \cap d.held = {}
    BY <2>1 DEF FreeIds, Calling
  <2>3. ASSUME NEW r \in rows', r.id \in d.held
        PROVE  /\ r.org = d.org
               /\ d.op # "delete" => r.email = d.user
               /\ d.op \in {"accept", "remove"} => r.role # "OWNER"
    <3>1. PICK s \in rows : s.id = r.id /\ s.org = r.org /\ s.email = r.email /\ s.role = r.role
      BY <2>2, <2>3 DEF Orderly
    <3> QED BY <2>1, <2>3, <3>1 DEF HeldStays
  <2> QED BY <2>1, <2>3 DEF HeldStays
<1>5. SeatsCounted'
  <2> SUFFICES ASSUME NEW o \in Users
               PROVE  /\ IsFiniteSet(Taking(o)') /\ Cardinality(Taking(o)') <= squeeze[o] /\ squeeze[o] >= 1
                      /\ o \in teams' => Cardinality(RowsOf(o)') + Cardinality(Taking(o)') < most'[o] + squeeze[o]
    BY <1>1 DEF SeatsCounted
  <2>1. /\ squeeze[o] \in Nat /\ squeeze[o] >= 1 /\ most[o] \in Nat
        /\ IsFiniteSet(Taking(o)) /\ Cardinality(Taking(o)) <= squeeze[o] /\ Cardinality(Taking(o)) \in Nat
        /\ o \in teams => Cardinality(RowsOf(o)) + Cardinality(Taking(o)) < most[o] + squeeze[o]
        /\ IsFiniteSet(RowsOf(o)) /\ Cardinality(RowsOf(o)) \in Nat
    BY <1>1, RowsCounted, FS_CardinalityType DEF TeamTypeOK, SeatsCounted
  <2>2. Taking(o)' \in SUBSET Taking(o)
    BY <1>2
  <2>3. IsFiniteSet(Taking(o)') /\ Cardinality(Taking(o)') \in Nat /\ Cardinality(Taking(o)') <= Cardinality(Taking(o))
    BY <2>1, <2>2, SubsetCounted
  <2>4. ASSUME o \in teams', o # c.org
        PROVE  Cardinality(RowsOf(o)') + Cardinality(Taking(o)') < most'[o] + squeeze[o]
    <3>1. o \in teams /\ most'[o] = most[o] /\ RowsOf(o)' \in SUBSET RowsOf(o)
      BY <2>4 DEF Orderly, RowsOf
    <3>2. Cardinality(RowsOf(o)') \in Nat /\ Cardinality(RowsOf(o)') <= Cardinality(RowsOf(o))
      BY <2>1, <3>1, SubsetCounted
    <3> QED BY <2>1, <2>3, <3>1, <3>2
  <2> QED BY <2>1, <2>3, <2>4
<1>6. JoinsCounted'
  <2> SUFFICES ASSUME NEW u \in Users
               PROVE  /\ IsFiniteSet(Joining(u)')
                      /\ Cardinality(Memberships(u)') + Cardinality(Joining(u)') <= joins[u]
    BY <1>1 DEF JoinsCounted
  <2>1. /\ joins[u] \in Nat
        /\ IsFiniteSet(Joining(u)) /\ Cardinality(Joining(u)) \in Nat
        /\ Cardinality(Memberships(u)) + Cardinality(Joining(u)) <= joins[u]
        /\ IsFiniteSet(Memberships(u)) /\ Cardinality(Memberships(u)) \in Nat
    BY <1>1, MembershipsCounted, FS_CardinalityType DEF TeamTypeOK, JoinsCounted
  <2>2. Joining(u)' \in SUBSET Joining(u) /\ Joining(u)' \in SUBSET (Joining(u) \ {w})
    BY <1>2
  <2>3. IsFiniteSet(Joining(u)') /\ Cardinality(Joining(u)') \in Nat /\ Cardinality(Joining(u)') <= Cardinality(Joining(u))
    BY <2>1, <2>2, SubsetCounted
  <2>4. Memberships(u)' \subseteq Memberships(u) \cup (IF u = c.user /\ AddsSeat(c.op) THEN {c.org} ELSE {})
    <3> SUFFICES ASSUME NEW o \in teams', NEW r \in rows', r.org = o, r.user = u, r.accepted
                 PROVE  o \in Memberships(u) \cup (IF u = c.user /\ AddsSeat(c.op) THEN {c.org} ELSE {})
      BY DEF Memberships, RowsOf
    <3>1. CASE r \in rows
      BY <1>1, <3>1 DEF Memberships, RowsOf, RowsPlaced
    <3>2. CASE r \notin rows
      BY <3>2 DEF Orderly
    <3> QED BY <3>1, <3>2
  <2>5. CASE u = c.user /\ AddsSeat(c.op)
    <3>1. w \in Joining(u)
      BY <1>1, <2>5 DEF Joining, Calling
    <3>2. IsFiniteSet(Joining(u) \ {w}) /\ Cardinality(Joining(u) \ {w}) \in Nat
          /\ Cardinality(Joining(u)) = Cardinality(Joining(u) \ {w}) + 1
      BY <2>1, <3>1, OneLess
    <3>3. Cardinality(Joining(u)') <= Cardinality(Joining(u) \ {w})
      BY <2>2, <3>2, SubsetCounted
    <3>4. /\ IsFiniteSet(Memberships(u) \cup {c.org}) /\ Cardinality(Memberships(u) \cup {c.org}) \in Nat
          /\ Cardinality(Memberships(u) \cup {c.org}) <= Cardinality(Memberships(u)) + 1
      BY <2>1, OneMore
    <3>5. Memberships(u)' \in SUBSET (Memberships(u) \cup {c.org})
      BY <2>4, <2>5
    <3>6. Cardinality(Memberships(u)') \in Nat
          /\ Cardinality(Memberships(u)') <= Cardinality(Memberships(u) \cup {c.org})
      BY <3>4, <3>5, SubsetCounted
    <3> QED BY <2>1, <2>3, <3>2, <3>3, <3>4, <3>6
  <2>6. CASE ~ (u = c.user /\ AddsSeat(c.op))
    <3>1. Memberships(u)' \in SUBSET Memberships(u)
      BY <2>4, <2>6
    <3>2. Cardinality(Memberships(u)') \in Nat /\ Cardinality(Memberships(u)') <= Cardinality(Memberships(u))
      BY <2>1, <3>1, SubsetCounted
    <3> QED BY <2>1, <2>3, <3>2
  <2> QED BY <2>5, <2>6
<1> QED BY <1>3, <1>4, <1>5, <1>6

\* What a commit leaves of the rows and requests of its team, when it adds no row.
LEMMA SeatsLeft ==
    ASSUME TeamsInv, NEW w \in Calling, Settle(w), NEW o \in teams, most'[o] = most[o],
           Cardinality(RowsOf(o)') \in Nat, Cardinality(RowsOf(o)') <= Cardinality(RowsOf(o))
    PROVE  Cardinality(RowsOf(o)') + Cardinality(Taking(o)') < most'[o] + squeeze[o]
<1>1. /\ TeamTypeOK /\ o \in Users /\ squeeze[o] \in Nat /\ most[o] \in Nat
      /\ IsFiniteSet(Taking(o)) /\ Cardinality(Taking(o)) \in Nat
      /\ Cardinality(RowsOf(o)) + Cardinality(Taking(o)) < most[o] + squeeze[o]
      /\ Cardinality(RowsOf(o)) \in Nat
  BY RowsCounted, FS_CardinalityType DEF TeamsInv, TeamTypeOK, SeatsCounted
<1>2. Taking(o)' \in SUBSET Taking(o)
  BY <1>1, CallsSettled DEF Settle
<1>3. Cardinality(Taking(o)') \in Nat /\ Cardinality(Taking(o)') <= Cardinality(Taking(o))
  BY <1>1, <1>2, SubsetCounted
<1> QED BY <1>1, <1>3

\* A commit that only drops rows, or changes none.
LEMMA RowsDropped ==
    ASSUME TeamsInv, NEW w \in Calling, Settle(w), NEW c, c = call[w],
           rows' \subseteq rows, teams' \subseteq teams, most' = most
    PROVE  TeamTypeOK' /\ CallsSound' /\ SeatsCounted' /\ JoinsCounted'
<1>1. TeamTypeOK /\ c \in Calls
  BY DEF TeamsInv, TeamTypeOK, Calling
<1>2. IsFiniteSet(rows')
  BY <1>1, FS_Subset DEF TeamTypeOK
<1>3. Orderly(c)
  BY <1>1, <1>2 DEF Orderly, TeamTypeOK
<1>4. IsFiniteSet(RowsOf(c.org)) /\ RowsOf(c.org)' \in SUBSET RowsOf(c.org)
  BY <1>1, RowsCounted DEF RowsOf
<1>5. Cardinality(RowsOf(c.org)') \in Nat /\ Cardinality(RowsOf(c.org)') <= Cardinality(RowsOf(c.org))
  BY <1>4, SubsetCounted
<1>6. c.org \in teams' =>
         Cardinality(RowsOf(c.org)') + Cardinality(Taking(c.org)') < most'[c.org] + squeeze[c.org]
  BY <1>5, SeatsLeft
<1> QED BY <1>3, <1>6, CommittedKeeps

\* A commit that adds a row of its team: one more row, one request less.
LEMMA RowAdded ==
    ASSUME TeamsInv, NEW w \in Calling, Settle(w), NEW c, c = call[w], AddsRow(c.op, c.held),
           NEW r \in SeatRows, r.id \in FreeIds, r.org = c.org, rows' = rows \cup {r},
           r.accepted => r.user = c.user /\ r.user = r.email /\ AddsSeat(c.op),
           teams' = teams \cup {c.org},
           most' \in [Users -> Nat], \A o \in Users : o # c.org => most'[o] = most[o],
           IF c.org \in teams THEN most'[c.org] = most[c.org] /\ r.role # "OWNER"
           ELSE most'[c.org] > 0 /\ r.role = "OWNER" /\ r.accepted /\ r.email = r.org
    PROVE  TeamsInv'
<1>1. /\ TeamTypeOK /\ RowsPlaced /\ OwnersSit /\ SeatsCounted /\ c \in Calls /\ w \in Workers
      /\ \A s \in rows : s.id # r.id
  BY DEF TeamsInv, TeamTypeOK, Calling, FreeIds
<1>2. IsFiniteSet(rows')
  BY <1>1, FS_AddElement DEF TeamTypeOK
<1>3. Orderly(c)
  BY <1>1, <1>2 DEF Orderly, TeamTypeOK
<1>4. Cardinality(RowsOf(c.org)') + Cardinality(Taking(c.org)') < most'[c.org] + squeeze[c.org]
  <2> DEFINE o == c.org
  <2>1. o \in Users
    BY <1>1 DEF Calls
  <2> HIDE DEF o
  <2>2. /\ squeeze[o] \in Nat /\ most[o] \in Nat /\ most'[o] \in Nat
        /\ IsFiniteSet(Taking(o)) /\ Cardinality(Taking(o)) <= squeeze[o] /\ Cardinality(Taking(o)) \in Nat
        /\ o \in teams => Cardinality(RowsOf(o)) + Cardinality(Taking(o)) < most[o] + squeeze[o]
        /\ IsFiniteSet(RowsOf(o)) /\ Cardinality(RowsOf(o)) \in Nat
    BY <1>1, <2>1, RowsCounted, FS_CardinalityType DEF TeamTypeOK, SeatsCounted
  <2>3. w \in Taking(o)
    BY <1>1 DEF Taking, Calling, o
  <2>4. IsFiniteSet(Taking(o) \ {w}) /\ Cardinality(Taking(o) \ {w}) \in Nat
        /\ Cardinality(Taking(o)) = Cardinality(Taking(o) \ {w}) + 1
    BY <2>2, <2>3, OneLess
  <2>5. Taking(o)' \in SUBSET (Taking(o) \ {w})
    BY <1>1, CallsSettled DEF Settle
  <2>6. Cardinality(Taking(o)') \in Nat /\ Cardinality(Taking(o)') <= Cardinality(Taking(o) \ {w})
    BY <2>4, <2>5, SubsetCounted
  <2>7. RowsOf(o)' = RowsOf(o) \cup {r}
    BY DEF RowsOf, o
  <2>8. Cardinality(RowsOf(o)') \in Nat /\ Cardinality(RowsOf(o)') <= Cardinality(RowsOf(o)) + 1
    BY <2>2, <2>7, OneMore
  <2>9. o \notin teams => Cardinality(RowsOf(o)) = 0
    <3>1. o \notin teams => RowsOf(o) = {}
      BY <1>1 DEF RowsOf, RowsPlaced
    <3> QED BY <3>1, FS_EmptySet
  <2>10. o \notin teams => most'[o] > 0
    BY DEF o
  <2>11. o \in teams => most'[o] = most[o]
    BY DEF o
  <2>12. Cardinality(RowsOf(o)') + Cardinality(Taking(o)') < most'[o] + squeeze[o]
    BY <2>2, <2>4, <2>6, <2>8, <2>9, <2>10, <2>11
  <2> QED BY <2>12 DEF o
<1>5. TeamTypeOK' /\ CallsSound' /\ SeatsCounted' /\ JoinsCounted'
  BY <1>3, <1>4, CommittedKeeps
<1>6. RowsPlaced'
  BY <1>1 DEF RowsPlaced
<1>7. OwnersSit'
  <2>1. \A s \in rows : s.org \in teams
    BY <1>1 DEF RowsPlaced
  <2>2. \A o \in teams' : \E s \in rows' : s.org = o /\ s.role = "OWNER"
    BY <1>1 DEF OwnersSit
  <2>3. \A s, t \in rows' : s.role = "OWNER" /\ t.role = "OWNER" /\ s.org = t.org => s = t
    BY <1>1, <2>1 DEF OwnersSit
  <2> QED BY <2>2, <2>3 DEF OwnersSit
<1> QED BY <1>5, <1>6, <1>7 DEF TeamsInv

LEMMA CommitCreateKeepsTeams ==
    ASSUME OrganisationsAssumption, TeamsInv, NEW w \in Workers, CommitCreate(w)
    PROVE  TeamsInv'
<1> DEFINE c == call[w]
<1>1. /\ w \in Calling /\ Settle(w) /\ c.op = "create" /\ c.org \notin teams
      /\ teams' = teams \cup {c.org} /\ most' = [most EXCEPT ![c.org] = c.seats]
  BY DEF CommitCreate, Calling
<1>2. /\ TeamTypeOK /\ RowsPlaced /\ c \in Calls
      /\ c.org = c.user /\ c.seats > 0
  BY <1>1 DEF TeamsInv, TeamTypeOK, CallsSound, HeldStays, Calling
<1>3. PICK id \in FreeIds :
        rows' = rows \cup {[id |-> id, org |-> c.org, user |-> c.user, email |-> c.user, role |-> "OWNER", accepted |-> TRUE]}
  BY DEF CommitCreate
<1> DEFINE r == [id |-> id, org |-> c.org, user |-> c.user, email |-> c.user, role |-> "OWNER", accepted |-> TRUE]
<1>4. /\ r \in SeatRows /\ r.id \in FreeIds /\ r.org = c.org /\ r.user = c.user /\ r.email = c.user
      /\ r.role = "OWNER" /\ r.accepted
  BY <1>2 DEF SeatRows, Calls, FreeIds
<1>5. most' \in [Users -> Nat] /\ most'[c.org] = c.seats /\ \A o \in Users : o # c.org => most'[o] = most[o]
  BY <1>1, <1>2 DEF TeamTypeOK, Calls
<1>6. most'[c.org] > 0 /\ AddsRow(c.op, c.held) /\ AddsSeat(c.op)
  BY <1>1, <1>2, <1>5 DEF AddsRow, AddsSeat
<1>7. rows' = rows \cup {r}
  BY <1>3
<1> HIDE DEF c, r
<1> QED BY <1>1, <1>2, <1>4, <1>5, <1>6, <1>7, RowAdded DEF c

LEMMA CommitInviteKeepsTeams ==
    ASSUME OrganisationsAssumption, TeamsInv, NEW w \in Workers, CommitInvite(w)
    PROVE  TeamsInv'
<1> DEFINE c == call[w]
<1>1. w \in Calling /\ Settle(w) /\ c.op = "invite" /\ teams' = teams /\ most' = most
  BY DEF CommitInvite, Calling
<1>2. TeamTypeOK /\ RowsPlaced /\ OwnersSit /\ c \in Calls
  BY <1>1 DEF TeamsInv, TeamTypeOK, Calling
<1>3. CASE c.held # {}
  <2>1. rows' = rows
    BY <1>3 DEF CommitInvite
  <2>2. TeamTypeOK' /\ CallsSound' /\ SeatsCounted' /\ JoinsCounted'
    BY <1>1, <2>1, RowsDropped
  <2>3. RowsPlaced' /\ OwnersSit'
    BY <1>1, <1>2, <2>1 DEF RowsPlaced, OwnersSit
  <2> QED BY <2>2, <2>3 DEF TeamsInv
<1>4. CASE c.held = {}
  <2>1. c.org \in teams
    BY <1>4 DEF CommitInvite
  <2>2. PICK id \in FreeIds :
          rows' = rows \cup {[id |-> id, org |-> c.org, user |-> Nobody, email |-> c.user, role |-> "MEMBER", accepted |-> FALSE]}
    BY <1>4 DEF CommitInvite
  <2> DEFINE r == [id |-> id, org |-> c.org, user |-> Nobody, email |-> c.user, role |-> "MEMBER", accepted |-> FALSE]
  <2>3. r \in SeatRows /\ r.id \in FreeIds /\ r.org = c.org /\ r.role = "MEMBER" /\ ~ r.accepted
    BY <1>2 DEF SeatRows, Calls, FreeIds
  <2>4. rows' = rows \cup {r} /\ teams' = teams \cup {c.org} /\ AddsRow(c.op, c.held)
    BY <1>1, <1>4, <2>1, <2>2 DEF AddsRow
  <2>5. most' \in [Users -> Nat] /\ most' = most
    BY <1>1, <1>2 DEF TeamTypeOK
  <2> HIDE DEF c, r
  <2> QED BY <1>1, <2>1, <2>3, <2>4, <2>5, RowAdded DEF c
<1> QED BY <1>3, <1>4

LEMMA CommitAcceptKeepsTeams ==
    ASSUME TeamsInv, NEW w \in Workers, CommitAccept(w)
    PROVE  TeamsInv'
<1>0. PICK c : c = call[w]
  OBVIOUS
<1>1. /\ w \in Calling /\ Settle(w) /\ c.op = "accept" /\ teams' = teams /\ most' = most
  BY <1>0 DEF CommitAccept, Calling
<1>2. /\ TeamTypeOK /\ RowsPlaced /\ OwnersSit /\ c \in Calls /\ HeldStays(c)
  BY <1>0, <1>1 DEF TeamsInv, TeamTypeOK, CallsSound, Calling
<1> DEFINE taken(r) == [r EXCEPT !.user = c.user, !.accepted = TRUE]
           new(r) == IF r.id \in c.held THEN taken(r) ELSE r
<1>3. rows' = {new(r) : r \in rows}
  BY <1>0 DEF CommitAccept
<1>4. ASSUME NEW r \in rows
      PROVE  /\ new(r) \in SeatRows /\ new(r).id = r.id /\ new(r).org = r.org /\ new(r).email = r.email
             /\ new(r).role = r.role
             /\ r.id \in c.held => new(r).user = c.user /\ new(r).accepted /\ r.org = c.org /\ r.email = c.user
                                   /\ r.role # "OWNER"
             /\ r.id \notin c.held => new(r) = r
  <2>1. r \in SeatRows /\ c.user \in Users
    BY <1>2 DEF TeamTypeOK, Calls
  <2>2. /\ taken(r) \in SeatRows /\ taken(r).id = r.id /\ taken(r).org = r.org /\ taken(r).email = r.email
        /\ taken(r).role = r.role /\ taken(r).user = c.user /\ taken(r).accepted
    BY <2>1 DEF SeatRows
  <2>3. r.id \in c.held => r.org = c.org /\ r.email = c.user /\ r.role # "OWNER"
    BY <1>1, <1>2 DEF HeldStays
  <2> HIDE DEF taken
  <2> QED BY <2>1, <2>2, <2>3
<1>5. IsFiniteSet(rows')
  <2> DEFINE f == [r \in rows |-> new(r)]
  <2>1. f \in Surjection(rows, rows')
    BY <1>3 DEF Surjection
  <2> QED BY <1>2, <2>1, FS_Surjection DEF TeamTypeOK
<1>6. Cardinality(RowsOf(c.org)') <= Cardinality(RowsOf(c.org))
  <2> DEFINE old == RowsOf(c.org)
             now == RowsOf(c.org)'
             f == [r \in old |-> new(r)]
  <2>1. now = {new(r) : r \in old}
    <3>1. \A r \in rows : new(r) \in rows' /\ new(r).org = r.org
      BY <1>3, <1>4
    <3>2. \A s \in rows' : \E r \in rows : s = new(r)
      BY <1>3
    <3> HIDE DEF new, taken
    <3> QED BY <3>1, <3>2 DEF RowsOf
  <2>2. f \in Surjection(old, now)
    BY <2>1 DEF Surjection
  <2>3. IsFiniteSet(old)
    BY <1>2, RowsCounted
  <2> QED BY <2>2, <2>3, FS_Surjection
<1> HIDE DEF new, taken
<1>7. \A s \in rows' : \E r \in rows : s = new(r)
  BY <1>3
<1>8. Orderly(c)
  <2>1. rows' \subseteq SeatRows
    BY <1>4, <1>7
  <2>2. \A s \in rows' : \E r \in rows : r.id = s.id /\ r.org = s.org /\ r.email = s.email /\ r.role = s.role
    BY <1>4, <1>7
  <2>3. \A s \in rows' : s \in rows \/ (s.org = c.org /\ (s.accepted => s.user = c.user /\ AddsSeat(c.op)))
    BY <1>1, <1>4, <1>7 DEF AddsSeat
  <2> QED BY <1>1, <1>2, <1>5, <2>1, <2>2, <2>3 DEF Orderly, TeamTypeOK
<1>9. c.org \in teams' =>
         Cardinality(RowsOf(c.org)') + Cardinality(Taking(c.org)') < most'[c.org] + squeeze[c.org]
  <2>1. RowsOf(c.org)' \subseteq rows' /\ IsFiniteSet(rows')
    BY <1>5 DEF RowsOf
  <2>2. Cardinality(RowsOf(c.org)') \in Nat
    BY <2>1, FS_Subset, FS_CardinalityType
  <2> QED BY <1>1, <1>6, <2>2, SeatsLeft
<1>10. TeamTypeOK' /\ CallsSound' /\ SeatsCounted' /\ JoinsCounted'
  BY <1>0, <1>1, <1>8, <1>9, CommittedKeeps
<1>11. RowsPlaced'
  <2>1. \A r, s \in rows' : r.id = s.id => r = s
    BY <1>2, <1>4, <1>7 DEF RowsPlaced
  <2>2. ASSUME NEW s \in rows'
        PROVE  s.org \in teams' /\ (s.accepted => s.user = s.email) /\ (s.role = "OWNER" => s.accepted /\ s.email = s.org)
    <3>1. PICK r \in rows : s = new(r)
      BY <1>7
    <3> QED BY <1>1, <1>2, <1>4, <3>1 DEF RowsPlaced
  <2> QED BY <2>1, <2>2 DEF RowsPlaced
<1>12. OwnersSit'
  <2>1. ASSUME NEW o \in teams' PROVE \E s \in rows' : s.org = o /\ s.role = "OWNER"
    <3>1. PICK r \in rows : r.org = o /\ r.role = "OWNER"
      BY <1>1, <1>2 DEF OwnersSit
    <3>2. new(r) \in rows'
      BY <1>3
    <3> QED BY <1>4, <3>1, <3>2
  <2>2. \A r, s \in rows' : r.role = "OWNER" /\ s.role = "OWNER" /\ r.org = s.org => r = s
    BY <1>2, <1>4, <1>7 DEF OwnersSit
  <2> QED BY <2>1, <2>2 DEF OwnersSit
<1> QED BY <1>10, <1>11, <1>12 DEF TeamsInv

LEMMA CommitRemoveKeepsTeams ==
    ASSUME TeamsInv, NEW w \in Workers, CommitRemove(w)
    PROVE  TeamsInv'
<1> DEFINE c == call[w]
<1>1. /\ w \in Calling /\ Settle(w) /\ c.op = "remove" /\ teams' = teams /\ most' = most
      /\ rows' = {r \in rows : r.id \notin c.held}
  BY DEF CommitRemove, Calling
<1>2. RowsPlaced /\ OwnersSit /\ HeldStays(c)
  BY <1>1 DEF TeamsInv, CallsSound
<1>3. TeamTypeOK' /\ CallsSound' /\ SeatsCounted' /\ JoinsCounted'
  BY <1>1, RowsDropped
<1>4. \A r \in rows : r.role = "OWNER" => r \in rows'
  BY <1>1, <1>2 DEF HeldStays
<1>5. RowsPlaced' /\ OwnersSit'
  BY <1>1, <1>2, <1>4 DEF RowsPlaced, OwnersSit
<1> QED BY <1>3, <1>5 DEF TeamsInv

LEMMA CommitDeleteKeepsTeams ==
    ASSUME TeamsInv, NEW w \in Workers, CommitDelete(w)
    PROVE  TeamsInv'
<1> DEFINE c == call[w]
<1>1. /\ w \in Calling /\ Settle(w) /\ c.op = "delete" /\ teams' = teams \ {c.org} /\ most' = most
      /\ rows' = {r \in rows : r.id \notin c.held}
      /\ {r.id : r \in RowsOf(c.org)} \subseteq c.held
  BY DEF CommitDelete, Calling
<1>2. RowsPlaced /\ OwnersSit /\ HeldStays(c)
  BY <1>1 DEF TeamsInv, CallsSound
<1>3. TeamTypeOK' /\ CallsSound' /\ SeatsCounted' /\ JoinsCounted'
  BY <1>1, RowsDropped
<1>4. \A r \in rows : r \in rows' <=> r.org # c.org
  BY <1>1, <1>2 DEF HeldStays, RowsOf
<1>5. rows' \subseteq rows
  BY <1>1
<1>6. RowsPlaced' /\ OwnersSit'
  BY <1>1, <1>2, <1>4, <1>5 DEF RowsPlaced, OwnersSit
<1> QED BY <1>3, <1>6 DEF TeamsInv

-----------------------------------------------------------------------------
(* Teams and accounts together *)

LEMMA OrgInitTeams == ASSUME OrganisationsAssumption, OrgInit PROVE TeamsInv /\ CallersKnown
<1>1. /\ \A w \in Workers : call[w] = Idle
      /\ rows = {} /\ teams = {}
      /\ \A u \in Users : squeeze[u] = 1 /\ joins[u] = 1
  BY DEF OrgInit
<1>2. TeamTypeOK
  BY <1>1, FS_EmptySet DEF OrgInit, TeamTypeOK, OrganisationsAssumption
<1>3. Calling = {}
  BY <1>1 DEF Calling
<1>4. \A u : Taking(u) = {} /\ Joining(u) = {} /\ Memberships(u) = {}
  BY <1>1 DEF Taking, Joining, Memberships
<1>5. IsFiniteSet({}) /\ Cardinality({}) = 0
  BY FS_EmptySet
<1>6. SeatsCounted
  <2>1. \A o \in Users : /\ IsFiniteSet(Taking(o)) /\ Cardinality(Taking(o)) = 0
                        /\ squeeze[o] = 1 /\ o \notin teams
    BY <1>1, <1>4, <1>5
  <2> QED BY <2>1 DEF SeatsCounted
<1>7. JoinsCounted
  <2>1. \A u \in Users : /\ IsFiniteSet(Joining(u)) /\ Cardinality(Joining(u)) = 0
                        /\ Cardinality(Memberships(u)) = 0 /\ joins[u] = 1
    BY <1>1, <1>4, <1>5
  <2> QED BY <2>1 DEF JoinsCounted
<1> QED BY <1>1, <1>2, <1>3, <1>6, <1>7 DEF TeamsInv, RowsPlaced, OwnersSit, CallsSound, CallersKnown

LEMMA TeamsUnchanged ==
    ASSUME TeamsInv, UNCHANGED <<teams, rows, most, squeeze, joins>>, plan' \in [Users -> Plans],
           call' \in [Workers -> Calls \cup {Idle}],
           \A x \in Workers : call'[x] \in {Idle, call[x]}
    PROVE  TeamsInv'
<1>1. TeamTypeOK /\ RowsPlaced /\ OwnersSit /\ CallsSound /\ SeatsCounted /\ JoinsCounted
  BY DEF TeamsInv
<1>2. TeamTypeOK'
  BY <1>1 DEF TeamTypeOK
<1>3. RowsPlaced' /\ OwnersSit'
  BY <1>1 DEF RowsPlaced, OwnersSit
<1>4. CallsSound'
  <2> SUFFICES ASSUME NEW x \in Calling', NEW c, c = call'[x] PROVE HeldStays(c)'
    BY DEF CallsSound
  <2>1. x \in Calling /\ c = call[x]
    BY DEF Calling
  <2>2. HeldStays(c)
    BY <1>1, <2>1 DEF CallsSound
  <2> QED BY <2>2 DEF HeldStays
<1>5. SeatsCounted'
  <2> SUFFICES ASSUME NEW o \in Users
               PROVE  /\ IsFiniteSet(Taking(o)') /\ Cardinality(Taking(o)') <= squeeze[o] /\ squeeze[o] >= 1
                      /\ o \in teams => Cardinality(RowsOf(o)) + Cardinality(Taking(o)') < most[o] + squeeze[o]
    BY DEF SeatsCounted, RowsOf
  <2>1. /\ squeeze[o] \in Nat /\ squeeze[o] >= 1 /\ most[o] \in Nat
        /\ IsFiniteSet(Taking(o)) /\ Cardinality(Taking(o)) <= squeeze[o]
        /\ o \in teams => Cardinality(RowsOf(o)) + Cardinality(Taking(o)) < most[o] + squeeze[o]
        /\ Cardinality(RowsOf(o)) \in Nat
    BY <1>1, RowsCounted DEF TeamTypeOK, SeatsCounted
  <2>2. Taking(o)' \in SUBSET Taking(o)
    BY DEF Taking
  <2>3. /\ IsFiniteSet(Taking(o)') /\ Cardinality(Taking(o)') \in Nat /\ Cardinality(Taking(o)) \in Nat
        /\ Cardinality(Taking(o)') <= Cardinality(Taking(o))
    BY <2>1, <2>2, SubsetCounted
  <2> QED BY <2>1, <2>3
<1>6. JoinsCounted'
  <2> SUFFICES ASSUME NEW u \in Users
               PROVE  /\ IsFiniteSet(Joining(u)')
                      /\ Cardinality(Memberships(u)) + Cardinality(Joining(u)') <= joins[u]
    <3>1. \A u : Memberships(u)' = Memberships(u)
      BY DEF Memberships, RowsOf
    <3> QED BY <3>1 DEF JoinsCounted
  <2>1. /\ joins[u] \in Nat /\ IsFiniteSet(Joining(u))
        /\ Cardinality(Memberships(u)) + Cardinality(Joining(u)) <= joins[u]
        /\ Cardinality(Memberships(u)) \in Nat
    BY <1>1, MembershipsCounted DEF TeamTypeOK, JoinsCounted
  <2>2. Joining(u)' \in SUBSET Joining(u)
    BY DEF Joining
  <2>3. /\ IsFiniteSet(Joining(u)') /\ Cardinality(Joining(u)') \in Nat /\ Cardinality(Joining(u)) \in Nat
        /\ Cardinality(Joining(u)') <= Cardinality(Joining(u))
    BY <2>1, <2>2, SubsetCounted
  <2> QED BY <2>1, <2>3
<1> QED BY <1>2, <1>3, <1>4, <1>5, <1>6 DEF TeamsInv

LEMMA OrgStepKeepsTeams ==
    ASSUME OrganisationsAssumption, TypeOK, TeamsInv, OrgStep
    PROVE  TeamsInv'
<1>0. TeamTypeOK
  BY DEF TeamsInv
<1>1. ASSUME NEW w \in Workers, CommitCall(w) PROVE TeamsInv'
  BY <1>1, CommitCreateKeepsTeams, CommitInviteKeepsTeams, CommitAcceptKeepsTeams, CommitRemoveKeepsTeams,
     CommitDeleteKeepsTeams DEF CommitCall
<1>2. ASSUME NEW w \in Workers, LoseCall(w) PROVE TeamsInv'
  <2>1. /\ UNCHANGED <<plan, teams, rows, most, squeeze, joins>> /\ call' \in [Workers -> Calls \cup {Idle}]
        /\ \A x \in Workers : call'[x] \in {Idle, call[x]}
    BY <1>0, <1>2 DEF LoseCall, TeamTypeOK
  <2>2. plan' \in [Users -> Plans]
    BY <1>0, <2>1 DEF TeamTypeOK
  <2> QED BY <2>1, <2>2, TeamsUnchanged
<1>3. ASSUME NEW u \in Users, NEW p \in Plans, PlanMoves(u, p) PROVE TeamsInv'
  <2>1. plan' \in [Users -> Plans] /\ UNCHANGED <<teams, rows, call, most, squeeze, joins>>
    BY <1>0, <1>3 DEF PlanMoves, TeamTypeOK
  <2>2. call' \in [Workers -> Calls \cup {Idle}]
    BY <1>0, <2>1 DEF TeamTypeOK
  <2> QED BY <2>1, <2>2, TeamsUnchanged
<1>4. CASE \E w \in Workers, u \in Users : Create(w, u) \/ Delete(w, u)
  BY <1>4, CreateKeepsTeams, DeleteKeepsTeams
<1>5. CASE \E w \in Workers, u, email \in Users : Invite(w, u, email)
  BY <1>5, InviteKeepsTeams
<1>6. CASE \E w \in Workers, u \in Users, l \in links : Accept(w, u, l)
  BY <1>6, AcceptKeepsTeams
<1>7. CASE \E w \in Workers, u \in Users, r \in rows : Remove(w, u, r)
  BY <1>7, RemoveKeepsTeams
<1> QED BY <1>1, <1>2, <1>3, <1>4, <1>5, <1>6, <1>7 DEF OrgStep

\* To the accounts, a request about a team does no more than mint an invitation or use one up.
LinksOnly ==
    /\ UNCHANGED <<account, tokens, hits, request, attempt, epoch, tries, crowd, crossed>>
    /\ links' \subseteq Links /\ IsFiniteSet(links')
    /\ \A l \in links' : account[l.user] # Absent
    /\ \A l \in links' : l.used \/ l.kind = "ORG_INVITE" \/ l \in links

LEMMA LinksOnlyKeepsIInv == ASSUME AccountsAssumption, IInv, LinksOnly PROVE IInv'
<1>1. /\ UNCHANGED <<account, tokens, hits, request, attempt, epoch, tries, crowd, crossed>>
      /\ TypeOK /\ NothingBefore /\ Generations /\ TokensDated /\ AttemptsDated /\ RequestsSound
      /\ LinksBounded /\ CountersBounded
  BY DEF LinksOnly, IInv, Dates
<1>2. TypeOK'
  BY <1>1 DEF TypeOK, LinksOnly
<1>3. NothingBefore'
  BY <1>1 DEF NothingBefore, LinksOnly, Held, Signing
<1>4. Generations' /\ TokensDated' /\ AttemptsDated' /\ RequestsSound'
  BY <1>1 DEF Generations, TokensDated, AttemptsDated, RequestsSound, Held, Signing
<1>5. LinksBounded'
  <2>1. \A u \in Users, kind \in Kinds : Minting(kind, u)' = Minting(kind, u)
    BY <1>1 DEF Minting
  <2>2. "ORG_INVITE" \notin Kinds
    BY DEF Kinds
  <2>3. \A u \in Users, kind \in Kinds : \A S : Unspent(kind, u, S)' \in SUBSET Unspent(kind, u, S)
    BY <1>1, <2>2 DEF Unspent, Unused, LinksOnly
  <2> QED BY <1>1, <2>1, <2>3, LinksShrunk
<1>6. CountersBounded'
  BY <1>1, CountersCleared
<1> QED BY <1>2, <1>3, <1>4, <1>5, <1>6 DEF IInv, Dates

LEMMA OrgStepLinksOnly ==
    ASSUME OrganisationsAssumption, IInv, TeamsInv, CallersKnown, OrgStep
    PROVE  LinksOnly
<1>0. /\ TypeOK /\ TeamTypeOK /\ \A l \in links : account[l.user] # Absent
  BY DEF IInv, Dates, TeamsInv, NothingBefore
<1>1. ASSUME UNCHANGED accountVars PROVE LinksOnly
  BY <1>0, <1>1 DEF accountVars, LinksOnly, TypeOK
<1>2. ASSUME NEW w \in Workers, CommitInvite(w) PROVE LinksOnly
  <2> DEFINE c == call[w]
  <2>1. w \in Calling /\ Settle(w) /\ c \in Calls /\ c.org \in Users /\ account[c.org] # Absent /\ c.held \in SUBSET RowIds
    BY <1>0, <1>2 DEF CommitInvite, Calling, TeamTypeOK, Calls, CallersKnown
  <2>2. PICK id \in RowIds : links' = InviteLink(c.org, id)
    <3>1. CASE c.held = {}
      BY <1>2, <3>1 DEF CommitInvite, FreeIds
    <3>2. CASE c.held # {}
      <4>1. (CHOOSE id \in c.held : TRUE) \in RowIds
        BY <2>1, <3>2
      <4>2. links' = InviteLink(c.org, CHOOSE id \in c.held : TRUE)
        BY <1>2, <3>2 DEF CommitInvite
      <4> QED BY <4>1, <4>2
    <3> QED BY <3>1, <3>2
  <2> DEFINE m == Minted("ORG_INVITE", c.org, id)
  <2>3. Cardinality(links) + 1 \in Nat /\ id \in Nat
    BY <1>0, FS_CardinalityType DEF TypeOK, OrganisationsAssumption
  <2>4. m \in Links /\ m.kind = "ORG_INVITE" /\ m.user = c.org
    BY <2>1, <2>3 DEF Minted, Links
  <2>5. IsFiniteSet(links \cup {m})
    BY <1>0, FS_AddElement DEF TypeOK
  <2>6. links' = links \cup {m}
    BY <2>2 DEF InviteLink
  <2>7. UNCHANGED <<account, tokens, hits, request, attempt, epoch, tries, crowd, crossed>>
    BY <2>1 DEF Settle
  <2> HIDE DEF m, c
  <2> QED BY <1>0, <2>1, <2>4, <2>5, <2>6, <2>7 DEF LinksOnly, TypeOK
<1>3. ASSUME NEW w \in Workers, CommitAccept(w) PROVE LinksOnly
  <2> DEFINE new(l) == IF l.id = call[w].link THEN [l EXCEPT !.used = TRUE] ELSE l
  <2>1. links' = {new(l) : l \in links} /\ Settle(w)
    BY <1>3 DEF CommitAccept
  <2>2. ASSUME NEW l \in links PROVE new(l) \in Links /\ new(l).user = l.user /\ (new(l).used \/ new(l) = l)
    <3>1. l \in Links
      BY <1>0 DEF TypeOK
    <3>2. LET e == [l EXCEPT !.used = TRUE] IN e \in Links /\ e.user = l.user /\ e.used
      BY <3>1 DEF Links
    <3> QED BY <3>1, <3>2
  <2>3. IsFiniteSet(links')
    <3> DEFINE f == [l \in links |-> new(l)]
    <3>1. f \in Surjection(links, links')
      BY <2>1 DEF Surjection
    <3> QED BY <1>0, <3>1, FS_Surjection DEF TypeOK
  <2> HIDE DEF new
  <2>4. \A m \in links' : \E l \in links : m = new(l)
    BY <2>1
  <2>5. \A m \in links' : m \in Links /\ account[m.user] # Absent /\ (m.used \/ m \in links)
    BY <1>0, <2>2, <2>4
  <2>6. UNCHANGED <<account, tokens, hits, request, attempt, epoch, tries, crowd, crossed>>
    BY <2>1 DEF Settle
  <2> QED BY <2>3, <2>5, <2>6 DEF LinksOnly
<1>4. ASSUME NEW w \in Workers, CommitCall(w) PROVE LinksOnly
  <2>1. CASE CommitCreate(w) \/ CommitRemove(w) \/ CommitDelete(w)
    BY <1>1, <2>1 DEF CommitCreate, CommitRemove, CommitDelete, Settle, accountVars
  <2> QED BY <1>2, <1>3, <1>4, <2>1 DEF CommitCall
<1>5. ASSUME NEW w \in Workers, LoseCall(w) PROVE UNCHANGED accountVars
  BY <1>5 DEF LoseCall
<1>6. CASE \E w \in Workers, u \in Users : Create(w, u) \/ Delete(w, u)
  BY <1>1, <1>6 DEF Create, Delete, BeginCall
<1>7. CASE \E w \in Workers, u, email \in Users : Invite(w, u, email)
  BY <1>1, <1>7 DEF Invite, BeginCall
<1>8. CASE \E w \in Workers, u \in Users, l \in links : Accept(w, u, l)
  BY <1>1, <1>8 DEF Accept, BeginCall
<1>9. CASE \E w \in Workers, u \in Users, r \in rows : Remove(w, u, r)
  BY <1>1, <1>9 DEF Remove, BeginCall
<1>10. CASE \E u \in Users, p \in Plans : PlanMoves(u, p)
  BY <1>1, <1>10 DEF PlanMoves
<1> QED BY <1>1, <1>4, <1>5, <1>6, <1>7, <1>8, <1>9, <1>10 DEF OrgStep

\* Accounts are not deleted.
LEMMA AccountsStay ==
    ASSUME AccountsAssumption, IInv, [Next]_accountVars, NEW u \in Users, account[u] # Absent
    PROVE  account'[u] # Absent
<1>1. TypeOK /\ TypeOK'
  BY NextIInv DEF IInv, Dates
<1>2. ASSUME NEW w \in Workers, Commit(w) PROVE account'[u] # Absent
  <2> DEFINE r == request[w]
  <2>1. /\ request[w] # Idle /\ account' = [account EXCEPT ![r.user] = Flushed(@, r.seen, r.new)]
    BY <1>2 DEF Commit
  <2>2. r.user \in Users /\ r.seen \in Rows /\ r.new \in Rows /\ account[r.user] \in Rows
    BY <1>1, <2>1 DEF TypeOK, Requests, IInv, Dates, NothingBefore, Held
  <2>3. Flushed(account[r.user], r.seen, r.new) \in Rows
    BY <2>2, FlushedRow
  <2> QED BY <1>1, <2>1, <2>2, <2>3, AccountsAssumption DEF TypeOK, AccountsAssumption
<1>3. ASSUME NEW v \in Users, Register(v) PROVE account'[u] # Absent
  BY <1>1, <1>3 DEF Register, TypeOK
<1>4. CASE UNCHANGED account
  BY <1>4
<1>5. [Next]_accountVars =>
        \/ \E w \in Workers : Commit(w)
        \/ \E v \in Users : Register(v)
        \/ UNCHANGED account
  <2>1. OperatorStep => UNCHANGED account
    <3>1. ASSUME NEW w \in Workers, NEW v \in Users, CliSetPassword(w, v) PROVE UNCHANGED account
      BY <3>1 DEF CliSetPassword, Begin
    <3>2. ASSUME NEW w \in Workers, NEW v \in Users, NEW actor \in Users, NEW role, NEW active,
                 PatchUser(w, actor, v, role, active)
          PROVE  UNCHANGED account
      BY <3>2 DEF PatchUser, Begin
    <3> QED BY <3>1, <3>2 DEF OperatorStep
  <2>2. LinkStep => UNCHANGED account
    BY DEF LinkStep, Forgot, Resend, Reset, Verify, Begin
  <2>3. FactorStep => UNCHANGED account
    BY DEF FactorStep, Prove, MfaVerify, Answer, Enters, Enrol, Begin
  <2>4. SessionStep => UNCHANGED account
    BY DEF SessionStep, ChangePassword, LogoutAll, Begin
  <2>5. SignInStep => (\E v \in Users : Register(v)) \/ UNCHANGED account
    BY DEF SignInStep, Knock, Enters, Login, Fail, Insert, Lapse
  <2>6. WorkerStep => (\E w \in Workers : Commit(w)) \/ UNCHANGED account
    BY DEF WorkerStep, Lose
  <2> QED BY <2>1, <2>2, <2>3, <2>4, <2>5, <2>6 DEF Next, accountVars
<1> QED BY <1>2, <1>3, <1>4, <1>5

LEMMA CallersStayKnown ==
    ASSUME AccountsAssumption, IInv, TeamsInv, CallersKnown, [TeamNext]_<<accountVars, teamVars>>
    PROVE  CallersKnown'
<1>0. TeamTypeOK /\ CallersKnown
  BY DEF TeamsInv
<1>1. \A w \in Calling : call[w].org \in Users
  BY <1>0 DEF TeamTypeOK, Calls, Calling
<1>2. CASE [Next]_accountVars /\ UNCHANGED call
  BY <1>0, <1>1, <1>2, AccountsStay DEF CallersKnown, Calling
<1>3. ASSUME NEW w \in Workers, CommitCall(w) PROVE CallersKnown'
  <2>1. w \in Calling /\ Settle(w)
    BY <1>3 DEF CommitCall, CommitCreate, CommitInvite, CommitAccept, CommitRemove, CommitDelete, Calling
  <2>2. UNCHANGED account
    BY <2>1 DEF Settle
  <2>3. \A x \in Calling' : x \in Calling /\ call'[x].org = call[x].org /\ call'[x].op = call[x].op
    BY <1>0, <2>1, CallsSettled DEF Settle
  <2> QED BY <1>0, <2>2, <2>3 DEF CallersKnown
<1>4. ASSUME NEW w \in Workers, LoseCall(w) PROVE CallersKnown'
  BY <1>0, <1>4 DEF LoseCall, CallersKnown, Calling, TeamTypeOK, accountVars
<1>5. ASSUME NEW w \in Workers, NEW op, NEW org, NEW user, NEW held, NEW seats, NEW link,
             BeginCall(w, op, org, user, held, seats, link),
             op = "invite" => account[org] # Absent
      PROVE  CallersKnown'
  <2> DEFINE q == [op |-> op, org |-> org, user |-> user, held |-> held, seats |-> seats, link |-> link]
  <2>1. call' = [call EXCEPT ![w] = q] /\ UNCHANGED account /\ q.org = org /\ q.op = op
    BY <1>5 DEF BeginCall, accountVars
  <2> HIDE DEF q
  <2>2. \A x \in Workers : call'[x] = IF x = w THEN q ELSE call[x]
    BY <1>0, <2>1 DEF TeamTypeOK
  <2> QED BY <1>0, <1>5, <2>1, <2>2 DEF CallersKnown, Calling
<1>6. ASSUME NEW w \in Workers, NEW u \in Users, Create(w, u) \/ Delete(w, u) PROVE CallersKnown'
  BY <1>5, <1>6 DEF Create, Delete
<1>7. ASSUME NEW w \in Workers, NEW u \in Users, NEW email \in Users, Invite(w, u, email) PROVE CallersKnown'
  <2>1. account[u] # Absent
    BY <1>7, SignedInKnown DEF Invite
  <2> QED BY <1>5, <1>7, <2>1 DEF Invite
<1>8. ASSUME NEW w \in Workers, NEW u \in Users, NEW l \in links, Accept(w, u, l) PROVE CallersKnown'
  BY <1>5, <1>8 DEF Accept
<1>9. ASSUME NEW w \in Workers, NEW u \in Users, NEW r \in rows, Remove(w, u, r) PROVE CallersKnown'
  BY <1>5, <1>9 DEF Remove
<1>10. ASSUME NEW u \in Users, NEW p \in Plans, PlanMoves(u, p) PROVE CallersKnown'
  BY <1>0, <1>10 DEF PlanMoves, CallersKnown, Calling, accountVars
<1>11. CASE OrgStep
  <2>1. CASE \E w \in Workers : CommitCall(w) \/ LoseCall(w)
    BY <1>3, <1>4, <2>1
  <2>2. CASE \E w \in Workers, u \in Users : Create(w, u) \/ Delete(w, u)
    BY <1>6, <2>2
  <2> QED BY <1>7, <1>8, <1>9, <1>10, <1>11, <2>1, <2>2 DEF OrgStep
<1>12. CASE (Next /\ UNCHANGED teamVars) \/ UNCHANGED <<accountVars, teamVars>>
  <2>1. [Next]_accountVars /\ UNCHANGED call
    BY <1>12 DEF teamVars
  <2> QED BY <1>2, <2>1
<1> QED BY <1>11, <1>12 DEF TeamNext

BothInv == IInv /\ TeamsInv /\ CallersKnown

LEMMA InitBoth == ASSUME AccountsAssumption, OrganisationsAssumption, Init, OrgInit PROVE BothInv
BY InitIInv, OrgInitTeams DEF BothInv

LEMMA NextBoth ==
    ASSUME AccountsAssumption, OrganisationsAssumption, BothInv, [TeamNext]_<<accountVars, teamVars>>
    PROVE  BothInv'
<1>1. IInv /\ TeamsInv /\ CallersKnown /\ TypeOK /\ TeamTypeOK
  BY DEF BothInv, IInv, Dates, TeamsInv
<1>2. CallersKnown'
  BY <1>1, CallersStayKnown
<1>3. CASE OrgStep
  BY <1>1, <1>2, <1>3, OrgStepLinksOnly, LinksOnlyKeepsIInv, OrgStepKeepsTeams DEF BothInv
<1>4. CASE (Next /\ UNCHANGED teamVars) \/ UNCHANGED <<accountVars, teamVars>>
  <2>1. [Next]_accountVars /\ UNCHANGED <<plan, teams, rows, call, most, squeeze, joins>>
    BY <1>4 DEF teamVars
  <2>2. TeamsInv'
    BY <1>1, <2>1, TeamsUnchanged DEF TeamTypeOK
  <2>3. IInv'
    BY <1>1, <2>1, NextIInv
  <2> QED BY <1>2, <2>2, <2>3 DEF BothInv
<1> QED BY <1>3, <1>4 DEF TeamNext

LEMMA BothInvariant == TeamSpec => []BothInv
BY InitBoth, NextBoth, AccountsAssumption, OrganisationsAssumption, PTL DEF TeamSpec

\* A team is its owner, each accepted seat its invitee's; the seats exceed the most that its
\* plan gave by no more than the further requests for one that were under way at once, and
\* an account sits in no more teams than it had requests to sit in one under way at once;
\* for every interleaving of requests about accounts and teams in which the id of a deleted
\* row is not given out while a request holds it (FreeIds).
THEOREM TeamsAreSound == TeamSpec => []TeamsSound
<1>1. ASSUME TeamsInv, NEW o \in teams
      PROVE  \E r \in RowsOf(o) : r.user = o /\ r.accepted /\ {x \in RowsOf(o) : x.role = "OWNER"} = {r}
  <2>1. PICK r \in rows : r.org = o /\ r.role = "OWNER"
    BY <1>1 DEF TeamsInv, OwnersSit
  <2>2. r \in RowsOf(o) /\ r.user = o /\ r.accepted
    BY <1>1, <2>1 DEF TeamsInv, RowsPlaced, RowsOf
  <2>3. {x \in RowsOf(o) : x.role = "OWNER"} = {r}
    BY <1>1, <2>1, <2>2 DEF TeamsInv, OwnersSit, RowsOf
  <2> QED BY <2>2, <2>3
<1>2. ASSUME TeamsInv, NEW u \in Users PROVE Cardinality(Memberships(u)) <= joins[u]
  <2>1. /\ TeamTypeOK /\ IsFiniteSet(Joining(u)) /\ joins[u] \in Nat
        /\ Cardinality(Memberships(u)) + Cardinality(Joining(u)) <= joins[u]
    BY <1>2 DEF TeamsInv, TeamTypeOK, JoinsCounted
  <2>2. Cardinality(Memberships(u)) \in Nat /\ Cardinality(Joining(u)) \in Nat
    BY <2>1, MembershipsCounted, FS_CardinalityType
  <2> QED BY <2>1, <2>2
<1>3. ASSUME TeamsInv PROVE \A r \in rows : r.accepted => r.org \in teams /\ r.user = r.email
  BY <1>3 DEF TeamsInv, RowsPlaced
<1>4. TeamsInv => Members
  BY <1>1, <1>2, <1>3 DEF Members
<1>5. ASSUME TeamsInv PROVE SeatsKept
  <2> SUFFICES ASSUME NEW o \in teams PROVE Cardinality(RowsOf(o)) < most[o] + squeeze[o]
    BY DEF SeatsKept
  <2>1. /\ TeamTypeOK /\ o \in Users /\ IsFiniteSet(Taking(o)) /\ most[o] \in Nat /\ squeeze[o] \in Nat
        /\ Cardinality(RowsOf(o)) + Cardinality(Taking(o)) < most[o] + squeeze[o]
    BY <1>5 DEF TeamsInv, TeamTypeOK, SeatsCounted
  <2>2. Cardinality(RowsOf(o)) \in Nat /\ Cardinality(Taking(o)) \in Nat
    BY <2>1, RowsCounted, FS_CardinalityType
  <2> QED BY <2>1, <2>2
<1>6. BothInv => TeamsSound
  BY <1>4, <1>5 DEF BothInv, TeamsSound
<1> QED BY <1>6, BothInvariant, PTL

\* What holds of accounts alone, with the same exceptions, holds with teams beside them.
THEOREM AccountsHoldWithTeams == TeamSpec => [](CredentialsHold /\ LimitsHold)
<1>1. BothInv => CredentialsHold /\ LimitsHold
  BY CredentialsFollow, LimitsFollow, AccountsAssumption DEF BothInv
<1> QED BY <1>1, BothInvariant, PTL

=============================================================================
