---------------------------------- MODULE AuthProofs ----------------------------------
(* Proofs about Auth, for any PINs, thresholds, numbers of challenges and forms, and   *)
(* however many random values are drawn and sessions opened.                           *)
EXTENDS Auth, SequenceTheorems, TLAPS

Nonce == [salt : Random, age : Nat]

(* What a session and a configuration have in common.                                  *)
Pair(c) == [secret |-> c.secret, key |-> c.key]

(* Everywhere a secret is kept: in browsers, in memory, in the file, and in the copies  *)
(* of the file that somebody may yet save.                                             *)
Kept ==
    tokens \cup {Pair(cfg), Pair(file)}
           \cup {Pair(copies[s]) : s \in {q \in Savers : copies[q] # NoCopy}}

Types ==
    /\ cfg \in Config /\ file \in Config
    /\ copies \in [Savers -> Config \cup {NoCopy}]
    /\ nonces \in Seq(Nonce)
    /\ drawn \in 0..MaxRandom
    /\ tokens \subseteq [secret : 0..MaxRandom, key : Keys]

(* Each configuration's key has its salt, and while there is none, the challenges that *)
(* are out have the salt that is held.                                                 *)
Salted(c) == c.key # NoKey => c.key.salt = c.salt
Salts ==
    /\ Salted(cfg) /\ Salted(file) /\ \A s \in Savers : Salted(copies[s])
    /\ saving = "set" => cfg.key # NoKey
    /\ cfg.key = NoKey => \A i \in 1..Len(nonces) : nonces[i].salt = cfg.salt

(* A secret was drawn, goes with a key, and with one key only.                         *)
Drawn(p)  == p.secret <= drawn /\ (p.secret = 0 <=> p.key = NoKey)
Secrets ==
    /\ \A p \in Kept : Drawn(p)
    /\ \A p, q \in Kept : p.secret = q.secret => p.key = q.key

KeyInv == Types /\ Salts /\ Secrets

-------------------------------------------------------------------------------------
(* Helpers of the model                                                                *)

LEMMA Maximum == \A a, b \in Int : Max({a, b}) = IF a >= b THEN a ELSE b
<1> SUFFICES ASSUME NEW a \in Int, NEW b \in Int PROVE Max({a, b}) = IF a >= b THEN a ELSE b
  OBVIOUS
<1>1. \A x \in {a, b} : (\A y \in {a, b} : x >= y) => x = IF a >= b THEN a ELSE b
  OBVIOUS
<1>2. \E x \in {a, b} : \A y \in {a, b} : x >= y
  OBVIOUS
<1>3. QED
  BY <1>1, <1>2 DEF Max

LEMMA Minimum == \A a, b \in Int : Min({a, b}) = IF a <= b THEN a ELSE b
<1> SUFFICES ASSUME NEW a \in Int, NEW b \in Int PROVE Min({a, b}) = IF a <= b THEN a ELSE b
  OBVIOUS
<1>1. \A x \in {a, b} : (\A y \in {a, b} : x =< y) => x = IF a <= b THEN a ELSE b
  OBVIOUS
<1>2. \E x \in {a, b} : \A y \in {a, b} : x =< y
  OBVIOUS
<1>3. QED
  BY <1>1, <1>2 DEF Min

(* A challenge that is spent leaves others that were out.                              *)
LEMMA WithoutType ==
  ASSUME nonces \in Seq(Nonce), NEW i \in 1..Len(nonces)
  PROVE  /\ Without(i) \in Seq(Nonce)
         /\ \A j \in 1..Len(Without(i)) : \E k \in 1..Len(nonces) : Without(i)[j] = nonces[k]
<1> DEFINE front == SubSeq(nonces, 1, i - 1)
           back == SubSeq(nonces, i + 1, Len(nonces))
<1>1. /\ front \in Seq(Nonce) /\ Len(front) = i - 1
      /\ \A j \in 1..i - 1 : front[j] = nonces[j]
  BY SubSeqProperties
<1>2. /\ back \in Seq(Nonce) /\ Len(back) = Len(nonces) - i
      /\ \A j \in 1..Len(nonces) - i : back[j] = nonces[i + j]
  BY SubSeqProperties
<1>3. Without(i) = front \o back
  BY DEF Without
<1>4. /\ front \o back \in Seq(Nonce) /\ Len(front \o back) = Len(nonces) - 1
      /\ \A j \in 1..Len(nonces) - 1 :
           (front \o back)[j] = IF j <= i - 1 THEN front[j] ELSE back[j - (i - 1)]
  <2> HIDE DEF front, back
  <2>1. /\ front \o back \in Seq(Nonce) /\ Len(front \o back) = Len(front) + Len(back)
        /\ \A j \in 1..Len(front) + Len(back) :
             (front \o back)[j] = IF j <= Len(front) THEN front[j] ELSE back[j - Len(front)]
    BY <1>1, <1>2, ConcatProperties
  <2>2. Len(nonces) \in Nat /\ Len(front) = i - 1 /\ Len(front) + Len(back) = Len(nonces) - 1
    BY <1>1, <1>2
  <2>3. QED
    BY <2>1, <2>2
<1>5. ASSUME NEW j \in 1..Len(nonces) - 1
      PROVE  \E k \in 1..Len(nonces) : (front \o back)[j] = nonces[k]
  <2> HIDE DEF front, back
  <2>1. Len(nonces) \in Nat
    OBVIOUS
  <2>2. CASE j <= i - 1
    <3>1. j \in 1..i - 1 /\ j \in 1..Len(nonces)
      BY <2>1, <2>2
    <3>2. (front \o back)[j] = nonces[j]
      <4>1. (front \o back)[j] = front[j]
        BY <1>4, <2>2
      <4>2. front[j] = nonces[j]
        BY <1>1, <3>1
      <4>3. QED
        BY <4>1, <4>2
    <3>3. QED
      BY <3>1, <3>2
  <2>3. CASE j > i - 1
    <3>1. j - (i - 1) \in 1..Len(nonces) - i /\ j + 1 \in 1..Len(nonces)
      BY <2>1, <2>3
    <3>2. (front \o back)[j] = back[j - (i - 1)]
      BY <1>4, <2>3
    <3>3. (front \o back)[j] = nonces[i + (j - (i - 1))] /\ i + (j - (i - 1)) = j + 1
      <4>1. back[j - (i - 1)] = nonces[i + (j - (i - 1))]
        BY <1>2, <3>1
      <4>2. QED
        BY <2>1, <3>2, <4>1
    <3>4. QED
      BY <3>1, <3>3
  <2>4. j <= i - 1 \/ j > i - 1
    BY <2>1
  <2>5. QED
    BY <2>2, <2>3, <2>4
<1>6. QED
  BY <1>3, <1>4, <1>5

(* A new challenge has the salt given to it.                                           *)
LEMMA IssueType ==
  ASSUME nonces \in Seq(Nonce), NEW salt \in Random, Issue(salt)
  PROVE  /\ nonces' \in Seq(Nonce)
         /\ \A j \in 1..Len(nonces') :
              nonces'[j].salt = salt \/ \E k \in 1..Len(nonces) : nonces'[j] = nonces[k]
<1> DEFINE kept == IF Len(nonces) >= MaxNonces THEN Tail(nonces) ELSE nonces
<1>1. kept \in Seq(Nonce) /\ \A j \in 1..Len(kept) : \E k \in 1..Len(nonces) : kept[j] = nonces[k]
  BY AuthAssumption
<1>2. [salt |-> salt, age |-> 0] \in Nonce
  BY DEF Nonce
<1>3. nonces' = Append(kept, [salt |-> salt, age |-> 0])
  BY DEF Issue
<1>4. QED
  BY <1>1, <1>2, <1>3

(* What is kept after a step was kept before it, or is new.                            *)
LEMMA NewSecret ==
  ASSUME Secrets, Types, drawn' \in Nat, drawn <= drawn', NEW new, Kept' \subseteq Kept \cup {new},
         \/ new \in Kept
         \/ new.secret \in Nat /\ drawn < new.secret /\ new.secret <= drawn' /\ new.key # NoKey
  PROVE  Secrets'
<1>1. \A p \in Kept : p.secret \in Nat
  BY DEF Kept, Types, Config, Pair
<1>2. QED
  BY <1>1 DEF Secrets, Drawn, Types

LEMMA InitKeyInv == Init => KeyInv
<1> SUFFICES ASSUME Init PROVE KeyInv
  OBVIOUS
<1>1. Unset \in Config
  BY AuthAssumption DEF Unset, Config, Keys
<1>2. Types
  BY <1>1, AuthAssumption DEF Init, Types
<1>3. Salts
  BY DEF Init, Salts, Salted, Unset, NoCopy
<1>4. Kept = {Pair(Unset)}
  BY DEF Init, Kept
<1>5. Secrets
  BY <1>4 DEF Init, Secrets, Drawn, Pair, Unset
<1>6. QED
  BY <1>2, <1>3, <1>5 DEF KeyInv

-------------------------------------------------------------------------------------
(* Steps that draw no key                                                              *)

LEMMA TickKeys == KeyInv /\ Tick => KeyInv'
<1> SUFFICES ASSUME KeyInv, Tick PROVE KeyInv'
  OBVIOUS
<1> USE DEF KeyInv
<1>1. PICK gone \in 0..Len(nonces) :
        nonces' = [i \in 1..Len(nonces) - gone |-> [nonces[gone + i] EXCEPT !.age = @ + 1]]
  BY DEF Tick
<1>2. ASSUME NEW i \in 1..Len(nonces) - gone
      PROVE  /\ gone + i \in 1..Len(nonces)
             /\ [nonces[gone + i] EXCEPT !.age = @ + 1] \in Nonce
             /\ [nonces[gone + i] EXCEPT !.age = @ + 1].salt = nonces[gone + i].salt
  <2>1. Len(nonces) \in Nat /\ gone + i \in 1..Len(nonces)
    BY DEF Types
  <2>2. nonces[gone + i] \in Nonce
    BY <2>1 DEF Types
  <2>3. \A n \in Nonce : [n EXCEPT !.age = @ + 1] \in Nonce /\ [n EXCEPT !.age = @ + 1].salt = n.salt
    BY DEF Nonce
  <2>4. QED
    BY <2>1, <2>2, <2>3
<1>3. Len(nonces) - gone \in Nat
  BY DEF Types
<1>4. nonces' \in Seq(Nonce) /\ Len(nonces') = Len(nonces) - gone
  BY <1>1, <1>2, <1>3
<1>5. \A i \in 1..Len(nonces') : nonces'[i].salt = nonces[gone + i].salt /\ gone + i \in 1..Len(nonces)
  BY <1>1, <1>2, <1>4
<1>6. Types' /\ Salts'
  BY <1>4, <1>5 DEF Tick, Types, Salts, Salted, fileVars
<1>7. Kept' = Kept
  BY DEF Tick, Kept, fileVars
<1>8. Secrets'
  BY <1>7 DEF Tick, Secrets, Drawn
<1>9. QED
  BY <1>6, <1>8

LEMMA ChallengeKeys == KeyInv /\ Challenge => KeyInv'
<1> SUFFICES ASSUME KeyInv, Challenge PROVE KeyInv'
  OBVIOUS
<1> USE DEF KeyInv
<1>1. CASE cfg.salt # 0
  <2>1. Issue(cfg.salt) /\ cfg.salt \in Random
    BY <1>1 DEF Challenge, Types, Config, Random
  <2>2. Types' /\ Salts'
    BY <1>1, <2>1, IssueType DEF Challenge, Types, Salts, fileVars
  <2>3. Kept' = Kept /\ drawn' = drawn
    BY <1>1 DEF Challenge, Kept, fileVars
  <2>4. QED
    BY <2>2, <2>3 DEF Secrets, Drawn
<1>2. CASE cfg.salt = 0
  <2>1. /\ drawn' = drawn + 1 /\ drawn' \in Random /\ Issue(drawn')
        /\ cfg' = [cfg EXCEPT !.salt = drawn']
    BY <1>2, AuthAssumption DEF Challenge, HoldSalt, Types, Random
  <2>2. cfg' \in Config /\ cfg'.key = cfg.key /\ cfg'.secret = cfg.secret /\ cfg'.salt = drawn'
    BY <2>1 DEF Types, Config, Random
  <2>3. cfg.key = NoKey
    BY <1>2 DEF Salts, Salted, Types, Config, Keys, Random
  <2>4. \A k \in 1..Len(nonces) : FALSE
    <3>1. \A k \in 1..Len(nonces) : nonces[k] \in Nonce /\ nonces[k].salt = 0
      BY <1>2, <2>3 DEF Salts, Types
    <3>2. \A n \in Nonce : n.salt # 0
      BY DEF Nonce, Random
    <3>3. QED
      BY <3>1, <3>2
  <2>5. Types' /\ Salts'
    BY <1>2, <2>1, <2>2, <2>3, <2>4, IssueType, AuthAssumption
    DEF Challenge, Types, Salts, Salted, fileVars, Random
  <2>6. Pair(cfg)' = Pair(cfg)
    BY <2>2 DEF Pair
  <2>7. Kept' = Kept
    BY <2>6 DEF Challenge, Kept, fileVars
  <2>8. Secrets'
    <3>1. Pair(cfg) \in Kept /\ drawn' \in Nat /\ drawn <= drawn'
      BY <2>1, AuthAssumption DEF Kept, Types, Random
    <3>2. QED
      BY <2>7, <3>1, NewSecret
  <2>9. QED
    BY <2>5, <2>8
<1>3. QED
  BY <1>1, <1>2

(* Wrong and stale proofs, and right ones that come to nothing.                        *)
LEMMA TryKeys == KeyInv /\ (TryStale \/ TryWrong \/ ChangeMalformed) => KeyInv'
<1> SUFFICES ASSUME KeyInv, TryStale \/ TryWrong \/ ChangeMalformed PROVE KeyInv'
  OBVIOUS
<1> USE DEF KeyInv
<1>1. UNCHANGED <<cfg, fileVars, drawn, tokens, saving>>
  BY DEF TryStale, TryWrong, ChangeMalformed
<1>2. nonces' = nonces \/ \E i \in 1..Len(nonces) : nonces' = Without(i)
  BY DEF TryStale, TryWrong, ChangeMalformed
<1>3. /\ nonces' \in Seq(Nonce)
      /\ \A j \in 1..Len(nonces') : \E k \in 1..Len(nonces) : nonces'[j] = nonces[k]
  BY <1>2, WithoutType DEF Types
<1>4. Types' /\ Salts'
  BY <1>1, <1>3 DEF Types, Salts, fileVars
<1>5. Kept' = Kept
  BY <1>1 DEF Kept, fileVars
<1>6. QED
  BY <1>1, <1>4, <1>5 DEF Secrets, Drawn

LEMMA LoginKeys == KeyInv /\ Login => KeyInv'
<1> SUFFICES ASSUME KeyInv, Login PROVE KeyInv'
  OBVIOUS
<1> USE DEF KeyInv
<1>1. PICK i \in 1..Len(nonces) : nonces' = Without(i)
  BY DEF Login
<1>2. /\ nonces' \in Seq(Nonce)
      /\ \A j \in 1..Len(nonces') : \E k \in 1..Len(nonces) : nonces'[j] = nonces[k]
  BY <1>1, WithoutType DEF Types
<1>3. UNCHANGED <<cfg, fileVars, drawn, saving>> /\ tokens' = tokens \cup {Pair(cfg)}
  BY DEF Login, Pair
<1>4. Pair(cfg) \in [secret : 0..MaxRandom, key : Keys]
  BY DEF Pair, Types, Config
<1>5. Types' /\ Salts'
  BY <1>2, <1>3, <1>4 DEF Types, Salts, fileVars
<1>6. Kept' = Kept
  BY <1>3 DEF Kept, fileVars
<1>7. QED
  BY <1>3, <1>5, <1>6 DEF Secrets, Drawn

LEMMA FileKeys ==
  ASSUME KeyInv, NEW s \in Savers, Load(s) \/ SaveFails(s) \/ (s \in Forms /\ SaveForm(s))
  PROVE  KeyInv'
<1> USE DEF KeyInv
<1>1. UNCHANGED <<cfg, nonces, drawn, tokens>> /\ saving' \in {saving, "no"}
  BY DEF Load, SaveFails, SaveForm
<1>2. \/ file' = file /\ copies' = [copies EXCEPT ![s] = file]
      \/ file' = file /\ copies' = [copies EXCEPT ![s] = NoCopy]
      \/ copies[s] # NoCopy /\ file' = copies[s] /\ copies' = [copies EXCEPT ![s] = NoCopy]
  BY DEF Load, SaveFails, SaveForm
<1>3. Types'
  BY <1>1, <1>2 DEF Types
<1>4. Salts'
  BY <1>1, <1>2 DEF Salts, Salted, NoCopy, Types
<1>5. Kept' \subseteq Kept
  BY <1>1, <1>2 DEF Kept, Types
<1>6. QED
  BY <1>1, <1>3, <1>4, <1>5 DEF Secrets, Drawn

LEMMA SaveAuthKeys == KeyInv /\ SaveAuth => KeyInv'
<1> SUFFICES ASSUME KeyInv, SaveAuth PROVE KeyInv'
  OBVIOUS
<1> USE DEF KeyInv
<1>1. /\ UNCHANGED <<cfg, drawn>> /\ file' = cfg
      /\ copies' = [copies EXCEPT !["auth"] = NoCopy] /\ "auth" \in Savers
      /\ tokens \subseteq tokens' /\ tokens' \subseteq tokens \cup {Pair(cfg)}
  BY DEF SaveAuth, Pair, Savers
<1>2. Pair(cfg) \in [secret : 0..MaxRandom, key : Keys]
  BY DEF Pair, Types, Config
<1>3. /\ nonces' \in Seq(Nonce)
      /\ cfg.key = NoKey => \A j \in 1..Len(nonces') : nonces'[j].salt = cfg.salt
  <2>1. CASE saving = "set" /\ cfg.salt # 0
    <3>1. Issue(cfg.salt) /\ cfg.salt \in Random
      BY <2>1 DEF SaveAuth, Types, Config, Random
    <3>2. QED
      BY <3>1, IssueType DEF Types, Salts
  <2>2. CASE saving # "set"
    BY <2>2 DEF SaveAuth, Types, Salts
  <2>3. cfg.salt = 0 => saving # "set"
    BY DEF Salts, Salted, Types, Config, Keys, Random
  <2>4. QED
    BY <2>1, <2>2, <2>3
<1>4. Types'
  BY <1>1, <1>2, <1>3 DEF Types
<1>5. Salts'
  BY <1>1, <1>3 DEF SaveAuth, Salts, Salted, NoCopy, Types
<1>6. Kept' \subseteq Kept
  BY <1>1 DEF Kept, Types
<1>7. QED
  BY <1>1, <1>4, <1>5, <1>6 DEF Secrets, Drawn

-------------------------------------------------------------------------------------
(* Steps that draw one                                                                 *)

(* A configuration with a fresh salt and a fresh secret.                               *)
LEMMA FreshIsGood ==
  ASSUME Types, drawn + 2 <= MaxRandom, NEW pin \in Pins
  PROVE  LET c == Fresh(pin, drawn + 1, drawn + 2)
         IN  /\ c \in Config /\ Salted(c) /\ c.key # NoKey
             /\ Pair(c).secret = drawn + 2 /\ Pair(c).key # NoKey
BY AuthAssumption DEF Fresh, Types, Config, Keys, Random, Salted, NoKey, Pair

LEMMA SetPINKeys == KeyInv /\ SetPIN => KeyInv'
<1> SUFFICES ASSUME KeyInv, SetPIN PROVE KeyInv'
  OBVIOUS
<1> USE DEF KeyInv
<1>1. PICK i \in 1..Len(nonces), pin \in Pins :
        /\ nonces' = Without(i)
        /\ cfg' = [cfg EXCEPT !.key = [pin |-> pin, salt |-> nonces[i].salt],
                              !.secret = IF @ = 0 THEN drawn' ELSE @]
  BY DEF SetPIN
<1>2. nonces[i].salt \in Random /\ nonces[i].salt = cfg.salt /\ cfg.key = NoKey
  <2>1. nonces[i] \in Nonce
    BY DEF Types
  <2>2. QED
    BY <2>1 DEF SetPIN, Configured, Salts, Nonce
<1>3. cfg.secret = 0
  <2>1. Pair(cfg) \in Kept /\ Pair(cfg).key = NoKey
    BY <1>2 DEF Kept, Pair
  <2>2. QED
    BY <2>1 DEF Secrets, Drawn, Pair
<1>4. drawn' = drawn + 1 /\ drawn' \in 0..MaxRandom /\ UNCHANGED <<fileVars, tokens>>
  BY AuthAssumption DEF SetPIN, Types
<1>5. /\ cfg' \in Config /\ cfg'.salt = cfg.salt /\ cfg'.secret = drawn'
      /\ cfg'.key = [pin |-> pin, salt |-> nonces[i].salt]
  BY <1>1, <1>2, <1>3, <1>4 DEF Types, Config, Keys
<1>6. cfg'.key # NoKey /\ Salted(cfg)'
  BY <1>2, <1>5, AuthAssumption DEF NoKey, Salted
<1>7. nonces' \in Seq(Nonce)
  BY <1>1, WithoutType DEF Types
<1>8. Types' /\ Salts'
  BY <1>4, <1>5, <1>6, <1>7 DEF Types, Salts, Salted, fileVars
<1>9. Kept' \subseteq Kept \cup {Pair(cfg)'} /\ Pair(cfg)'.secret = drawn' /\ Pair(cfg)'.key # NoKey
  BY <1>4, <1>5, <1>6 DEF Kept, Pair, fileVars
<1>10. Secrets'
  BY <1>4, <1>9, NewSecret DEF Types
<1>11. QED
  BY <1>8, <1>10

LEMMA ChangeKeys == KeyInv /\ ChangePIN => KeyInv'
<1> SUFFICES ASSUME KeyInv, ChangePIN PROVE KeyInv'
  OBVIOUS
<1> USE DEF KeyInv
<1>1. PICK i \in 1..Len(nonces), pin \in Pins :
        nonces' = Without(i) /\ cfg' = Fresh(pin, drawn + 1, drawn + 2)
  BY DEF ChangePIN
<1>2. drawn' = drawn + 2 /\ drawn' \in 0..MaxRandom /\ UNCHANGED <<fileVars, tokens>>
  BY AuthAssumption DEF ChangePIN, Types
<1>3. /\ cfg' \in Config /\ Salted(cfg)' /\ cfg'.key # NoKey
      /\ Pair(cfg)'.secret = drawn' /\ Pair(cfg)'.key # NoKey
  BY <1>1, <1>2, FreshIsGood DEF ChangePIN, Salted, Pair
<1>4. nonces' \in Seq(Nonce)
  BY <1>1, WithoutType DEF Types
<1>5. Types' /\ Salts'
  BY <1>2, <1>3, <1>4 DEF Types, Salts, Salted, fileVars
<1>6. Kept' \subseteq Kept \cup {Pair(cfg)'}
  BY <1>2 DEF Kept, Pair, fileVars
<1>7. Secrets'
  BY <1>2, <1>3, <1>6, NewSecret DEF Types
<1>8. QED
  BY <1>5, <1>7

LEMMA RestartKeys == KeyInv /\ (Restart \/ RestartWithCard) => KeyInv'
<1> SUFFICES ASSUME KeyInv, Restart \/ RestartWithCard PROVE KeyInv'
  OBVIOUS
<1> USE DEF KeyInv
<1>1. /\ nonces' = <<>> /\ saving' = "no" /\ tokens' = tokens
      /\ copies' = [s \in Savers |-> NoCopy]
  BY DEF Restart, RestartWithCard, Forget
<1>2. CASE Restart
  <2>1. cfg' = file /\ file' = file /\ drawn' = drawn
    BY <1>2 DEF Restart
  <2>2. Types' /\ Salts'
    BY <1>1, <2>1 DEF Types, Salts, Salted, NoCopy
  <2>3. Kept' \subseteq Kept
    BY <1>1, <2>1 DEF Kept
  <2>4. QED
    BY <2>1, <2>2, <2>3 DEF Secrets, Drawn
<1>3. CASE RestartWithCard
  <2>1. PICK pin \in Pins : cfg' = Fresh(pin, drawn + 1, drawn + 2)
    BY <1>3 DEF RestartWithCard
  <2>2. drawn' = drawn + 2 /\ drawn' \in 0..MaxRandom /\ file' \in {file, cfg'}
    BY <1>3, AuthAssumption DEF RestartWithCard, Types
  <2>3. /\ cfg' \in Config /\ Salted(cfg)' /\ cfg'.key # NoKey
        /\ Pair(cfg)'.secret = drawn' /\ Pair(cfg)'.key # NoKey
    BY <1>3, <2>1, <2>2, FreshIsGood DEF RestartWithCard, Salted, Pair
  <2>4. Types' /\ Salts'
    BY <1>1, <2>2, <2>3 DEF Types, Salts, Salted, NoCopy
  <2>5. Kept' \subseteq Kept \cup {Pair(cfg)'}
    BY <1>1, <2>2 DEF Kept, Pair
  <2>6. Secrets'
    BY <2>2, <2>3, <2>5, NewSecret DEF Types
  <2>7. QED
    BY <2>4, <2>6
<1>4. QED
  BY <1>2, <1>3

LEMMA KeyInvariance == Spec => []KeyInv
<1>1. KeyInv /\ [Next]_vars => KeyInv'
  <2> SUFFICES ASSUME KeyInv, [Next]_vars PROVE KeyInv'
    OBVIOUS
  <2>1. CASE UNCHANGED vars
    BY <2>1 DEF vars, fileVars, KeyInv, Types, Salts, Salted, Secrets, Drawn, Kept
  <2>2. ASSUME NEW s \in Savers, Load(s) \/ SaveFails(s) PROVE KeyInv'
    BY <2>2, FileKeys
  <2>3. ASSUME NEW f \in Forms, SaveForm(f) PROVE KeyInv'
    BY <2>3, FileKeys DEF Savers
  <2>4. QED
    BY <2>1, <2>2, <2>3, TickKeys, ChallengeKeys, TryKeys, LoginKeys, SetPINKeys, ChangeKeys,
       SaveAuthKeys, RestartKeys DEF Next
<1>2. QED
  BY <1>1, InitKeyInv, PTL DEF Spec

(* Whatever is set, changed, saved, lost in a save or put in by a card, the stored key  *)
(* can be proved with the salt that challenges hand out, and a session is valid only    *)
(* under the PIN that opened it (auth.go:117-190, 249-298, 329-437).                   *)
THEOREM KeysAreRight == Spec => []KeysHold
<1>1. KeyInv => KeysHold
  <2> SUFFICES ASSUME KeyInv PROVE KeysHold
    OBVIOUS
  <2>1. SaltFits
    BY DEF KeyInv, Salts, Salted, SaltFits, Configured
  <2>2. ASSUME NEW t \in tokens, t.secret = cfg.secret PROVE t.key = cfg.key
    <3>1. t \in Kept /\ Pair(cfg) \in Kept
      BY DEF Kept
    <3>2. t.secret = Pair(cfg).secret /\ Pair(cfg).key = cfg.key
      BY <2>2 DEF Pair
    <3>3. QED
      BY <3>1, <3>2 DEF KeyInv, Secrets
  <2>3. QED
    BY <2>1, <2>2 DEF KeysHold, SessionsFollowThePIN
<1>2. QED
  BY <1>1, KeyInvariance, PTL

-------------------------------------------------------------------------------------
(* The brake                                                                           *)

(* What the code counts is never less than the wrong proofs there have been, its quiet  *)
(* spells no longer than the true ones, and what is left of the lock makes up for what  *)
(* the last wrong proof has yet to wait.                                               *)
BrakeInv ==
    /\ attempts \in 0..MostTries /\ guesses \in 0..attempts
    /\ lock \in 0..MaxLockout
    /\ quiet \in Nat /\ since \in 0..AttemptDecay + 1 /\ quiet <= since
    /\ since > AttemptDecay => guesses = 0
    /\ guesses >= Grace => lock + since >= Wait(guesses)
    /\ lock > 0 => lock + since <= MaxLockout

LEMMA WaitBounds ==
  \A n, k \in Nat : /\ Wait(n) \in 0..MaxLockout
                    /\ k <= n => Wait(k) <= Wait(n)
<1> SUFFICES ASSUME NEW n \in Nat, NEW k \in Nat
             PROVE  Wait(n) \in 0..MaxLockout /\ (k <= n => Wait(k) <= Wait(n))
  OBVIOUS
<1>1. \A m \in Nat : Wait(m) = IF m < Grace THEN 0
                               ELSE IF m - Grace + 1 <= MaxLockout THEN m - Grace + 1 ELSE MaxLockout
  BY Minimum, AuthAssumption DEF Wait
<1>2. QED
  BY <1>1, AuthAssumption

LEMMA TickBrake == BrakeInv /\ Tick => BrakeInv'
<1> SUFFICES ASSUME BrakeInv, Tick PROVE BrakeInv'
  OBVIOUS
<1> USE DEF BrakeInv
<1>1. lock' = IF lock > 0 THEN lock - 1 ELSE 0
  <2>1. 0 \in Int /\ lock - 1 \in Int /\ lock' = Max({0, lock - 1})
    BY AuthAssumption DEF Tick
  <2>2. Max({0, lock - 1}) = IF 0 >= lock - 1 THEN 0 ELSE lock - 1
    BY <2>1, Maximum
  <2>3. QED
    BY <2>1, <2>2, AuthAssumption
<1>2. /\ quiet' = IF quiet + 1 <= AttemptDecay + 1 THEN quiet + 1 ELSE AttemptDecay + 1
      /\ since' = IF since + 1 <= AttemptDecay + 1 THEN since + 1 ELSE AttemptDecay + 1
  <2>1. /\ quiet + 1 \in Int /\ since + 1 \in Int /\ AttemptDecay + 1 \in Int
        /\ quiet' = Min({quiet + 1, AttemptDecay + 1})
        /\ since' = Min({since + 1, AttemptDecay + 1})
    BY AuthAssumption DEF Tick
  <2>2. QED
    BY <2>1, Minimum
<1>3. attempts' = attempts /\ guesses' = IF since' > AttemptDecay THEN 0 ELSE guesses
  BY DEF Tick
<1>4. Wait(guesses) \in 0..MaxLockout /\ Wait(guesses)' = IF since' > AttemptDecay THEN Wait(0) ELSE Wait(guesses)
  BY <1>3, WaitBounds, AuthAssumption DEF MostTries
<1>5. QED
  BY <1>1, <1>2, <1>3, <1>4, AuthAssumption DEF MostTries

LEMMA WrongBrake == BrakeInv /\ Tried /\ Wrong => BrakeInv'
<1> SUFFICES ASSUME BrakeInv, Tried, Wrong PROVE BrakeInv'
  OBVIOUS
<1> USE DEF BrakeInv
<1>1. Counted \in 0..MostTries /\ guesses <= Counted /\ MostTries \in Nat
  BY AuthAssumption DEF Counted, MostTries
<1>2. /\ attempts' = IF Counted + 1 <= MostTries THEN Counted + 1 ELSE MostTries
      /\ guesses' = IF guesses + 1 <= MostTries THEN guesses + 1 ELSE MostTries
  BY <1>1, Minimum DEF Wrong
<1>3. attempts' \in 0..MostTries /\ guesses' \in 0..attempts' /\ attempts' \in Nat /\ guesses' \in Nat
  BY <1>1, <1>2
<1>4. /\ Wait(attempts') \in 0..MaxLockout /\ Wait(guesses') <= Wait(attempts')
      /\ Wait(guesses') \in 0..MaxLockout
  BY <1>3, WaitBounds
<1>5. /\ lock = 0 /\ quiet' = 0 /\ since' = 0
      /\ lock' = IF attempts' >= Grace THEN Wait(attempts') ELSE lock
  BY DEF Tried, Wrong
<1>6. Wait(guesses)' = Wait(guesses')
  BY DEF Wait
<1>7. QED
  BY <1>3, <1>4, <1>5, <1>6, AuthAssumption

LEMMA BrakeInvariance == Spec => []BrakeInv
<1>1. Init => BrakeInv
  BY AuthAssumption DEF Init, BrakeInv, MostTries
<1>2. BrakeInv /\ [Next]_vars => BrakeInv'
  <2> SUFFICES ASSUME BrakeInv, [Next]_vars PROVE BrakeInv'
    OBVIOUS
  <2> USE DEF BrakeInv
  <2>1. CASE Tick
    BY <2>1, TickBrake
  <2>2. CASE TryWrong
    BY <2>2, WrongBrake DEF TryWrong
  <2>3. CASE TryStale \/ ChangeMalformed
    <3>1. attempts' = Counted /\ quiet' = 0 /\ UNCHANGED <<lock, historyVars>>
      BY <2>3 DEF TryStale, ChangeMalformed, Tried
    <3>2. Wait(guesses)' = Wait(guesses)
      BY <3>1 DEF Wait, historyVars
    <3>3. QED
      BY <3>1, <3>2, AuthAssumption DEF Counted, historyVars, MostTries
  <2>4. CASE Login \/ ChangePIN
    <3>1. attempts' = 0 /\ guesses' = 0 /\ quiet' = 0 /\ UNCHANGED <<lock, since>>
      BY <2>4 DEF Login, ChangePIN, Tried, Forgive
    <3>2. QED
      BY <3>1, AuthAssumption DEF MostTries
  <2>5. CASE Restart \/ RestartWithCard
    BY <2>5, AuthAssumption DEF Restart, RestartWithCard, Forget, MostTries
  <2>6. CASE UNCHANGED <<brakeVars, historyVars>>
    BY <2>6 DEF brakeVars, historyVars, Wait
  <2>7. Challenge \/ SetPIN \/ SaveAuth \/ UNCHANGED vars
          \/ (\E s \in Savers : Load(s) \/ SaveFails(s)) \/ (\E f \in Forms : SaveForm(f))
        => UNCHANGED <<brakeVars, historyVars>>
    BY DEF Challenge, SetPIN, SaveAuth, Load, SaveFails, SaveForm, vars
  <2>8. QED
    BY <2>1, <2>2, <2>3, <2>4, <2>5, <2>6, <2>7 DEF Next
<1>3. QED
  BY <1>1, <1>2, PTL DEF Spec

(* For any threshold, lockout and decay that is no shorter than the lockout: a wrong    *)
(* PIN after Grace others waits its turn, and the owner is never kept out for longer    *)
(* than MaxLockout after the last wrong one (auth.go:205-246).                         *)
THEOREM BrakeIsABrake == Spec => []BrakeHolds
<1>1. BrakeInv => BrakeHolds
  BY AuthAssumption DEF BrakeInv, BrakeHolds, WrongProofsWait, DoorOpens
<1>2. QED
  BY <1>1, BrakeInvariance, PTL

=======================================================================================
