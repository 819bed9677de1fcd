------------------------------------- MODULE Auth -------------------------------------
(*************************************************************************************)
(* The PIN, its sessions and the file they are kept in: internal/auth, its handlers    *)
(* in internal/web/auth.go, the Save of cmd/freewayd/main.go and the saving of any     *)
(* other section of the same file by another handler (SaveConfig).                    *)
(*                                                                                    *)
(* A key is a PIN and the salt it was derived with; a proof over a challenge is right *)
(* when it was made with the stored key.  Random values are numbers never used        *)
(* before.  Times are kept as what is left or has passed, in units of the delay a      *)
(* wrong PIN costs.                                                                   *)
(*************************************************************************************)
EXTENDS Integers, Sequences, FiniteSetsExt

CONSTANTS Pins,
          Grace,      \* wrong PINs before the door is shut, 5
          MaxLockout, AttemptDecay, NonceTTL, MaxNonces,
          Forms,      \* handlers that save other sections of the file
          MaxRandom,  \* bound: random values drawn
          MaxTokens   \* bound: sessions opened

NoKey  == [pin |-> "none", salt |-> 0]
Random == 1..MaxRandom
Keys   == [pin : Pins, salt : Random] \cup {NoKey}

ASSUME AuthAssumption ==
    /\ "none" \notin Pins
    /\ Grace \in Nat \ {0} /\ MaxLockout \in Nat \ {0} /\ MaxNonces \in Nat \ {0}
    /\ NonceTTL \in Nat
    /\ AttemptDecay \in Nat /\ AttemptDecay >= MaxLockout
    /\ MaxRandom \in Nat /\ MaxTokens \in Nat

Config == [key : Keys, salt : 0..MaxRandom, secret : 0..MaxRandom]

VARIABLES
    cfg,      \* Authenticator.cfg
    nonces,   \* challenges that are out, oldest first: their salt and age
    attempts,
    lock,     \* time until lockUntil
    quiet,    \* time since lastAttempt
    saving,   \* Save is at work with the mutex held, for SetPIN or ChangePIN
    copies,   \* what a save that is under way has loaded
    file,     \* the auth section of the configuration file
    drawn,    \* random values used
    tokens,   \* sessions in browsers: the secret they are signed with, and their key
    guesses,  \* history: wrong proofs in a row
    since     \* history: time since the last of them

brakeVars   == <<attempts, lock, quiet>>
historyVars == <<guesses, since>>
fileVars    == <<copies, file>>
vars == <<cfg, nonces, brakeVars, saving, fileVars, drawn, tokens, historyVars>>

Savers   == Forms \cup {"auth"}
NoCopy   == [key |-> NoKey, salt |-> 0, secret |-> -1]
MostTries == Grace + MaxLockout

TypeOK ==
    /\ cfg \in Config /\ file \in Config
    /\ nonces \in Seq([salt : Random, age : 0..NonceTTL]) /\ Len(nonces) <= MaxNonces
    /\ attempts \in 0..MostTries /\ lock \in 0..MaxLockout
    /\ quiet \in 0..AttemptDecay + 1
    /\ saving \in {"no", "set", "change"}
    /\ copies \in [Savers -> Config \cup {NoCopy}]
    /\ drawn \in 0..MaxRandom
    /\ tokens \subseteq [secret : Random, key : Keys] /\ guesses \in 0..MostTries
    /\ since \in 0..AttemptDecay + 1

Unset == [key |-> NoKey, salt |-> 0, secret |-> 0]

Init ==
    /\ cfg = Unset /\ file = Unset /\ nonces = <<>>
    /\ attempts = 0 /\ lock = 0 /\ quiet = AttemptDecay + 1
    /\ saving = "no" /\ copies = [s \in Savers |-> NoCopy]
    /\ drawn = 0 /\ tokens = {}
    /\ guesses = 0 /\ since = AttemptDecay + 1

Configured == cfg.key # NoKey
Free       == saving = "no"   \* the mutex

Tick ==
    /\ lock' = Max({0, lock - 1})
    /\ quiet' = Min({quiet + 1, AttemptDecay + 1})
    /\ since' = Min({since + 1, AttemptDecay + 1})
    /\ guesses' = IF since' > AttemptDecay THEN 0 ELSE guesses
    /\ \E gone \in 0..Len(nonces) :   \* the oldest are first
        /\ \A i \in 1..Len(nonces) : i <= gone <=> nonces[i].age >= NonceTTL
        /\ nonces' = [i \in 1..Len(nonces) - gone |-> [nonces[gone + i] EXCEPT !.age = @ + 1]]
    /\ UNCHANGED <<cfg, attempts, saving, fileVars, drawn, tokens>>

---------------------------------------------------------------------------------------
(* Challenges                                                                          *)

(* Challenge: the oldest go when there are too many; the salt the first PIN will be     *)
(* derived with is made up here and held.                                               *)
Issue(salt) ==
    LET kept == IF Len(nonces) >= MaxNonces THEN Tail(nonces) ELSE nonces
    IN  nonces' = Append(kept, [salt |-> salt, age |-> 0])

HoldSalt(salt) == cfg' = [cfg EXCEPT !.salt = salt]

Challenge ==
    /\ Free
    /\ IF cfg.salt # 0 THEN Issue(cfg.salt) /\ UNCHANGED <<cfg, drawn>>
       ELSE /\ drawn < MaxRandom
            /\ drawn' = drawn + 1
            /\ HoldSalt(drawn')
            /\ Issue(drawn')
    /\ UNCHANGED <<brakeVars, saving, fileVars, tokens, historyVars>>

Without(i) == SubSeq(nonces, 1, i - 1) \o SubSeq(nonces, i + 1, Len(nonces))

---------------------------------------------------------------------------------------
(* Proofs                                                                              *)

(* A mutant: a lockout that is over forgives.                                          *)
CountedShort == IF quiet >= MaxLockout THEN 0 ELSE attempts

(* A quiet spell forgives.                                                             *)
Counted == IF quiet > AttemptDecay THEN 0 ELSE attempts

(* How long the next proof has to wait after n wrong ones.                             *)
Wait(n) == IF n < Grace THEN 0 ELSE Min({n - Grace + 1, MaxLockout})

(* A wrong proof.  The count matters only up to MostTries.                             *)
Wrong ==
    /\ attempts' = Min({Counted + 1, MostTries})
    /\ lock' = IF attempts' >= Grace THEN Wait(attempts') ELSE lock
    /\ guesses' = Min({guesses + 1, MostTries})
    /\ since' = 0

Right(i, pin) == [pin |-> pin, salt |-> nonces[i].salt] = cfg.key

(* Tried, in Verify as in ChangePIN: the door is open, and this is an attempt.         *)
Tried ==
    /\ Free /\ Configured /\ lock = 0
    /\ quiet' = 0

(* consumeNonce finds nothing: the challenge is old, spent or was never issued.        *)
TryStale ==
    /\ Tried
    /\ attempts' = Counted
    /\ UNCHANGED <<cfg, nonces, lock, saving, fileVars, drawn, tokens, historyVars>>

TryWrong ==
    /\ Tried
    /\ \E i \in 1..Len(nonces), pin \in Pins :
        ~Right(i, pin) /\ nonces' = Without(i)
    /\ Wrong
    /\ UNCHANGED <<cfg, saving, fileVars, drawn, tokens>>

Forgive == attempts' = 0 /\ guesses' = 0

(* Verify *)
Login ==
    /\ Tried
    /\ \E i \in 1..Len(nonces), pin \in Pins :
        Right(i, pin) /\ nonces' = Without(i)
    /\ Forgive
    /\ Cardinality(tokens) < MaxTokens
    /\ tokens' = tokens \cup {[secret |-> cfg.secret, key |-> cfg.key]}
    /\ UNCHANGED <<cfg, lock, saving, fileVars, drawn, since>>

---------------------------------------------------------------------------------------
(* Changing the PIN                                                                    *)

(* SetPIN: the key comes from the browser, derived with the salt of its challenge.     *)
SetPIN ==
    /\ Free /\ ~Configured
    /\ drawn < MaxRandom /\ drawn' = drawn + 1
    /\ \E i \in 1..Len(nonces), pin \in Pins :
        /\ nonces' = Without(i)
        /\ cfg' = [cfg EXCEPT !.key = [pin |-> pin, salt |-> nonces[i].salt],
                              !.secret = IF @ = 0 THEN drawn' ELSE @]
    /\ saving' = "set"
    /\ UNCHANGED <<brakeVars, fileVars, tokens, historyVars>>

(* What ChangePIN and ForcePIN put in place: salt, secret and key are all new.          *)

(* A mutant: sessions go on.                                                           *)
FreshKey(pin, salt, secret) ==
    [key |-> [pin |-> pin, salt |-> salt], salt |-> salt,
     secret |-> IF cfg.secret = 0 THEN secret ELSE cfg.secret]

Fresh(pin, salt, secret) ==
    [key |-> [pin |-> pin, salt |-> salt], salt |-> salt, secret |-> secret]

(* ChangePIN, the old one proved like a login.  requireAuth let the request through a   *)
(* while ago, so the session it came with says nothing here.                           *)
ChangePIN ==
    /\ Tried
    /\ drawn + 2 <= MaxRandom /\ drawn' = drawn + 2
    /\ \E i \in 1..Len(nonces), old \in Pins, new \in Pins :
        /\ Right(i, old) /\ nonces' = Without(i)
        /\ cfg' = Fresh(new, drawn + 1, drawn + 2)
    /\ Forgive
    /\ saving' = "change"
    /\ UNCHANGED <<lock, fileVars, tokens, since>>

(* The new key or salt is no good: the challenge is spent and nothing is forgiven.     *)
ChangeMalformed ==
    /\ Tried
    /\ attempts' = Counted
    /\ \E i \in 1..Len(nonces), pin \in Pins :
        Right(i, pin) /\ nonces' = Without(i)
    /\ UNCHANGED <<cfg, lock, saving, fileVars, drawn, tokens, historyVars>>

---------------------------------------------------------------------------------------
(* The file                                                                            *)

Atwork(s) == IF s = "auth" THEN saving # "no" ELSE TRUE

(* config.Load; then the section is changed in what was loaded, and config.Save renames *)
(* a finished file over the old one.                                                   *)
Load(s) ==
    /\ Atwork(s) /\ copies[s] = NoCopy
    /\ copies' = [copies EXCEPT ![s] = file]
    /\ UNCHANGED <<cfg, nonces, brakeVars, saving, file, drawn, tokens, historyVars>>

SaveForm(f) ==
    /\ copies[f] # NoCopy
    /\ file' = copies[f]
    /\ copies' = [copies EXCEPT ![f] = NoCopy]
    /\ UNCHANGED <<cfg, nonces, brakeVars, saving, drawn, tokens, historyVars>>

(* Authenticator.Save returns, and ChangePIN with a session for whoever asked;          *)
(* handleAuthSetup answers with another challenge.                                     *)
SaveAuth ==
    /\ copies["auth"] # NoCopy
    /\ file' = cfg
    /\ copies' = [copies EXCEPT !["auth"] = NoCopy]
    /\ saving' = "no"
    /\ tokens' = IF saving = "change"
                 THEN tokens \cup {[secret |-> cfg.secret, key |-> cfg.key]} ELSE tokens
    /\ IF saving = "set" THEN Issue(cfg.salt) ELSE UNCHANGED nonces
    /\ UNCHANGED <<cfg, brakeVars, drawn, historyVars>>

(* An error leaves the file as it was, and the PIN in memory as it has become.         *)
SaveFails(s) ==
    /\ Atwork(s)
    /\ copies' = [copies EXCEPT ![s] = NoCopy]
    /\ saving' = IF s = "auth" THEN "no" ELSE saving
    /\ UNCHANGED <<cfg, nonces, brakeVars, file, drawn, tokens, historyVars>>

(* The daemon starts again, at any moment, and finds a PIN from the card or not          *)
(* (applyPINReset, ForcePIN).                                                          *)
Forget ==
    /\ nonces' = <<>> /\ attempts' = 0 /\ lock' = 0 /\ quiet' = AttemptDecay + 1
    /\ saving' = "no" /\ copies' = [s \in Savers |-> NoCopy]
    /\ guesses' = 0 /\ since' = AttemptDecay + 1

Restart ==
    /\ Forget
    /\ cfg' = file
    /\ UNCHANGED <<file, drawn, tokens>>

RestartWithCard ==
    /\ Forget
    /\ drawn + 2 <= MaxRandom /\ drawn' = drawn + 2
    /\ \E pin \in Pins : cfg' = Fresh(pin, drawn + 1, drawn + 2)
    /\ file' \in {file, cfg'}
    /\ UNCHANGED tokens

Next ==
    \/ Tick \/ Challenge
    \/ TryStale \/ TryWrong \/ Login
    \/ SetPIN \/ ChangePIN \/ ChangeMalformed
    \/ \E s \in Savers : Load(s) \/ SaveFails(s)
    \/ \E f \in Forms : SaveForm(f)
    \/ SaveAuth \/ Restart \/ RestartWithCard

Spec == Init /\ [][Next]_vars

---------------------------------------------------------------------------------------
(* Properties                                                                          *)

(* A PIN can always be proved: the stored key was derived with the salt that challenges *)
(* hand out (Challenge, SetPIN), whichever of several challenges, before or after a     *)
(* restart, the first PIN came with.                                                   *)
SaltFits == Configured => cfg.key.salt = cfg.salt

(* Whoever is logged in got in with the PIN that is in force, a restart, a failed save  *)
(* and an old copy of the file notwithstanding (Valid, ChangePIN).                      *)
SessionsFollowThePIN ==
    \A t \in tokens : t.secret = cfg.secret => t.key = cfg.key

(* The stored key is one that can be proved, and none but its own sessions are in.      *)
KeysHold == SaltFits /\ SessionsFollowThePIN

(* The brake: after Grace wrong proofs in a row, through logins and changes of the PIN  *)
(* alike, the next one waits its turn, and waiting is not shortened by anything but the *)
(* right PIN or a quiet spell (Verify).                                                 *)
WrongProofsWait ==
    (lock = 0 /\ guesses >= Grace) => since >= Wait(guesses)

(* And it is a brake, not a lock: MaxLockout after the last wrong proof the door is     *)
(* open, whatever else has been sent since.                                             *)
DoorOpens == lock > 0 => lock + since <= MaxLockout

(* The brake is both.                                                                   *)
BrakeHolds == WrongProofsWait /\ DoorOpens

(* What the file says of the PIN only ever becomes what is in force: saving another     *)
(* section does not put an old PIN back (main.go's Save and SaveConfig).                *)
OldPINsStayOld == [][file'.key # file.key => file' = cfg']_vars

=======================================================================================
