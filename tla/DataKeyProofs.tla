---------------------------- MODULE DataKeyProofs ----------------------------
(***************************************************************************)
(* Theorems about DataKey, for any callers and for any number of accounts, *)
(* random keys, refusals, deaths of the process and disposed services:     *)
(* every row and the secret key stay recoverable, every start stays        *)
(* possible, and what a wipe removed does not come back.                   *)
(*                                                                         *)
(* The invariant follows a device through its phases: nothing is encrypted *)
(* (Bare); a random key is stored (AtRandom); the canary is sealed with    *)
(* the words' key (Kept); a wipe is under way (Wiped), which ends in the   *)
(* first phase again.                                                      *)
(***************************************************************************)
EXTENDS DataKey, SequenceTheorems, TLAPS

-----------------------------------------------------------------------------
(* Types and the states of a call.                                         *)

\* Names for the parts of the types.
Stored == Key \cup {None, Refused}
ProcState ==
    [pc : {"idle", "joined", "key", "canary", "words", "write",
           "seal", "look", "drop", "have", "failed"},
     attempt : 0..Attempts, stale : BOOLEAN, cut : BOOLEAN,
     stored : Stored, canary : Stored,
     key : Key \cup {None}, with : Proc \cup {"nobody"},
     wrote : SUBSET {"canary", "key"}]
Keychain == [key : Key \cup {None}, canary : Key \cup {None},
             sealer : Proc \cup {"nobody"}, secret : Key \cup {None},
             words : {Derived(a) : a \in 1..MaxAccounts} \cup {None}]
Disk == [rows : SUBSET Key, marked : BOOLEAN,
         seen : {"unknown", "yes", "no"}, encrypted : BOOLEAN]
Opening == [pc : {"closed", "words", "key", "seal", "rewrap", "move",
                  "keepseal", "keepkey", "mark", "unmove", "wrapback",
                  "encrypt", "failing", "open"},
            from : Key \cup {None}, to : Key \cup {None}, moved : BOOLEAN]
Spent == [accounts : 0..MaxAccounts, chance : 0..MaxChance,
          refusals : 0..MaxRefusals, kills : 0..MaxKills, forgets : 0..MaxForgets]

\* The types, without the line for the Keychain.
Typed ==
    /\ keychain \in Keychain /\ disk \in Disk /\ feed \subseteq Key
    /\ memory \in Key \cup {None} /\ inflight \in Proc \cup {"nobody"}
    /\ recall \in Key \cup {None, Unasked}
    /\ proc \in [Proc -> ProcState]
    /\ opening \in Opening
    /\ wallet \in {"rest", "words", "secret", "repair", "close"}
    /\ wiping \in {"rest", "memory", "words", "unseen", "secret", "canary",
                   "key", "files", "again"}
    /\ posted \in BOOLEAN
    /\ spent \in Spent
    /\ gone \subseteq Key
    /\ odd \subseteq {"unsealed", "late", "leftover", "halfway"}

\* The line for the Keychain holds everybody who has an operation under way, once.
Lined ==
    /\ line \in Seq(Actor) /\ IsInjective(line)
    /\ ToSet(line) = {w \in Actor : Asking(w)}

\* Where the migration knows the words' key.
Migrating == {"key", "seal", "rewrap", "move", "keepseal", "keepkey", "unmove", "wrapback"}

\* What a call of getOrCreateDataEncryptionKey keeps, by the place it has reached.
ProcShape(p, me) ==
    /\ me.pc = "idle" => me = Idle
    /\ me.pc \in {"look", "drop"} => me.wrote # {}
    /\ me.pc \in {"write", "seal", "look", "drop", "have"} => me.key # None
    /\ p \in {"opening", "wallet"} => ~me.cut

\* How the opening, the onboarding and the calls of the key depend on one another,
\* whatever the Keychain refuses.
Shape ==
    /\ wallet # "rest" => opening.pc = "open" /\ wiping = "rest"
    /\ wallet = "words" => spent.accounts < MaxAccounts
    /\ wallet \in {"secret", "repair"} <=> proc["wallet"].pc # "idle"
    /\ proc["opening"].pc # "idle" => opening.pc = "encrypt" /\ ~disk.encrypted
    /\ opening.pc \in Migrating => opening.to # None
    /\ opening.pc \in {"rewrap", "move", "unmove", "wrapback"} \/ opening.moved =>
          opening.from # None
    /\ opening.pc \in {"words", "key", "seal", "rewrap", "move"} => ~opening.moved
    /\ \A p \in Proc : ProcShape(p, proc[p])

\* What a call becomes when it has its key, is made again, or has failed.
Having(k) == [Idle EXCEPT !.pc = "have", !.key = k]
Again(a, cut) == [Idle EXCEPT !.pc = "key", !.attempt = a, !.cut = cut]
Failed == [Idle EXCEPT !.pc = "failed"]

\* The kinds of keys, and what stands for no key, differ from one another.
LEMMA Distinct ==
    /\ None \notin Key /\ Refused \notin Key /\ Unasked \notin Key
    /\ None # Refused /\ None # Unasked /\ Refused # Unasked
    /\ \A a, b : Derived(a) # Chance(b)
    /\ \A a \in 1..MaxAccounts : Derived(a) \in Key
    /\ \A a \in 1..MaxChance : Chance(a) \in Key
    /\ \A a, b : Derived(a) = Derived(b) => a = b
    /\ \A a, b : Chance(a) = Chance(b) => a = b
BY DEF None, Refused, Unasked, Derived, Chance, Key

\* The opening and the onboarding resolve keys, and are nobody else.
LEMMA Names ==
    /\ "opening" \in Proc /\ "wallet" \in Proc
    /\ "nobody" \notin Proc /\ "migration" \notin Proc /\ "onboarding" \notin Proc /\ "wipe" \notin Proc
    /\ "opening" \notin Caller /\ "wallet" \notin Caller
    /\ Actor = Proc \cup {"migration", "onboarding", "wipe"}
BY DataKeyAssumption DEF Proc, Actor

\* The states a call is set to have the type of a call.
LEMMA RestingTyped ==
    /\ Idle \in ProcState /\ Failed \in ProcState
    /\ \A k \in Key : Having(k) \in ProcState
    /\ \A a \in 0..Attempts, cut \in BOOLEAN : Again(a, cut) \in ProcState
<1>1. Idle \in ProcState
  BY DataKeyAssumption DEF Idle, ProcState, Stored
<1> QED BY <1>1 DEF ProcState, Failed, Having, Again

\* A call that rests, has failed or has its key remembers nothing else.
LEMMA IdleIs ==
    /\ Idle.pc = "idle" /\ Idle.attempt = 0 /\ ~Idle.stale /\ ~Idle.cut
    /\ Idle.stored = None /\ Idle.canary = None /\ Idle.key = None /\ Idle.wrote = {}
    /\ Failed.pc = "failed" /\ ~Failed.stale /\ ~Failed.cut
    /\ Failed.stored = None /\ Failed.canary = None /\ Failed.key = None /\ Failed.wrote = {}
    /\ \A k : /\ Having(k).pc = "have" /\ ~Having(k).stale /\ ~Having(k).cut
              /\ Having(k).stored = None /\ Having(k).canary = None
              /\ Having(k).key = k /\ Having(k).wrote = {}
BY DEF Idle, Failed, Having

\* A promise is settled for the one who resolves and for those who joined it.
LEMMA SettlesIs ==
    ASSUME NEW p \in Proc, NEW k, Settles(p, k)
    PROVE /\ proc' = [q \in Proc |-> proc'[q]]
          /\ \A q \in Proc :
                IF q = p \/ (proc[q].pc = "joined" /\ proc[q].with = p)
                THEN proc'[q] = IF proc[q].cut THEN Idle ELSE
                                 IF k # None THEN Having(k) ELSE
                                 IF q \in Caller THEN Idle ELSE Failed
                ELSE proc'[q] = proc[q]
          /\ inflight' = IF inflight = p THEN "nobody" ELSE inflight
BY DEF Settles, Having, Failed

\* Settling a promise keeps the types.
LEMMA SettlesTyped ==
    ASSUME Typed, NEW p \in Proc, NEW k \in Key \cup {None}, Settles(p, k)
    PROVE proc' \in [Proc -> ProcState] /\ inflight' \in Proc \cup {"nobody"}
<1>1. ASSUME NEW q \in Proc PROVE proc'[q] \in ProcState
  <2>1. \/ proc'[q] = proc[q] \/ proc'[q] = Idle \/ proc'[q] = Failed
        \/ k # None /\ proc'[q] = Having(k)
    BY SettlesIs
  <2>2. proc[q] \in ProcState
    BY DEF Typed
  <2> QED BY <2>1, <2>2, RestingTyped
<1> QED BY <1>1, SettlesIs DEF Typed

\* Giving a call a new state keeps the types.
LEMMA BecomeTyped ==
    ASSUME Typed, NEW p \in Proc, NEW me \in ProcState, Become(p, me)
    PROVE proc' \in [Proc -> ProcState]
BY DEF Typed, Become

\* Resolving once more keeps the types.
LEMMA RestartsTyped ==
    ASSUME Typed, NEW p \in Proc, Restarts(p)
    PROVE /\ proc' \in [Proc -> ProcState] /\ inflight' \in Proc \cup {"nobody"}
          /\ memory' = memory /\ odd' \subseteq {"unsealed", "late", "leftover", "halfway"}
<1>1. memory' = memory /\ odd' \subseteq {"unsealed", "late", "leftover", "halfway"}
  BY DEF Restarts, Typed
<1>2. CASE proc[p].attempt = Attempts
  BY <1>1, <1>2, SettlesTyped DEF Restarts
<1>3. CASE proc[p].attempt # Attempts /\ memory # None
  BY <1>1, <1>3, SettlesTyped DEF Restarts, Typed
<1>4. CASE proc[p].attempt # Attempts /\ memory = None
  <2> DEFINE me == Again(proc[p].attempt + 1, proc[p].cut)
  <2>1. proc[p].attempt \in 0..Attempts /\ proc[p].cut \in BOOLEAN
    BY DEF Typed, ProcState
  <2>2. me \in ProcState
    BY <1>4, <2>1, RestingTyped, DataKeyAssumption
  <2>3. Become(p, me) /\ inflight' = inflight
    BY <1>4 DEF Restarts, Again
  <2> QED BY <1>1, <2>2, <2>3, BecomeTyped DEF Typed
<1> QED BY <1>2, <1>3, <1>4

\* What is decided for is a key.
LEMMA ChosenTyped ==
    ASSUME NEW stored, NEW canary, NEW words
    PROVE Chosen(stored, canary, words) \subseteq Key
BY DEF Chosen

\* Deciding keeps the types.
LEMMA DecidesTyped ==
    ASSUME Typed, NEW p \in Proc, NEW me \in ProcState, NEW words, Decides(p, me, words)
    PROVE /\ proc' \in [Proc -> ProcState] /\ inflight' \in Proc \cup {"nobody"}
          /\ memory' \in Key \cup {None} /\ odd' \subseteq {"unsealed", "late", "leftover", "halfway"}
<1> DEFINE found == Chosen(me.stored, me.canary, words)
           k == CHOOSE f \in found : TRUE
<1>1. CASE found = {}
  <2>1. GoesWithout(p)
    BY <1>1 DEF Decides
  <2> QED BY <2>1, SettlesTyped DEF GoesWithout, Typed
<1>2. CASE found # {} /\ me.stale
  <2>1. Restarts(p)
    BY <1>2 DEF Decides
  <2> QED BY <2>1, RestartsTyped DEF Typed
<1>3. CASE found # {} /\ ~me.stale
  <2>1. k \in Key
    BY <1>3, ChosenTyped
  <2>2. \A pc \in {"write", "seal"} : [me EXCEPT !.pc = pc, !.key = k] \in ProcState
    BY <2>1 DEF ProcState
  <2> HIDE DEF k, found
  <2>3. \/ \E pc \in {"write", "seal"} : Goes(p, [me EXCEPT !.pc = pc, !.key = k])
        \/ Settles(p, k) /\ memory' = k /\ odd' = IF me.canary = Refused THEN odd \cup {"unsealed"} ELSE odd
    BY <1>3 DEF Decides, k, found
  <2>4. CASE \E pc \in {"write", "seal"} : Goes(p, [me EXCEPT !.pc = pc, !.key = k])
    BY <2>2, <2>4, BecomeTyped DEF Goes, Typed
  <2>5. CASE Settles(p, k) /\ memory' = k /\ odd' = IF me.canary = Refused THEN odd \cup {"unsealed"} ELSE odd
    BY <2>1, <2>5, SettlesTyped DEF Typed
  <2> QED BY <2>3, <2>4, <2>5
<1> QED BY <1>1, <1>2, <1>3

\* An answer of the Keychain stays within the bound of the refusals.
LEMMA AnswersTyped ==
    ASSUME Typed, NEW refused \in BOOLEAN, Answers(refused)
    PROVE spent' \in Spent
BY DataKeyAssumption DEF Typed, Answers, Spent

\* The words, read or remembered, are a key or stand for none.
LEMMA WordsTyped ==
    ASSUME Typed, NEW refused \in BOOLEAN, NEW words \in Words(refused)
    PROVE /\ words \in Key \cup {None, Refused}
          /\ Remembered(words) \in Key \cup {None, Unasked}
<1>1. keychain.words \in Key \cup {None}
  BY Distinct DEF Typed, Keychain
<1> QED BY <1>1 DEF Typed, Words, Remembered

\* What the migration finds are the words, or stands for none.
LEMMA FoundTyped ==
    ASSUME Typed, NEW refused \in BOOLEAN, NEW words \in Found(refused)
    PROVE /\ words \in Key \cup {None, Refused}
          /\ (IF keychain.words = None THEN recall ELSE Remembered(words))
                \in Key \cup {None, Unasked}
<1>1. words \in Words(refused) \cup {None, Refused}
  BY DEF Found
<1>2. recall \in Key \cup {None, Unasked}
  BY DEF Typed
<1>3. CASE words \in Words(refused)
  BY <1>2, <1>3, WordsTyped
<1>4. CASE words \in {None, Refused}
  BY <1>2, <1>4 DEF Remembered
<1> QED BY <1>1, <1>3, <1>4

\* Reading the records keeps the types; a random key is made within its bound.
LEMMA ReadTyped ==
    ASSUME Typed, NEW p \in Proc, NEW refused \in BOOLEAN,
           ReadKey(p, refused) \/ ReadCanary(p, refused) \/ ReadWords(p, refused)
    PROVE Typed'
<1>1. CASE ReadKey(p, refused)
  <2> DEFINE me == [proc[p] EXCEPT !.pc = "canary",
                                   !.stored = IF refused THEN Refused ELSE keychain.key]
  <2>1. keychain.key \in Key \cup {None} /\ proc[p] \in ProcState
    BY DEF Typed, Keychain
  <2>2. me \in ProcState
    BY <2>1 DEF ProcState, Stored
  <2> HIDE DEF me
  <2>3. Goes(p, me) /\ Answers(refused)
    BY <1>1 DEF ReadKey, me
  <2> QED BY <1>1, <2>2, <2>3, BecomeTyped, AnswersTyped DEF ReadKey, Goes, Typed, data
<1>2. CASE ReadCanary(p, refused)
  <2> DEFINE me == [proc[p] EXCEPT !.canary = IF refused THEN Refused ELSE keychain.canary]
  <2>1. keychain.canary \in Key \cup {None} /\ proc[p] \in ProcState
    BY DEF Typed, Keychain
  <2>2. me \in ProcState /\ [me EXCEPT !.pc = "words"] \in ProcState
    BY <2>1 DEF ProcState, Stored
  <2> HIDE DEF me
  <2>3. Decides(p, me, None) \/ Goes(p, [me EXCEPT !.pc = "words"])
    BY <1>2 DEF ReadCanary, me
  <2>4. spent' \in Spent
    BY <1>2, AnswersTyped DEF ReadCanary
  <2>5. /\ proc' \in [Proc -> ProcState] /\ inflight' \in Proc \cup {"nobody"}
        /\ memory' \in Key \cup {None} /\ odd' \subseteq {"unsealed", "late", "leftover", "halfway"}
    BY <2>2, <2>3, DecidesTyped, BecomeTyped DEF Goes, Typed
  <2> QED BY <1>2, <2>4, <2>5 DEF ReadCanary, Typed, data
<1>3. CASE ReadWords(p, refused)
  <2>1. PICK words \in Words(refused) :
          /\ recall' = Remembered(words)
          /\ refused => spent.refusals < MaxRefusals
          /\ spent' = [spent EXCEPT !.refusals = IF refused THEN @ + 1 ELSE @,
               !.chance = IF Chosen(proc[p].stored, proc[p].canary, words)
                               \cap {Chance(spent.chance + 1)} # {}
                          THEN @ + 1 ELSE @]
          /\ Decides(p, proc[p], words)
    BY <1>3 DEF ReadWords
  <2>2. Chosen(proc[p].stored, proc[p].canary, words) \cap {Chance(spent.chance + 1)} # {}
          => spent.chance + 1 \in 1..MaxChance
    <3> SUFFICES ASSUME Chance(spent.chance + 1) \in Key
                 PROVE  spent.chance + 1 \in 1..MaxChance
      BY ChosenTyped
    <3>1. PICK i \in 1..MaxChance : Chance(spent.chance + 1) = Chance(i)
      BY Distinct DEF Key
    <3> QED BY <3>1, Distinct
  <2>3. spent' \in Spent
    <3>1. /\ spent.refusals \in 0..MaxRefusals /\ spent.chance \in 0..MaxChance
          /\ spent.accounts \in 0..MaxAccounts /\ spent \in Spent
      BY DEF Typed, Spent
    <3> DEFINE refusals == IF refused THEN spent.refusals + 1 ELSE spent.refusals
               chance == IF Chosen(proc[p].stored, proc[p].canary, words)
                               \cap {Chance(spent.chance + 1)} # {}
                         THEN spent.chance + 1 ELSE spent.chance
    <3>2. refusals \in 0..MaxRefusals /\ chance \in 0..MaxChance
      BY <2>1, <2>2, <3>1, DataKeyAssumption
    <3>3. spent' = [spent EXCEPT !.refusals = refusals, !.chance = chance]
      BY <2>1
    <3> HIDE DEF refusals, chance
    <3> QED BY <3>1, <3>2, <3>3 DEF Spent
  <2>4. /\ proc' \in [Proc -> ProcState] /\ inflight' \in Proc \cup {"nobody"}
        /\ memory' \in Key \cup {None} /\ odd' \subseteq {"unsealed", "late", "leftover", "halfway"}
    <3>1. proc[p] \in ProcState
      BY DEF Typed
    <3> QED BY <2>1, <3>1, DecidesTyped
  <2> QED BY <1>3, <2>1, <2>3, <2>4, WordsTyped DEF ReadWords, Typed, data
<1> QED BY <1>1, <1>2, <1>3

\* What follows a write keeps the types.
LEMMA ConcludedTyped ==
    ASSUME Typed, NEW p \in Proc, NEW me \in ProcState, Concluded(p, me)
    PROVE /\ proc' \in [Proc -> ProcState] /\ inflight' \in Proc \cup {"nobody"}
          /\ memory' \in Key \cup {None} /\ odd' \subseteq {"unsealed", "late", "leftover", "halfway"}
<1>1. me.key \in Key \cup {None} /\ [me EXCEPT !.pc = "look"] \in ProcState
  BY DEF ProcState
<1>2. CASE ~me.stale
  <2>1. Settles(p, me.key) /\ memory' = me.key /\ odd' = odd
    BY <1>2 DEF Concluded, Gets
  <2> QED BY <1>1, <2>1, SettlesTyped DEF Typed
<1>3. CASE me.stale /\ me.wrote # {}
  <2>1. Goes(p, [me EXCEPT !.pc = "look"])
    BY <1>3 DEF Concluded
  <2> QED BY <1>1, <2>1, BecomeTyped DEF Goes, Typed
<1>4. CASE me.stale /\ me.wrote = {}
  <2>1. Restarts(p)
    BY <1>4 DEF Concluded
  <2> QED BY <2>1, RestartsTyped DEF Typed
<1> QED BY <1>2, <1>3, <1>4

\* Looking after a write of one's own keeps the types.
LEMMA LookedTyped ==
    ASSUME Typed, NEW p \in Proc, Looked(p)
    PROVE /\ proc' \in [Proc -> ProcState] /\ inflight' \in Proc \cup {"nobody"}
          /\ memory' = memory /\ odd' \subseteq {"unsealed", "late", "leftover", "halfway"}
<1> DEFINE me == [proc[p] EXCEPT !.wrote = @ \ {Item(proc[p])}]
<1>1. proc[p] \in ProcState
  BY DEF Typed
<1>2. me \in ProcState /\ [me EXCEPT !.pc = "look"] \in ProcState
  BY <1>1 DEF ProcState
<1> HIDE DEF me
<1>3. Restarts(p) \/ Goes(p, [me EXCEPT !.pc = "look"])
  BY DEF Looked, me
<1> QED BY <1>2, <1>3, RestartsTyped, BecomeTyped DEF Goes, Typed

\* Writing and taking back the records keeps the types.
LEMMA WriteTyped ==
    ASSUME Typed, NEW p \in Proc, NEW refused \in BOOLEAN,
           WriteKey(p, refused) \/ Seal(p, refused) \/ Look(p, refused) \/ Drop(p, refused)
    PROVE Typed'
<1>0. /\ proc[p] \in ProcState /\ keychain \in Keychain
      /\ memory \in Key \cup {None} /\ inflight \in Proc \cup {"nobody"}
      /\ odd \subseteq {"unsealed", "late", "leftover", "halfway"}
  BY DEF Typed
<1>1. CASE WriteKey(p, refused)
  <2> DEFINE me == [proc[p] EXCEPT !.wrote = {"key"}]
  <2>1. /\ me \in ProcState /\ [me EXCEPT !.pc = "seal"] \in ProcState
        /\ [keychain EXCEPT !.key = me.key] \in Keychain
    BY <1>0 DEF ProcState, Keychain
  <2> HIDE DEF me
  <2>2. CASE refused
    <3>1. Settles(p, None) /\ memory' = memory /\ odd' = odd /\ keychain' = keychain
      BY <1>1, <2>2 DEF WriteKey, GoesWithout
    <3> QED BY <1>1, <3>1, SettlesTyped, AnswersTyped DEF WriteKey, Typed, data
  <2>3. CASE ~refused
    <3>1. /\ keychain' = [keychain EXCEPT !.key = me.key]
          /\ Goes(p, [me EXCEPT !.pc = "seal"]) \/ Concluded(p, me)
      BY <1>1, <2>3 DEF WriteKey, me
    <3>2. /\ proc' \in [Proc -> ProcState] /\ inflight' \in Proc \cup {"nobody"}
          /\ memory' \in Key \cup {None} /\ odd' \subseteq {"unsealed", "late", "leftover", "halfway"}
      BY <1>0, <2>1, <3>1, ConcludedTyped, BecomeTyped DEF Goes
    <3> QED BY <1>1, <2>1, <3>1, <3>2, AnswersTyped DEF WriteKey, Typed, data
  <2> QED BY <2>2, <2>3
<1>2. CASE Seal(p, refused)
  <2> DEFINE me == [proc[p] EXCEPT !.wrote = IF refused THEN @ ELSE @ \cup {"canary"}]
  <2>1. /\ me \in ProcState
        /\ [keychain EXCEPT !.canary = me.key, !.sealer = p] \in Keychain
    BY <1>0 DEF ProcState, Keychain
  <2> HIDE DEF me
  <2>2. /\ keychain' \in {keychain, [keychain EXCEPT !.canary = me.key, !.sealer = p]}
        /\ Concluded(p, me)
    BY <1>2 DEF Seal, me
  <2>3. /\ proc' \in [Proc -> ProcState] /\ inflight' \in Proc \cup {"nobody"}
        /\ memory' \in Key \cup {None} /\ odd' \subseteq {"unsealed", "late", "leftover", "halfway"}
    BY <2>1, <2>2, ConcludedTyped
  <2> QED BY <1>0, <1>2, <2>1, <2>2, <2>3, AnswersTyped DEF Seal, Typed, data
<1>3. CASE Look(p, refused)
  <2>1. [proc[p] EXCEPT !.pc = "drop"] \in ProcState
    BY <1>0 DEF ProcState
  <2>2. Looked(p) \/ Goes(p, [proc[p] EXCEPT !.pc = "drop"])
    BY <1>3 DEF Look
  <2>3. /\ proc' \in [Proc -> ProcState] /\ inflight' \in Proc \cup {"nobody"}
        /\ memory' \in Key \cup {None} /\ odd' \subseteq {"unsealed", "late", "leftover", "halfway"}
    BY <1>0, <2>1, <2>2, LookedTyped, BecomeTyped DEF Goes
  <2> QED BY <1>3, <2>3, AnswersTyped DEF Look, Typed, data
<1>4. CASE Drop(p, refused)
  <2>1. Without(keychain, Item(proc[p])) \in Keychain
    BY <1>0 DEF Without, Item, Keychain
  <2>2. Looked(p) /\ keychain' \in {keychain, Without(keychain, Item(proc[p]))}
    BY <1>4 DEF Drop
  <2>3. /\ proc' \in [Proc -> ProcState] /\ inflight' \in Proc \cup {"nobody"}
        /\ memory' \in Key \cup {None} /\ odd' \subseteq {"unsealed", "late", "leftover", "halfway"}
    BY <1>0, <2>2, LookedTyped
  <2> QED BY <1>0, <1>4, <2>1, <2>2, <2>3, AnswersTyped DEF Drop, Typed, data
<1> QED BY <1>1, <1>2, <1>3, <1>4

\* A call of the key keeps the types.
LEMMA CallsTyped ==
    ASSUME Typed, NEW p \in Proc, Calls(p)
    PROVE proc' \in [Proc -> ProcState] /\ inflight' \in Proc \cup {"nobody"}
<1> DEFINE joined == [Idle EXCEPT !.pc = "joined", !.with = inflight]
<1>1. Having(memory) \in ProcState \/ memory = None
  BY RestingTyped DEF Typed
<1>2. joined \in ProcState
  <2>1. inflight \in Proc \cup {"nobody"} /\ Idle \in ProcState
    BY RestingTyped DEF Typed
  <2> QED BY <2>1 DEF ProcState
<1>3. [Idle EXCEPT !.pc = "key", !.attempt = 1] \in ProcState
  <2>1. Idle \in ProcState /\ 1 \in 0..Attempts
    BY RestingTyped, DataKeyAssumption
  <2> QED BY <2>1 DEF ProcState
<1> HIDE DEF joined
<1>4. \/ Become(p, Having(memory)) /\ memory # None
      \/ Become(p, joined) \/ Become(p, [Idle EXCEPT !.pc = "key", !.attempt = 1])
  BY DEF Calls, Having, joined
<1>5. proc' \in [Proc -> ProcState]
  BY <1>1, <1>2, <1>3, <1>4, BecomeTyped
<1> QED BY <1>5 DEF Calls, Typed

\* Making every resolution old keeps the types.
LEMMA OutdatedTyped == Typed => Outdated \in [Proc -> ProcState]
<1> SUFFICES ASSUME Typed, NEW p \in Proc
             PROVE  (IF proc[p].pc \in Resolving
                     THEN [proc[p] EXCEPT !.stale = TRUE] ELSE proc[p]) \in ProcState
  BY DEF Outdated
<1>1. proc[p] \in ProcState
  BY DEF Typed
<1> QED BY <1>1 DEF ProcState

\* Closing the connection under the calls keeps the types.
LEMMA CutTyped ==
    ASSUME NEW ps \in [Proc -> ProcState]
    PROVE Cut(ps) \in [Proc -> ProcState]
<1> SUFFICES ASSUME NEW p \in Proc
             PROVE  (IF ps[p].pc \in Resolving
                     THEN [ps[p] EXCEPT !.cut = TRUE] ELSE Idle) \in ProcState
  BY DEF Cut
<1>1. ps[p] \in ProcState
  OBVIOUS
<1> QED BY <1>1, RestingTyped DEF ProcState

\* The places of the opening.
OpeningPc == {"closed", "words", "key", "seal", "rewrap", "move", "keepseal",
              "keepkey", "mark", "unmove", "wrapback", "encrypt", "failing", "open"}

\* What the opening is set to has its type.
LEMMA OpeningTyped ==
    ASSUME Typed
    PROVE /\ Shut \in Opening
          /\ \A pc \in OpeningPc :
                /\ [opening EXCEPT !.pc = pc] \in Opening
                /\ [Shut EXCEPT !.pc = pc] \in Opening
                /\ \A k \in Key \cup {None} :
                      /\ [opening EXCEPT !.pc = pc, !.to = k] \in Opening
                      /\ [opening EXCEPT !.from = k, !.pc = pc] \in Opening
                /\ [opening EXCEPT !.pc = pc, !.moved = TRUE] \in Opening
<1>1. Shut \in Opening
  BY DEF Opening, Shut
<1>2. opening \in Opening
  BY DEF Typed
<1> SUFFICES ASSUME NEW pc \in OpeningPc
             PROVE  /\ [opening EXCEPT !.pc = pc] \in Opening
                    /\ [Shut EXCEPT !.pc = pc] \in Opening
                    /\ \A k \in Key \cup {None} :
                          /\ [opening EXCEPT !.pc = pc, !.to = k] \in Opening
                          /\ [opening EXCEPT !.from = k, !.pc = pc] \in Opening
                    /\ [opening EXCEPT !.pc = pc, !.moved = TRUE] \in Opening
  BY <1>1
<1>3. [opening EXCEPT !.pc = pc] \in Opening /\ [Shut EXCEPT !.pc = pc] \in Opening
  BY <1>1, <1>2 DEF Opening, OpeningPc
<1>4. ASSUME NEW k \in Key \cup {None}
      PROVE  /\ [opening EXCEPT !.pc = pc, !.to = k] \in Opening
             /\ [opening EXCEPT !.from = k, !.pc = pc] \in Opening
  BY <1>2 DEF Opening, OpeningPc
<1>5. [opening EXCEPT !.pc = pc, !.moved = TRUE] \in Opening
  BY <1>2 DEF Opening, OpeningPc
<1> QED BY <1>3, <1>4, <1>5

\* The migration's operations on the Keychain keep the types.
LEMMA MigrateTyped ==
    ASSUME Typed, NEW refused \in BOOLEAN, Migrate(refused)
    PROVE Typed'
<1>0. spent' \in Spent
  BY AnswersTyped DEF Migrate, OpenWords, OpenKey, OpenSeal, Rewrap, KeepSeal, KeepKey, WrapBack
<1>1. keychain \in Keychain /\ opening \in Opening
  BY DEF Typed
<1>2. CASE OpenWords(refused)
  <2>1. PICK words \in Key \cup {None, Refused} :
          /\ recall' \in Key \cup {None, Unasked}
          /\ opening' = CASE words = Refused -> [opening EXCEPT !.pc = "failing"]
                          [] words = None -> [opening EXCEPT !.pc = "encrypt"]
                          [] OTHER -> [opening EXCEPT !.pc = "key", !.to = words]
    BY <1>2, FoundTyped DEF OpenWords
  <2>2. opening' \in Opening
    <3>1. words # Refused => words \in Key \cup {None}
      OBVIOUS
    <3>2. CASE words = Refused
      BY <2>1, <3>2, OpeningTyped DEF OpeningPc
    <3>3. CASE words = None
      BY <2>1, <3>3, OpeningTyped, Distinct DEF OpeningPc
    <3>4. CASE words # None /\ words # Refused
      <4>1. opening' = [opening EXCEPT !.pc = "key", !.to = words]
        BY <2>1, <3>4
      <4> QED BY <3>1, <3>4, <4>1, OpeningTyped DEF OpeningPc
    <3> QED BY <3>2, <3>3, <3>4
  <2> QED BY <1>0, <1>2, <2>1, <2>2 DEF OpenWords, Typed, data
<1>3. CASE OpenKey(refused)
  <2>1. opening' \in Opening
    BY <1>1, <1>3, OpeningTyped DEF OpeningPc, OpenKey, Keychain
  <2> QED BY <1>0, <1>3, <2>1 DEF OpenKey, Typed, data
<1>4. CASE OpenSeal(refused)
  <2>1. opening' \in Opening
    BY <1>4, OpeningTyped DEF OpeningPc, OpenSeal, Opens
  <2> QED BY <1>0, <1>4, <2>1 DEF OpenSeal, Typed, data
<1>5. CASE Rewrap(refused)
  <2>1. opening' \in Opening
    BY <1>5, OpeningTyped DEF OpeningPc, Rewrap, Opens
  <2>2. keychain' \in Keychain
    BY <1>1, <1>5 DEF Rewrap, Keychain, Opening
  <2> QED BY <1>0, <1>5, <2>1, <2>2 DEF Rewrap, Typed, data
<1>6. CASE KeepSeal(refused)
  <2>1. opening' \in Opening
    BY <1>6, OpeningTyped DEF OpeningPc, KeepSeal, Opens
  <2>2. keychain' \in Keychain
    BY <1>1, <1>6 DEF KeepSeal, Keychain, Opening
  <2> QED BY <1>0, <1>6, <2>1, <2>2 DEF KeepSeal, Typed, data
<1>7. CASE KeepKey(refused)
  <2>1. opening' \in Opening
    BY <1>7, OpeningTyped DEF OpeningPc, KeepKey, Opens
  <2>2. keychain' \in Keychain /\ opening.to \in Key \cup {None}
    BY <1>1, <1>7 DEF KeepKey, Keychain, Opening
  <2> QED BY <1>0, <1>7, <2>1, <2>2, OutdatedTyped DEF KeepKey, SetMemory, Typed, data
<1>8. CASE WrapBack(refused)
  <2>1. opening' \in Opening
    BY <1>8, OpeningTyped DEF OpeningPc, WrapBack, Opens
  <2>2. keychain' \in Keychain /\ opening.from \in Key \cup {None}
    BY <1>1, <1>8 DEF WrapBack, Keychain, Opening
  <2> QED BY <1>0, <1>8, <2>1, <2>2, OutdatedTyped DEF WrapBack, SetMemory, Typed, data
<1> QED BY <1>2, <1>3, <1>4, <1>5, <1>6, <1>7, <1>8 DEF Migrate

\* Making or repairing the account keeps the types.
LEMMA WalletTyped ==
    ASSUME Typed, Shape, NEW refused \in BOOLEAN, SaveWords(refused) \/ SaveSecret(refused)
    PROVE Typed'
<1>1. keychain \in Keychain /\ spent \in Spent /\ proc["wallet"] \in ProcState
  BY Names DEF Typed
<1>2. CASE SaveWords(refused) /\ refused
  BY <1>2, AnswersTyped DEF SaveWords, Typed, data
<1>3. CASE SaveWords(refused) /\ ~refused
  <2> DEFINE mine == Derived(spent.accounts + 1)
  <2>1. spent.accounts + 1 \in 1..MaxAccounts
    BY <1>1, <1>3, DataKeyAssumption DEF SaveWords, Shape, Spent
  <2>2. /\ mine \in Key /\ mine \in {Derived(a) : a \in 1..MaxAccounts}
        /\ [keychain EXCEPT !.words = mine] \in Keychain
    BY <1>1, <2>1, Distinct DEF Keychain
  <2>3. [spent EXCEPT !.accounts = @ + 1] \in Spent
    BY <1>1, <2>1, DataKeyAssumption DEF Spent
  <2> QED BY <1>3, <2>2, <2>3, CallsTyped, Names DEF SaveWords, Typed, data
<1>4. CASE SaveSecret(refused)
  <2>1. [keychain EXCEPT !.secret = proc["wallet"].key] \in Keychain
    BY <1>1 DEF Keychain, ProcState
  <2>2. proc' \in [Proc -> ProcState]
    BY <1>4, BecomeTyped, RestingTyped, Names DEF SaveSecret
  <2> QED BY <1>1, <1>4, <2>1, <2>2, AnswersTyped DEF SaveSecret, Typed, data
<1> QED BY <1>2, <1>3, <1>4

\* The wipe's operations on the Keychain keep the types.
LEMMA WipesTyped ==
    ASSUME Typed, NEW refused \in BOOLEAN,
           WipeWords(refused) \/ WipeRecord(refused) \/ WipeAgain(refused)
    PROVE Typed'
<1>0. /\ keychain \in Keychain /\ spent \in Spent
      /\ odd \subseteq {"unsealed", "late", "leftover", "halfway"}
  BY DEF Typed
<1>1. CASE WipeWords(refused)
  <2>1. keychain' \in Keychain
    BY <1>0, <1>1 DEF WipeWords, Keychain
  <2> QED BY <1>0, <1>1, <2>1, AnswersTyped DEF WipeWords, Typed, data
<1>2. CASE WipeRecord(refused)
  <2>1. keychain' \in Keychain
    BY <1>0, <1>2 DEF WipeRecord, Without, Keychain
  <2>2. wiping' \in {"canary", "key", "files"}
    BY <1>2 DEF WipeRecord, Following
  <2> QED BY <1>0, <1>2, <2>1, <2>2, AnswersTyped DEF WipeRecord, Typed, data
<1>3. CASE WipeAgain(refused)
  <2>1. keychain' \in Keychain
    BY <1>0, <1>3 DEF WipeAgain, Without, Keychain
  <2>2. gone' \subseteq Key
    BY <1>0, <1>3, Distinct, DataKeyAssumption DEF WipeAgain, Spent
  <2> QED BY <1>0, <1>3, <2>1, <2>2, AnswersTyped DEF WipeAgain, Typed, data
<1> QED BY <1>1, <1>2, <1>3

\* Writing a row keeps the types.
LEMMA CallerTyped ==
    ASSUME Typed, Shape, NEW c \in Caller, Begin(c) \/ WriteRow(c)
    PROVE Typed'
<1>0. c \in Proc /\ disk \in Disk
  BY DEF Proc, Typed
<1>1. CASE Begin(c)
  BY <1>0, <1>1, CallsTyped DEF Begin, Typed, data
<1>2. CASE WriteRow(c)
  <2>1. proc' \in [Proc -> ProcState]
    BY <1>0, <1>2, BecomeTyped, RestingTyped DEF WriteRow
  <2>2. proc[c].key \in Key
    BY <1>0, <1>2 DEF WriteRow, Shape, ProcShape, Typed, ProcState
  <2>3. [disk EXCEPT !.rows = @ \cup {proc[c].key}] \in Disk
    BY <1>0, <2>2 DEF Disk
  <2> QED BY <1>0, <1>2, <2>1, <2>2, <2>3 DEF WriteRow, Typed
<1> QED BY <1>1, <1>2

\* Rows that are moved are under keys again.
LEMMA MovedTyped ==
    ASSUME NEW rows \in SUBSET Key, NEW from, NEW to \in Key
    PROVE Moved(rows, from, to) \in SUBSET Key
BY DEF Moved

\* Opening the database keeps the types.
LEMMA DatabaseTyped ==
    ASSUME Typed, Shape, NEW ok \in BOOLEAN,
           \/ Move(ok) \/ Unmove(ok) \/ Open \/ Mark \/ Encrypt \/ OpenFails \/ SeenLands
    PROVE Typed'
<1>0. disk \in Disk /\ opening \in Opening
  BY DEF Typed
<1>1. CASE Move(ok)
  <2>1. opening' \in Opening
    BY <1>1, OpeningTyped DEF Move, OpeningPc
  <2>2. disk' \in Disk
    BY <1>0, <1>1, MovedTyped DEF Move, Disk, Opening, Shape, Migrating
  <2> QED BY <1>0, <1>1, <2>1, <2>2 DEF Move, Typed
<1>2. CASE Unmove(ok)
  <2>1. opening' \in Opening
    BY <1>2, OpeningTyped DEF Unmove, Opens, OpeningPc
  <2>2. disk' \in Disk
    BY <1>0, <1>2, MovedTyped DEF Unmove, Disk, Opening, Shape, Migrating
  <2> QED BY <1>0, <1>2, <2>1, <2>2 DEF Unmove, Typed
<1>3. CASE Open
  <2>1. opening' \in Opening
    BY <1>3, OpeningTyped DEF Open, OpeningPc
  <2> QED BY <1>0, <1>3, <2>1 DEF Open, Typed, data
<1>4. CASE Mark
  <2>1. opening' \in Opening
    BY <1>4, OpeningTyped DEF Mark, Opens, OpeningPc
  <2>2. disk' \in Disk
    BY <1>0, <1>4 DEF Mark, Disk
  <2> QED BY <1>0, <1>4, <2>1, <2>2 DEF Mark, Typed
<1>5. CASE Encrypt
  <2>1. opening' \in Opening
    BY <1>0, <1>5, OpeningTyped DEF Encrypt, Opened, Opens, OpeningPc
  <2>2. disk' \in Disk
    BY <1>0, <1>5 DEF Encrypt, Disk
  <2>3. proc' \in [Proc -> ProcState] /\ inflight' \in Proc \cup {"nobody"}
    BY <1>5, CallsTyped, BecomeTyped, RestingTyped, Names DEF Encrypt, Opened, Typed
  <2> QED BY <1>0, <1>5, <2>1, <2>2, <2>3 DEF Encrypt, Typed
<1>6. CASE OpenFails
  <2>1. opening' \in Opening
    BY <1>6, OpeningTyped DEF OpenFails
  <2> QED BY <1>0, <1>6, <2>1 DEF OpenFails, Typed, data
<1>7. CASE SeenLands
  <2>1. disk' \in Disk
    BY <1>0, <1>7 DEF SeenLands, Disk
  <2> QED BY <1>0, <1>7, <2>1 DEF SeenLands, Typed
<1> QED BY <1>1, <1>2, <1>3, <1>4, <1>5, <1>6, <1>7

\* Disposing, onboarding, the wipe and the end of the process keep the types.
LEMMA AccountTyped ==
    ASSUME Typed, Shape,
           \/ Forget \/ Onboard \/ Recover \/ NoSecret \/ CloseForRestore
           \/ Wipe \/ WipeMemory \/ WipeUnseen \/ WipeFiles \/ Kill
    PROVE Typed'
<1>0. disk \in Disk /\ opening \in Opening /\ spent \in Spent /\ keychain \in Keychain
  BY DEF Typed
<1>1. CASE Forget
  <2>1. spent' \in Spent
    BY <1>0, <1>1, DataKeyAssumption DEF Forget, Spent
  <2> QED BY <1>1, <2>1, OutdatedTyped DEF Forget, SetMemory, Typed, data
<1>2. CASE Onboard
  BY <1>2 DEF Onboard, Typed, data
<1>3. CASE Recover
  BY <1>3, CallsTyped, Names DEF Recover, Typed, data
<1>4. CASE NoSecret
  <2>1. proc' \in [Proc -> ProcState]
    BY <1>4, BecomeTyped, RestingTyped, Names DEF NoSecret
  <2> QED BY <1>4, <2>1 DEF NoSecret, Typed, data
<1>5. CASE CloseForRestore
  <2>1. proc' \in [Proc -> ProcState] /\ opening' \in Opening
    BY <1>5, CutTyped, OpeningTyped DEF CloseForRestore, Typed
  <2> QED BY <1>5, <2>1 DEF CloseForRestore, Typed, data
<1>6. CASE Wipe
  <2>1. proc' \in [Proc -> ProcState] /\ opening' \in Opening
    BY <1>6, CutTyped, OutdatedTyped, OpeningTyped DEF Wipe, Typed
  <2>2. disk' \in Disk
    BY <1>0, <1>6 DEF Wipe, Disk
  <2> QED BY <1>6, <2>1, <2>2 DEF Wipe, SetMemory, Typed
<1>7. CASE WipeMemory
  BY <1>7, OutdatedTyped DEF WipeMemory, SetMemory, Typed, data
<1>8. CASE WipeUnseen
  <2>1. disk' \in Disk
    BY <1>0, <1>8 DEF WipeUnseen, Disk
  <2> QED BY <1>8, <2>1 DEF WipeUnseen, Typed
<1>9. CASE WipeFiles
  <2>1. disk' \in Disk /\ opening' \in Opening
    BY <1>9, OpeningTyped DEF WipeFiles, NewDisk, Disk
  <2> QED BY <1>9, <2>1 DEF WipeFiles, Typed
<1>10. CASE Kill
  <2>1. spent' \in Spent /\ keychain' \in Keychain
    <3>1. spent' \in Spent
      BY <1>0, <1>10, DataKeyAssumption DEF Kill, Spent
    <3>2. keychain' = [keychain EXCEPT !.sealer = "nobody"]
      BY <1>10 DEF Kill
    <3> QED BY <1>0, <3>1, <3>2 DEF Keychain
  <2>2. opening' \in Opening
    BY <1>10, OpeningTyped DEF Kill
  <2>3. proc' \in [Proc -> ProcState]
    BY <1>10, RestingTyped DEF Kill
  <2> QED BY <1>10, <2>1, <2>2, <2>3 DEF Kill, Typed, data
<1> QED BY <1>1, <1>2, <1>3, <1>4, <1>5, <1>6, <1>7, <1>8, <1>9, <1>10

-----------------------------------------------------------------------------
(* What an answer to a resolution comes to.                                *)

\* What resolving the key comes to with one answer: the promise is settled with a
\* key or without one, or the resolution goes on.
Settling(p, k) == Settles(p, k) /\ memory' = IF k = None THEN memory ELSE k
Continues(p, me) ==
    /\ Become(p, me) /\ UNCHANGED <<memory, inflight>>
    /\ me.pc \in Resolving /\ me.cut = proc[p].cut
    /\ me.stale => proc[p].stale
    /\ me.pc \in {"write", "seal", "look", "drop"} => me.key # None
    /\ me.pc \in {"look", "drop"} => me.wrote # {}
Outcome(p) ==
    \/ \E k \in Key \cup {None} : Settling(p, k)
    \/ \E me \in ProcState : Continues(p, me)

\* Who resolves once more goes without, takes the key in memory, or begins again.
LEMMA RestartsOutcome ==
    ASSUME Typed, NEW p \in Proc, Restarts(p)
    PROVE  \/ Settling(p, None) /\ odd' = odd \cup IF wiping = "rest" THEN {} ELSE {"late"}
           \/ memory # None /\ Settling(p, memory) /\ odd' = odd \cup IF wiping = "rest" THEN {} ELSE {"late"}
           \/ /\ memory = None /\ proc[p].attempt + 1 \in 0..Attempts
              /\ Again(proc[p].attempt + 1, proc[p].cut) \in ProcState
              /\ Continues(p, Again(proc[p].attempt + 1, proc[p].cut))
              /\ odd' = odd \cup IF wiping = "rest" THEN {} ELSE {"late"}
<1>0. odd' = odd \cup IF wiping = "rest" THEN {} ELSE {"late"}
  BY DEF Restarts
<1>1. CASE proc[p].attempt = Attempts
  BY <1>0, <1>1 DEF Restarts, Settling
<1>2. CASE proc[p].attempt # Attempts /\ memory # None
  BY <1>0, <1>2 DEF Restarts, Settling
<1>3. CASE proc[p].attempt # Attempts /\ memory = None
  <2>1. proc[p].attempt \in 0..Attempts /\ proc[p].cut \in BOOLEAN
    BY DEF Typed, ProcState
  <2>2. proc[p].attempt + 1 \in 0..Attempts
    BY <1>3, <2>1, DataKeyAssumption
  <2>3. Again(proc[p].attempt + 1, proc[p].cut) \in ProcState
    BY <2>1, <2>2, RestingTyped
  <2>4. /\ Again(proc[p].attempt + 1, proc[p].cut).pc = "key"
        /\ Again(proc[p].attempt + 1, proc[p].cut).cut = proc[p].cut
        /\ ~Again(proc[p].attempt + 1, proc[p].cut).stale
    BY DEF Again, Idle
  <2> QED BY <1>0, <1>3, <2>2, <2>3, <2>4 DEF Restarts, Again, Continues, Resolving
<1> QED BY <1>1, <1>2, <1>3

\* Deciding settles on a key that was chosen, writes it, seals it, or goes without.
LEMMA DecidesOutcome ==
    ASSUME Typed, NEW p \in Proc, NEW me \in ProcState, NEW words, Decides(p, me, words)
    PROVE \/ Settling(p, None) /\ odd' = odd
          \/ me.stale /\ Restarts(p)
          \/ \E k \in Chosen(me.stored, me.canary, words) :
                /\ k \in Key /\ ~me.stale
                /\ \/ /\ k # me.stored /\ UNCHANGED <<memory, inflight, odd>>
                      /\ Become(p, [me EXCEPT !.pc = "write", !.key = k])
                   \/ /\ k = me.stored /\ me.canary = None /\ UNCHANGED <<memory, inflight, odd>>
                      /\ Become(p, [me EXCEPT !.pc = "seal", !.key = k])
                   \/ /\ k = me.stored /\ me.canary # None /\ Settling(p, k)
                      /\ odd' = IF me.canary = Refused THEN odd \cup {"unsealed"} ELSE odd
<1> DEFINE found == Chosen(me.stored, me.canary, words)
           k == CHOOSE f \in found : TRUE
<1>1. CASE found = {}
  BY <1>1 DEF Decides, GoesWithout, Settling
<1>2. CASE found # {} /\ me.stale
  BY <1>2 DEF Decides
<1>3. CASE found # {} /\ ~me.stale
  <2>1. k \in found /\ k \in Key /\ k # None
    BY <1>3, ChosenTyped, Distinct
  <2> HIDE DEF k, found
  <2>2. CASE k # me.stored
    <3>1. Goes(p, [me EXCEPT !.pc = "write", !.key = k])
      BY <1>3, <2>2 DEF Decides, k, found
    <3> QED BY <1>3, <2>1, <2>2, <3>1 DEF Goes, found
  <2>3. CASE k = me.stored /\ me.canary = None
    <3>1. Goes(p, [me EXCEPT !.pc = "seal", !.key = k])
      BY <1>3, <2>3 DEF Decides, k, found
    <3> QED BY <1>3, <2>1, <2>3, <3>1 DEF Goes, found
  <2>4. CASE k = me.stored /\ me.canary # None
    <3>1. /\ Settles(p, k) /\ memory' = k
          /\ odd' = IF me.canary = Refused THEN odd \cup {"unsealed"} ELSE odd
      BY <1>3, <2>4 DEF Decides, k, found
    <3> QED BY <1>3, <2>1, <2>4, <3>1 DEF Settling, found
  <2> QED BY <2>2, <2>3, <2>4
<1> QED BY <1>1, <1>2, <1>3

\* Resolving once more is one of the outcomes.
LEMMA RestartsOut == ASSUME Typed, NEW p \in Proc, Restarts(p) PROVE Outcome(p)
<1>1. memory \in Key \cup {None}
  BY DEF Typed
<1> QED BY <1>1, RestartsOutcome DEF Outcome

\* Deciding is one of the outcomes.
LEMMA DecidesOut ==
    ASSUME Typed, NEW p \in Proc, NEW me \in ProcState, me.cut = proc[p].cut,
           me.stale = proc[p].stale, NEW words, Decides(p, me, words)
    PROVE Outcome(p)
<1>1. CASE Settling(p, None)
  BY <1>1 DEF Outcome
<1>2. CASE Restarts(p)
  BY <1>2, RestartsOut
<1>3. CASE \E k \in Key : Settling(p, k)
  BY <1>3 DEF Outcome
<1>4. CASE \E k \in Key, pc \in {"write", "seal"} :
             Become(p, [me EXCEPT !.pc = pc, !.key = k]) /\ UNCHANGED <<memory, inflight>>
  <2>1. PICK k \in Key, pc \in {"write", "seal"} :
             Become(p, [me EXCEPT !.pc = pc, !.key = k]) /\ UNCHANGED <<memory, inflight>>
    BY <1>4
  <2> DEFINE you == [me EXCEPT !.pc = pc, !.key = k]
  <2>2. /\ you \in ProcState /\ you.pc = pc /\ you.cut = me.cut
        /\ you.stale = me.stale /\ you.key = k /\ k # None
    BY Distinct DEF ProcState
  <2> HIDE DEF you
  <2>3. Become(p, you) /\ UNCHANGED <<memory, inflight>>
    BY <2>1 DEF you
  <2> QED BY <2>2, <2>3 DEF Continues, Outcome, Resolving
<1> QED BY <1>1, <1>2, <1>3, <1>4, DecidesOutcome

\* What follows a write is one of the outcomes.
LEMMA ConcludedOut ==
    ASSUME Typed, NEW p \in Proc, NEW me \in ProcState, me.cut = proc[p].cut, me.key # None,
           me.stale = proc[p].stale, Concluded(p, me)
    PROVE Outcome(p)
<1>1. CASE ~me.stale
  <2>1. me.key \in Key /\ Settling(p, me.key)
    BY <1>1 DEF Concluded, Gets, Settling, ProcState
  <2> QED BY <2>1 DEF Outcome
<1>2. CASE me.stale /\ me.wrote # {}
  <2> DEFINE you == [me EXCEPT !.pc = "look"]
  <2>1. /\ you \in ProcState /\ you.pc = "look" /\ you.cut = me.cut /\ you.wrote = me.wrote
        /\ you.stale = me.stale /\ you.key = me.key
    BY DEF ProcState
  <2>2. Goes(p, you)
    BY <1>2 DEF Concluded
  <2> HIDE DEF you
  <2> QED BY <1>2, <2>1, <2>2 DEF Goes, Continues, Outcome, Resolving
<1>3. CASE me.stale /\ me.wrote = {}
  BY <1>3, RestartsOut DEF Concluded
<1> QED BY <1>1, <1>2, <1>3

\* What follows a look is one of the outcomes.
LEMMA LookedOut ==
    ASSUME Typed, NEW p \in Proc, Looked(p), proc[p].key # None
    PROVE Outcome(p)
<1> DEFINE me == [proc[p] EXCEPT !.wrote = @ \ {Item(proc[p])}]
           you == [me EXCEPT !.pc = "look"]
<1>1. proc[p] \in ProcState
  BY DEF Typed
<1>2. /\ you \in ProcState /\ you.pc = "look" /\ you.cut = proc[p].cut /\ you.wrote = me.wrote
      /\ you.stale = proc[p].stale /\ you.key = proc[p].key
  BY <1>1 DEF ProcState
<1>3. (Restarts(p) \/ Goes(p, you)) /\ (Goes(p, you) /\ ~Restarts(p) => me.wrote # {})
  BY DEF Looked
<1> HIDE DEF me, you
<1> QED BY <1>2, <1>3, RestartsOut DEF Goes, Continues, Outcome, Resolving

\* Every answer to who resolves the key has one of the outcomes.
LEMMA ResolveOut ==
    ASSUME Typed, Shape, NEW p \in Proc, NEW refused \in BOOLEAN, Resolve(p, refused)
    PROVE proc[p].pc \in Resolving /\ Outcome(p)
<1>0. proc[p] \in ProcState /\ keychain \in Keychain
  BY DEF Typed
<1>1. CASE ReadKey(p, refused)
  <2> DEFINE me == [proc[p] EXCEPT !.pc = "canary",
                                   !.stored = IF refused THEN Refused ELSE keychain.key]
  <2>1. me \in ProcState /\ me.pc = "canary" /\ me.cut = proc[p].cut /\ me.stale = proc[p].stale
    BY <1>0 DEF ProcState, Stored, Keychain
  <2>2. Goes(p, me) /\ proc[p].pc = "key"
    BY <1>1 DEF ReadKey
  <2> HIDE DEF me
  <2> QED BY <2>1, <2>2 DEF Goes, Continues, Outcome, Resolving
<1>2. CASE ReadCanary(p, refused)
  <2> DEFINE had == IF refused THEN Refused ELSE keychain.canary
             me == [proc[p] EXCEPT !.canary = had]
             you == [me EXCEPT !.pc = "words"]
  <2>0. had \in Stored
    BY <1>0 DEF Stored, Keychain
  <2> HIDE DEF had
  <2>1. /\ me \in ProcState /\ me.cut = proc[p].cut /\ me.pc = proc[p].pc
        /\ me.stale = proc[p].stale
    BY <1>0, <2>0 DEF ProcState
  <2>3. you \in ProcState /\ you.pc = "words" /\ you.cut = proc[p].cut /\ you.stale = proc[p].stale
    <3> HIDE DEF me
    <3> QED BY <2>1 DEF ProcState
  <2>2. (Decides(p, me, None) \/ Goes(p, you)) /\ me.pc = "canary"
    BY <1>2 DEF ReadCanary, had
  <2> HIDE DEF me, you
  <2> QED BY <2>1, <2>2, <2>3, DecidesOut DEF Goes, Continues, Outcome, Resolving
<1>3. CASE ReadWords(p, refused)
  <2>1. proc[p].pc = "words" /\ \E words : Decides(p, proc[p], words)
    BY <1>3 DEF ReadWords
  <2> QED BY <1>0, <2>1, DecidesOut DEF Resolving
<1>4. CASE WriteKey(p, refused)
  <2> DEFINE me == [proc[p] EXCEPT !.wrote = {"key"}]
             you == [me EXCEPT !.pc = "seal"]
  <2>1. /\ me \in ProcState /\ me.cut = proc[p].cut /\ me.key = proc[p].key
        /\ you \in ProcState /\ you.pc = "seal" /\ you.cut = proc[p].cut
        /\ me.stale = proc[p].stale /\ you.stale = proc[p].stale /\ you.key = proc[p].key
    BY <1>0 DEF ProcState
  <2>2. (GoesWithout(p) \/ Goes(p, you) \/ Concluded(p, me)) /\ proc[p].pc = "write"
    BY <1>4 DEF WriteKey
  <2> HIDE DEF me, you
  <2>3. me.key # None
    BY <2>1, <2>2 DEF Shape, ProcShape
  <2>4. CASE GoesWithout(p)
    BY <2>2, <2>4 DEF GoesWithout, Settling, Outcome, Resolving
  <2>5. CASE Goes(p, you)
    BY <2>1, <2>2, <2>3, <2>5 DEF Goes, Continues, Outcome, Resolving
  <2> QED BY <2>1, <2>2, <2>3, <2>4, <2>5, ConcludedOut DEF Resolving
<1>5. CASE Seal(p, refused)
  <2> DEFINE me == [proc[p] EXCEPT !.wrote = IF refused THEN @ ELSE @ \cup {"canary"}]
  <2>1. /\ me \in ProcState /\ me.cut = proc[p].cut /\ me.key = proc[p].key
        /\ me.stale = proc[p].stale
    BY <1>0 DEF ProcState
  <2>2. Concluded(p, me) /\ proc[p].pc = "seal"
    BY <1>5 DEF Seal
  <2> HIDE DEF me
  <2>3. me.key # None
    BY <2>1, <2>2 DEF Shape, ProcShape
  <2> QED BY <2>1, <2>2, <2>3, ConcludedOut DEF Resolving
<1>6. CASE Look(p, refused)
  <2> DEFINE you == [proc[p] EXCEPT !.pc = "drop"]
  <2>1. /\ you \in ProcState /\ you.pc = "drop" /\ you.cut = proc[p].cut
        /\ you.wrote = proc[p].wrote /\ you.stale = proc[p].stale /\ you.key = proc[p].key
    BY <1>0 DEF ProcState
  <2>2. (Looked(p) \/ Goes(p, you)) /\ proc[p].pc = "look" /\ proc[p].wrote # {} /\ proc[p].key # None
    BY <1>6 DEF Look, Shape, ProcShape
  <2> HIDE DEF you
  <2> QED BY <2>1, <2>2, LookedOut DEF Goes, Continues, Outcome, Resolving
<1>7. CASE Drop(p, refused)
  BY <1>7, LookedOut DEF Drop, Resolving, Shape, ProcShape
<1> QED BY <1>1, <1>2, <1>3, <1>4, <1>5, <1>6, <1>7 DEF Resolve

-----------------------------------------------------------------------------
(* The shape is kept.                                                      *)

\* Each outcome keeps the calls in shape, and leaves the opening and the onboarding
\* their calls.
LEMMA OutcomeShape ==
    ASSUME Typed, Shape, NEW p \in Proc, proc[p].pc \in Resolving, Outcome(p)
    PROVE /\ \A q \in Proc : ProcShape(q, proc'[q])
          /\ \A q \in {"opening", "wallet"} : proc'[q].pc = "idle" <=> proc[q].pc = "idle"
<1>0. proc \in [Proc -> ProcState]
  BY DEF Typed
<1>1. ASSUME NEW k \in Key \cup {None}, Settling(p, k), NEW q \in Proc
      PROVE  /\ ProcShape(q, proc'[q])
             /\ q \in {"opening", "wallet"} => (proc'[q].pc = "idle" <=> proc[q].pc = "idle")
  <2>1. ProcShape(q, proc[q])
    BY DEF Shape
  <2>2. CASE q = p \/ (proc[q].pc = "joined" /\ proc[q].with = p)
    <3>1. proc[q].pc # "idle"
      BY <2>2 DEF Resolving
    <3>2. proc'[q] = IF proc[q].cut THEN Idle ELSE
                      IF k # None THEN Having(k) ELSE
                      IF q \in Caller THEN Idle ELSE Failed
      BY <1>1, <2>2, SettlesIs DEF Settling
    <3>3. q \in {"opening", "wallet"} => q \notin Caller /\ ~proc[q].cut
      BY <2>1, Names DEF ProcShape
    <3> QED BY <2>1, <3>1, <3>2, <3>3, IdleIs DEF ProcShape
  <2>3. CASE ~(q = p \/ (proc[q].pc = "joined" /\ proc[q].with = p))
    BY <1>1, <2>1, <2>3, SettlesIs DEF Settling
  <2> QED BY <2>2, <2>3
<1>2. ASSUME NEW me \in ProcState, Continues(p, me), NEW q \in Proc
      PROVE  /\ ProcShape(q, proc'[q])
             /\ q \in {"opening", "wallet"} => (proc'[q].pc = "idle" <=> proc[q].pc = "idle")
  <2>1. ProcShape(q, proc[q])
    BY DEF Shape
  <2>2. proc'[q] = IF q = p THEN me ELSE proc[q]
    BY <1>0, <1>2 DEF Continues, Become
  <2> QED BY <1>2, <2>1, <2>2 DEF ProcShape, Continues, Resolving
<1> QED BY <1>1, <1>2, Names DEF Outcome

\* A call takes the key from memory, joins, or begins to resolve.
LEMMA CallsShape ==
    ASSUME Typed, Shape, NEW p \in Proc, Calls(p)
    PROVE /\ \A q \in Proc : ProcShape(q, proc'[q])
          /\ proc'[p].pc # "idle"
          /\ \A q \in Proc : q # p => proc'[q] = proc[q]
          /\ \/ memory # None /\ proc'[p] = Having(memory) /\ inflight' = inflight
             \/ /\ memory = None /\ inflight # "nobody" /\ inflight' = inflight
                /\ proc'[p].pc = "joined" /\ proc'[p] = [Idle EXCEPT !.pc = "joined", !.with = inflight]
             \/ /\ memory = None /\ inflight = "nobody" /\ inflight' = p
                /\ proc'[p] = Again(1, FALSE)
<1>0. proc \in [Proc -> ProcState]
  BY DEF Typed
<1> DEFINE joined == [Idle EXCEPT !.pc = "joined", !.with = inflight]
<1>1. joined.pc = "joined" /\ ~joined.cut
  BY DEF Idle
<1>2. Again(1, FALSE).pc = "key" /\ ~Again(1, FALSE).cut
  BY DEF Again, Idle
<1>3. [Idle EXCEPT !.pc = "key", !.attempt = 1] = Again(1, FALSE)
  <2> DEFINE here == [Idle EXCEPT !.pc = "key", !.attempt = 1]
  <2>1. Idle \in ProcState /\ ~Idle.cut /\ 1 \in 0..Attempts
    BY RestingTyped, IdleIs, DataKeyAssumption
  <2>2. here \in ProcState /\ Again(1, FALSE) = [here EXCEPT !.cut = FALSE] /\ here.cut = FALSE
    BY <2>1 DEF Again, ProcState
  <2> HIDE DEF here
  <2>3. [here EXCEPT !.cut = FALSE] = here
    BY <2>2 DEF ProcState
  <2> QED BY <2>2, <2>3 DEF here
<1>4. \/ memory # None /\ Become(p, Having(memory)) /\ inflight' = inflight
      \/ memory = None /\ inflight # "nobody" /\ Become(p, joined) /\ inflight' = inflight
      \/ memory = None /\ inflight = "nobody" /\ Become(p, Again(1, FALSE)) /\ inflight' = p
  BY <1>3 DEF Calls, Having
<1>5. \A me : Become(p, me) => proc'[p] = me /\ \A q \in Proc : q # p => proc'[q] = proc[q]
  BY <1>0 DEF Become
<1>6. \A q \in Proc : ProcShape(q, proc[q])
  BY DEF Shape
<1> HIDE DEF joined
<1>7. /\ memory # None => ProcShape(p, Having(memory))
      /\ ProcShape(p, joined) /\ ProcShape(p, Again(1, FALSE))
  BY <1>1, <1>2, IdleIs DEF ProcShape
<1>8. CASE memory # None /\ Become(p, Having(memory)) /\ inflight' = inflight
  BY <1>5, <1>6, <1>7, <1>8, IdleIs
<1>9. CASE memory = None /\ inflight # "nobody" /\ Become(p, joined) /\ inflight' = inflight
  BY <1>1, <1>5, <1>6, <1>7, <1>9 DEF joined
<1>10. CASE memory = None /\ inflight = "nobody" /\ Become(p, Again(1, FALSE)) /\ inflight' = p
  BY <1>2, <1>5, <1>6, <1>7, <1>10
<1> QED BY <1>4, <1>8, <1>9, <1>10

\* Making a resolution old changes nothing else of it.
LEMMA OutdatedShape ==
    ASSUME Typed, Shape
    PROVE \A q \in Proc : /\ ProcShape(q, Outdated[q])
                          /\ Outdated[q].pc = proc[q].pc
                          /\ Outdated[q].key = proc[q].key
                          /\ Outdated[q].stored = proc[q].stored
                          /\ Outdated[q].canary = proc[q].canary
                          /\ Outdated[q].wrote = proc[q].wrote
                          /\ Outdated[q].cut = proc[q].cut
                          /\ Outdated[q].pc \in Resolving => Outdated[q].stale
                          /\ Outdated[q].pc \notin Resolving => Outdated[q] = proc[q]
<1> SUFFICES ASSUME NEW q \in Proc
             PROVE  /\ ProcShape(q, Outdated[q])
                    /\ Outdated[q].pc = proc[q].pc
                    /\ Outdated[q].key = proc[q].key
                    /\ Outdated[q].stored = proc[q].stored
                    /\ Outdated[q].canary = proc[q].canary
                    /\ Outdated[q].wrote = proc[q].wrote
                    /\ Outdated[q].cut = proc[q].cut
                    /\ Outdated[q].pc \in Resolving => Outdated[q].stale
                    /\ Outdated[q].pc \notin Resolving => Outdated[q] = proc[q]
  OBVIOUS
<1>1. proc[q] \in ProcState /\ ProcShape(q, proc[q])
  BY DEF Typed, Shape
<1>2. Outdated[q] = IF proc[q].pc \in Resolving
                    THEN [proc[q] EXCEPT !.stale = TRUE] ELSE proc[q]
  BY DEF Outdated
<1> QED BY <1>1, <1>2 DEF ProcShape, ProcState, Resolving

\* Closing the connection marks who resolves, and stops everybody else.
LEMMA CutIs ==
    ASSUME NEW ps \in [Proc -> ProcState], NEW q \in Proc
    PROVE \/ /\ ps[q].pc \in Resolving /\ Cut(ps)[q].pc = ps[q].pc /\ Cut(ps)[q].cut
             /\ Cut(ps)[q].key = ps[q].key /\ Cut(ps)[q].wrote = ps[q].wrote
             /\ Cut(ps)[q].stored = ps[q].stored /\ Cut(ps)[q].canary = ps[q].canary
             /\ Cut(ps)[q].stale = ps[q].stale
          \/ ps[q].pc \notin Resolving /\ Cut(ps)[q] = Idle
<1>1. ps[q] \in ProcState
  OBVIOUS
<1>2. Cut(ps)[q] = IF ps[q].pc \in Resolving
                   THEN [ps[q] EXCEPT !.cut = TRUE] ELSE Idle
  BY DEF Cut
<1> QED BY <1>1, <1>2 DEF ProcState

\* Closing the connection keeps the calls in shape.
LEMMA CutShape ==
    ASSUME NEW ps \in [Proc -> ProcState], \A q \in Proc : ProcShape(q, ps[q]),
           \A q \in {"opening", "wallet"} : ps[q].pc = "idle"
    PROVE \A q \in Proc : /\ ProcShape(q, Cut(ps)[q])
                          /\ q \in {"opening", "wallet"} => Cut(ps)[q].pc = "idle"
<1> SUFFICES ASSUME NEW q \in Proc
             PROVE  /\ ProcShape(q, Cut(ps)[q])
                    /\ q \in {"opening", "wallet"} => Cut(ps)[q].pc = "idle"
  OBVIOUS
<1> QED BY CutIs, IdleIs DEF ProcShape, Resolving

\* Resolving the key keeps the shape.
LEMMA ResolveShape ==
    ASSUME Typed, Shape, NEW p \in Proc, NEW refused \in BOOLEAN, Resolve(p, refused)
    PROVE Shape'
<1>1. /\ \A q \in Proc : ProcShape(q, proc'[q])
      /\ \A q \in {"opening", "wallet"} : proc'[q].pc = "idle" <=> proc[q].pc = "idle"
  BY ResolveOut, OutcomeShape
<1>2. UNCHANGED <<opening, wallet, wiping, disk>>
  BY DEF Resolve, ReadKey, ReadCanary, ReadWords, WriteKey, Seal, Look, Drop, data
<1>3. spent'.accounts = spent.accounts
  <2>1. spent \in Spent
    BY DEF Typed
  <2> QED BY <2>1 DEF Resolve, ReadKey, ReadCanary, ReadWords, WriteKey, Seal, Look, Drop,
                      Answers, Spent
<1> QED BY <1>1, <1>2, <1>3 DEF Shape

\* The migration keeps the shape.
LEMMA MigrateShape ==
    ASSUME Typed, Shape, NEW refused \in BOOLEAN, Migrate(refused)
    PROVE Shape'
<1>0. opening \in Opening /\ keychain \in Keychain
  BY DEF Typed
<1>a. proc["opening"].pc = "idle" /\ opening.pc # "open" /\ wallet = "rest"
  BY DEF Migrate, OpenWords, OpenKey, OpenSeal, Rewrap, KeepSeal, KeepKey, WrapBack, Shape
<1>b. UNCHANGED <<wallet, wiping, disk>> /\ spent'.accounts = spent.accounts
  <2>1. spent \in Spent
    BY DEF Typed
  <2> QED BY <2>1 DEF Migrate, OpenWords, OpenKey, OpenSeal, Rewrap, KeepSeal, KeepKey,
                      WrapBack, Answers, data, Spent
<1>c. proc' = proc \/ proc' = Outdated
  BY DEF Migrate, OpenWords, OpenKey, OpenSeal, Rewrap, KeepSeal, KeepKey, WrapBack
<1>d. /\ \A q \in Proc : ProcShape(q, proc'[q])
      /\ proc'["opening"].pc = proc["opening"].pc /\ proc'["wallet"].pc = proc["wallet"].pc
  BY <1>c, OutdatedShape, Names DEF Shape
<1> SUFFICES /\ opening'.pc \in Migrating => opening'.to # None
             /\ opening'.pc \in {"rewrap", "move", "unmove", "wrapback"} \/ opening'.moved =>
                   opening'.from # None
             /\ opening'.pc \in {"words", "key", "seal", "rewrap", "move"} => ~opening'.moved
  BY <1>a, <1>b, <1>d DEF Shape
<1> USE DEF Shape, Migrating
<1>1. CASE OpenWords(refused)
  <2>1. PICK words : opening' = CASE words = Refused -> [opening EXCEPT !.pc = "failing"]
                                  [] words = None -> [opening EXCEPT !.pc = "encrypt"]
                                  [] OTHER -> [opening EXCEPT !.pc = "key", !.to = words]
    BY <1>1 DEF OpenWords
  <2>2. ~opening.moved
    BY <1>1 DEF OpenWords
  <2>3. CASE words = Refused
    BY <1>0, <2>1, <2>2, <2>3 DEF Opening
  <2>4. CASE words = None
    BY <1>0, <2>1, <2>2, <2>4, Distinct DEF Opening
  <2>5. CASE words # None /\ words # Refused
    <3>1. opening' = [opening EXCEPT !.pc = "key", !.to = words]
      BY <2>1, <2>5
    <3> QED BY <1>0, <2>2, <2>5, <3>1 DEF Opening
  <2> QED BY <2>3, <2>4, <2>5
<1>2. CASE OpenKey(refused)
  BY <1>0, <1>2 DEF OpenKey, Opening
<1>3. CASE OpenSeal(refused)
  BY <1>0, <1>3 DEF OpenSeal, Opens, Opening
<1>4. CASE Rewrap(refused)
  BY <1>0, <1>4 DEF Rewrap, Opens, Opening
<1>5. CASE KeepSeal(refused)
  BY <1>0, <1>5 DEF KeepSeal, Opens, Opening
<1>6. CASE KeepKey(refused)
  BY <1>0, <1>6 DEF KeepKey, Opens, Opening
<1>7. CASE WrapBack(refused)
  BY <1>0, <1>7 DEF WrapBack, Opens, Opening
<1> QED BY <1>1, <1>2, <1>3, <1>4, <1>5, <1>6, <1>7 DEF Migrate

\* A call that is over leaves the others alone.
LEMMA BecomeIdle ==
    ASSUME Typed, Shape, NEW p \in Proc, Become(p, Idle)
    PROVE /\ \A q \in Proc : ProcShape(q, proc'[q])
          /\ proc'[p] = Idle /\ proc'[p].pc = "idle"
          /\ \A q \in Proc : q # p => proc'[q] = proc[q]
<1>1. proc' = [proc EXCEPT ![p] = Idle] /\ proc \in [Proc -> ProcState]
  BY DEF Become, Typed
<1> QED BY <1>1, IdleIs DEF Shape, ProcShape

\* Making or repairing the account keeps the shape.
LEMMA WalletShape ==
    ASSUME Typed, Shape, NEW refused \in BOOLEAN, SaveWords(refused) \/ SaveSecret(refused)
    PROVE Shape'
<1>1. CASE SaveWords(refused) /\ refused
  <2>1. spent'.accounts = spent.accounts
    BY <1>1 DEF SaveWords, Answers, Typed, Spent
  <2> QED BY <1>1, <2>1 DEF SaveWords, Shape, data
<1>2. CASE SaveWords(refused) /\ ~refused
  <2>1. Calls("wallet") /\ wallet' = "secret" /\ wallet = "words"
        /\ UNCHANGED <<opening, wiping, disk>>
    BY <1>2 DEF SaveWords, data
  <2> QED BY <2>1, CallsShape, Names DEF Shape
<1>3. CASE SaveSecret(refused)
  <2>1. spent'.accounts = spent.accounts
    BY <1>3 DEF SaveSecret, Answers, Typed, Spent
  <2>2. Become("wallet", Idle) /\ wallet' \in {"rest", "close"} /\ wallet \in {"secret", "repair"}
        /\ UNCHANGED <<opening, wiping, disk>>
    BY <1>3 DEF SaveSecret, data
  <2> QED BY <2>1, <2>2, BecomeIdle, Names DEF Shape
<1> QED BY <1>1, <1>2, <1>3

\* The wipe's operations keep the shape.
LEMMA WipesShape ==
    ASSUME Typed, Shape, NEW refused \in BOOLEAN,
           WipeWords(refused) \/ WipeRecord(refused) \/ WipeAgain(refused)
    PROVE Shape'
<1>1. UNCHANGED <<opening, wallet, proc, disk>> /\ wallet = "rest"
  BY DEF WipeWords, WipeRecord, WipeAgain, Shape, data
<1> QED BY <1>1 DEF Shape

\* Writing a row keeps the shape.
LEMMA CallerShape ==
    ASSUME Typed, Shape, NEW c \in Caller, Begin(c) \/ WriteRow(c)
    PROVE Shape'
<1>0. c \in Proc /\ c # "opening" /\ c # "wallet"
  BY Names DEF Proc
<1>1. CASE Begin(c)
  <2>1. Calls(c) /\ UNCHANGED <<opening, wallet, wiping, disk, spent>>
    BY <1>1 DEF Begin, data
  <2> QED BY <1>0, <2>1, CallsShape, Names DEF Shape
<1>2. CASE WriteRow(c)
  <2>1. Become(c, Idle) /\ UNCHANGED <<opening, wallet, wiping, spent>>
        /\ disk'.encrypted = disk.encrypted
    BY <1>2 DEF WriteRow, Typed, Disk
  <2> QED BY <1>0, <2>1, BecomeIdle, Names DEF Shape
<1> QED BY <1>1, <1>2

\* Opening the database keeps the shape.
LEMMA DatabaseShape ==
    ASSUME Typed, Shape, NEW ok \in BOOLEAN,
           Move(ok) \/ Unmove(ok) \/ Forget \/ Open \/ Mark \/ OpenFails
    PROVE Shape'
<1>0. opening \in Opening /\ disk \in Disk /\ spent \in Spent
  BY DEF Typed
<1>1. CASE Move(ok)
  BY <1>0, <1>1 DEF Move, Shape, Opening, Migrating, Disk
<1>2. CASE Unmove(ok)
  BY <1>0, <1>2 DEF Unmove, Opens, Shape, Opening, Migrating, Disk
<1>3. CASE Forget
  <2>1. proc' = Outdated /\ UNCHANGED <<opening, wallet, wiping, disk>>
        /\ spent'.accounts = spent.accounts
    BY <1>0, <1>3 DEF Forget, data, Spent
  <2> QED BY <2>1, OutdatedShape, Names DEF Shape
<1>4. CASE Open
  <2>1. opening'.pc \in {"encrypt", "words"} /\ ~opening'.moved
        /\ UNCHANGED <<wallet, wiping, proc, disk, spent>> /\ wallet = "rest" /\ opening.pc = "closed"
    BY <1>4 DEF Open, Shut, data
  <2> QED BY <2>1 DEF Shape, Migrating
<1>5. CASE Mark
  BY <1>0, <1>5 DEF Mark, Opens, Shape, Opening, Migrating, Disk
<1>6. CASE OpenFails
  BY <1>0, <1>6 DEF OpenFails, Shape, Shut, Migrating, data
<1> QED BY <1>1, <1>2, <1>3, <1>4, <1>5, <1>6

\* The first encryption keeps the shape.
LEMMA EncryptShape == ASSUME Typed, Shape, Encrypt PROVE Shape'
<1>0. opening \in Opening /\ disk \in Disk
  BY DEF Typed
<1>1. UNCHANGED <<wallet, wiping, spent>> /\ opening.pc = "encrypt" /\ wallet = "rest"
  BY DEF Encrypt, Shape
<1>2. CASE Opened
  <2>1. opening'.pc = "open" /\ ~opening'.moved /\ Become("opening", Idle)
    BY <1>2 DEF Opened, Shut
  <2> QED BY <1>1, <2>1, BecomeIdle, Names DEF Shape, Migrating
<1>3. CASE Calls("opening") /\ ~disk.encrypted /\ UNCHANGED <<opening, disk>>
  BY <1>1, <1>3, CallsShape, Names DEF Shape
<1>4. CASE Become("opening", Idle) /\ Opens("failing") /\ UNCHANGED disk
  <2>1. opening'.pc = "failing" /\ opening'.moved = opening.moved /\ opening'.from = opening.from
    BY <1>0, <1>4 DEF Opens, Opening
  <2> QED BY <1>1, <1>4, <2>1, BecomeIdle, Names DEF Shape, Migrating
<1> QED BY <1>2, <1>3, <1>4 DEF Encrypt

\* Onboarding, the wipe and the end of the process keep the shape.
LEMMA AccountShape ==
    ASSUME Typed, Shape,
           \/ Onboard \/ Recover \/ NoSecret \/ CloseForRestore \/ SeenLands
           \/ Wipe \/ WipeMemory \/ WipeUnseen \/ WipeFiles \/ Kill
    PROVE Shape'
<1>0. disk \in Disk /\ spent \in Spent /\ proc \in [Proc -> ProcState] /\ Outdated \in [Proc -> ProcState]
  BY OutdatedTyped DEF Typed
<1>a. \A q \in Proc : ProcShape(q, proc[q])
  BY DEF Shape
<1>b. Shut.pc = "closed" /\ ~Shut.moved
  BY DEF Shut
<1>1. CASE Onboard
  BY <1>1 DEF Onboard, Shape, data
<1>2. CASE Recover
  <2>1. Calls("wallet") /\ wallet' = "repair" /\ UNCHANGED <<opening, wiping, disk, spent>>
        /\ opening.pc = "open" /\ wiping = "rest"
    BY <1>2 DEF Recover, data
  <2> QED BY <2>1, CallsShape, Names DEF Shape
<1>3. CASE NoSecret
  <2>1. Become("wallet", Idle) /\ wallet' = "rest" /\ UNCHANGED <<opening, wiping, disk, spent>>
    BY <1>3 DEF NoSecret, data
  <2> QED BY <2>1, BecomeIdle, Names DEF Shape
<1>4. CASE CloseForRestore
  <2>1. proc' = Cut(proc) /\ opening' = Shut /\ wallet' = "rest" /\ UNCHANGED <<wiping, disk, spent>>
        /\ wallet = "close"
    BY <1>4 DEF CloseForRestore, data
  <2>2. proc["opening"].pc = "idle" /\ proc["wallet"].pc = "idle"
    BY <2>1 DEF Shape
  <2> QED BY <1>0, <1>a, <1>b, <2>1, <2>2, CutShape, Names DEF Shape, Migrating
<1>5. CASE SeenLands
  BY <1>0, <1>5 DEF SeenLands, Shape, Disk
<1>6. CASE Wipe
  <2>1. proc' = Cut(Outdated) /\ opening' = Shut /\ wallet' = "rest" /\ wallet = "rest"
        /\ opening.pc = "open" /\ spent' = spent
    BY <1>6 DEF Wipe
  <2>2. Outdated["opening"].pc = "idle" /\ Outdated["wallet"].pc = "idle"
    BY <2>1, OutdatedShape, Names DEF Shape
  <2> QED BY <1>0, <1>b, <2>1, <2>2, OutdatedShape, CutShape, Names DEF Shape, Migrating
<1>7. CASE WipeMemory
  <2>1. proc' = Outdated /\ UNCHANGED <<opening, wallet, disk, spent>> /\ wallet = "rest"
    BY <1>7 DEF WipeMemory, data, Shape
  <2> QED BY <2>1, OutdatedShape, Names DEF Shape
<1>8. CASE WipeUnseen
  BY <1>0, <1>8 DEF WipeUnseen, Shape, Disk
<1>9. CASE WipeFiles
  BY <1>0, <1>b, <1>9 DEF WipeFiles, Shape, Migrating
<1>10. CASE Kill
  <2>1. \A q \in Proc : proc'[q] = Idle /\ proc'[q].pc = "idle"
    BY <1>10, IdleIs DEF Kill
  <2>2. opening' = Shut /\ wallet' = "rest" /\ wiping' = "rest"
    BY <1>10 DEF Kill
  <2> QED BY <1>b, <2>1, <2>2, IdleIs, Names DEF Shape, Migrating, ProcShape
<1> QED BY <1>1, <1>2, <1>3, <1>4, <1>5, <1>6, <1>7, <1>8, <1>9, <1>10

-----------------------------------------------------------------------------
(* The line for the Keychain.                                              *)

\* Where the migration, and where the wipe, has an operation under way.
Asks == {"words", "key", "seal", "rewrap", "keepseal", "keepkey", "wrapback"}
Waits == {"words", "secret", "canary", "key", "again"}

\* Who is asking, by the places they have reached.
LEMMA AskingIs ==
    /\ \A a \in Proc : Asking(a) <=> proc[a].pc \in Resolving
    /\ Asking("migration") <=> opening.pc \in Asks
    /\ Asking("onboarding") <=>
          wallet = "words" \/ (wallet \in {"secret", "repair"} /\ proc["wallet"].pc = "have")
    /\ Asking("wipe") <=> wiping \in Waits
BY Names DEF Asking, Resolving, Asks, Waits

\* The same after a step.
LEMMA AskingWillBe ==
    /\ \A a \in Proc : Asking(a)' <=> proc'[a].pc \in Resolving
    /\ Asking("migration")' <=> opening'.pc \in Asks
    /\ Asking("onboarding")' <=>
          wallet' = "words" \/ (wallet' \in {"secret", "repair"} /\ proc'["wallet"].pc = "have")
    /\ Asking("wipe")' <=> wiping' \in Waits
BY Names DEF Asking, Resolving, Asks, Waits

\* Who alone begins to ask goes to the end of the line, and it stays right.
LEMMA LineGrows ==
    ASSUME NEW rest \in Seq(Actor), IsInjective(rest), LinesUp(rest),
           NEW x \in Actor,
           \A a \in ToSet(rest) : Asking(a)',
           \A a \in Actor : Asking(a)' => a \in ToSet(rest) \/ a = x
    PROVE Lined'
<1> DEFINE new == {a \in Actor : Asking(a)'} \ ToSet(rest)
<1>0. ToSet(rest) \subseteq Actor
  BY DEF ToSet
<1>1. CASE new = {}
  <2>1. line' = rest
    BY <1>1 DEF LinesUp
  <2>2. ToSet(rest) = {a \in Actor : Asking(a)'}
    BY <1>0, <1>1
  <2>3. Lined' <=> line' \in Seq(Actor) /\ IsInjective(line') /\ ToSet(line') = {a \in Actor : Asking(a)'}
    BY DEF Lined, IsInjective, ToSet
  <2> QED BY <2>1, <2>2, <2>3
<1>2. CASE new # {}
  <2>1. new = {x} /\ x \notin ToSet(rest)
    BY <1>2
  <2>2. line' = Append(rest, x)
    BY <1>2, <2>1 DEF LinesUp
  <2>3. IsInjective(line')
    <3> SUFFICES ASSUME NEW i \in DOMAIN line', NEW j \in DOMAIN line', line'[i] = line'[j]
                 PROVE  i = j
      BY DEF IsInjective
    <3>1. /\ DOMAIN rest = 1..Len(rest) /\ DOMAIN line' = 1..(Len(rest) + 1) /\ Len(rest) \in Nat
          /\ line'[Len(rest) + 1] = x /\ \A n \in 1..Len(rest) : line'[n] = rest[n]
      BY <2>2
    <3>2. \A n \in 1..Len(rest) : rest[n] # x
      BY <2>1, <3>1 DEF ToSet
    <3>3. \A n, m \in 1..Len(rest) : rest[n] = rest[m] => n = m
      BY <3>1 DEF IsInjective
    <3> QED BY <3>1, <3>2, <3>3
  <2>4. line' \in Seq(Actor) /\ ToSet(line') = ToSet(rest) \cup {x}
    BY <2>2 DEF ToSet
  <2>5. ToSet(line') = {a \in Actor : Asking(a)'}
    BY <1>0, <2>1, <2>4
  <2>6. Lined' <=> line' \in Seq(Actor) /\ IsInjective(line') /\ ToSet(line') = {a \in Actor : Asking(a)'}
    BY DEF Lined, IsInjective, ToSet
  <2> QED BY <2>3, <2>4, <2>5, <2>6
<1> QED BY <1>1, <1>2

\* Who stands first leaves the line.
LEMMA TailIs ==
    ASSUME Lined, line # <<>>
    PROVE /\ Tail(line) \in Seq(Actor) /\ IsInjective(Tail(line))
          /\ Head(line) \in Actor /\ Asking(Head(line))
          /\ ToSet(Tail(line)) = {a \in Actor : Asking(a)} \ {Head(line)}
<1>1. /\ line \in Seq(Actor) /\ Len(line) \in Nat /\ Len(line) > 0
      /\ Tail(line) \in Seq(Actor) /\ Head(line) = line[1] /\ Head(line) \in Actor
      /\ Len(Tail(line)) = Len(line) - 1 /\ DOMAIN Tail(line) = 1..(Len(line) - 1)
      /\ \A i \in 1..(Len(line) - 1) : Tail(line)[i] = line[i + 1]
      /\ DOMAIN line = 1..Len(line)
  BY DEF Lined
<1>2. \A n, m \in 1..Len(line) : line[n] = line[m] => n = m
  BY <1>1 DEF Lined, IsInjective
<1>3. IsInjective(Tail(line))
  <2> SUFFICES ASSUME NEW i \in 1..(Len(line) - 1), NEW j \in 1..(Len(line) - 1),
                      Tail(line)[i] = Tail(line)[j]
               PROVE  i = j
    BY <1>1 DEF IsInjective
  <2>1. i + 1 \in 1..Len(line) /\ j + 1 \in 1..Len(line) /\ line[i + 1] = line[j + 1]
    BY <1>1
  <2>2. i + 1 = j + 1
    BY <1>2, <2>1
  <2> QED BY <2>2
<1>4. ToSet(Tail(line)) = ToSet(line) \ {Head(line)}
  <2>1. ASSUME NEW a \in ToSet(Tail(line)) PROVE a \in ToSet(line) /\ a # Head(line)
    <3>1. PICK i \in 1..(Len(line) - 1) : a = Tail(line)[i]
      BY <1>1 DEF ToSet
    <3>2. i + 1 \in 1..Len(line) /\ a = line[i + 1] /\ 1 \in 1..Len(line) /\ i + 1 # 1
      BY <1>1, <3>1
    <3> QED BY <1>1, <1>2, <3>2 DEF ToSet
  <2>2. ASSUME NEW a \in ToSet(line), a # Head(line) PROVE a \in ToSet(Tail(line))
    <3>1. PICK i \in 1..Len(line) : a = line[i]
      BY <1>1 DEF ToSet
    <3>2. i # 1
      BY <1>1, <2>2, <3>1
    <3>3. i - 1 \in 1..(Len(line) - 1) /\ (i - 1) + 1 = i
      BY <1>1, <3>2
    <3>4. Tail(line)[i - 1] = a
      BY <1>1, <3>1, <3>3
    <3> QED BY <1>1, <3>3, <3>4 DEF ToSet
  <2> QED BY <2>1, <2>2
<1>5. Head(line) \in ToSet(line)
  BY <1>1 DEF ToSet
<1> QED BY <1>1, <1>3, <1>4, <1>5 DEF Lined

\* A step in which at most one begins to ask, and at most the first has been
\* answered, keeps the line.
LEMMA StepLined ==
    ASSUME Lined, NEW x \in Actor,
           \/ /\ LinesUp(line)
              /\ \A a \in Actor : Asking(a) => Asking(a)'
              /\ \A a \in Actor : Asking(a)' => Asking(a) \/ a = x
           \/ /\ line # <<>> /\ LinesUp(Tail(line))
              /\ \A a \in Actor : Asking(a) /\ a # Head(line) => Asking(a)'
              /\ \A a \in Actor : Asking(a)' => (Asking(a) /\ a # Head(line)) \/ a = x
    PROVE Lined'
<1>1. CASE /\ LinesUp(line)
           /\ \A a \in Actor : Asking(a) => Asking(a)'
           /\ \A a \in Actor : Asking(a)' => Asking(a) \/ a = x
  <2>1. line \in Seq(Actor) /\ IsInjective(line) /\ ToSet(line) = {a \in Actor : Asking(a)}
    BY DEF Lined
  <2>2. /\ \A a \in ToSet(line) : Asking(a)'
        /\ \A a \in Actor : Asking(a)' => a \in ToSet(line) \/ a = x
    BY <1>1, <2>1
  <2> QED BY <1>1, <2>1, <2>2, LineGrows
<1>2. CASE /\ line # <<>> /\ LinesUp(Tail(line))
           /\ \A a \in Actor : Asking(a) /\ a # Head(line) => Asking(a)'
           /\ \A a \in Actor : Asking(a)' => (Asking(a) /\ a # Head(line)) \/ a = x
  <2>1. /\ Tail(line) \in Seq(Actor) /\ IsInjective(Tail(line))
        /\ ToSet(Tail(line)) = {a \in Actor : Asking(a)} \ {Head(line)}
    BY <1>2, TailIs
  <2>2. /\ \A a \in ToSet(Tail(line)) : Asking(a)'
        /\ \A a \in Actor : Asking(a)' => a \in ToSet(Tail(line)) \/ a = x
    BY <1>2, <2>1
  <2> QED BY <1>2, <2>1, <2>2, LineGrows
<1> QED BY <1>1, <1>2

\* An outcome makes nobody ask but the one who resolves, or the onboarding.
LEMMA OutcomeAsks ==
    ASSUME Typed, NEW p \in Proc, proc[p].pc \in Resolving, Outcome(p)
    PROVE /\ \A q \in Proc : q # p => (proc'[q].pc \in Resolving <=> proc[q].pc \in Resolving)
          /\ \A q \in Proc : proc[q].pc = "have" => proc'[q].pc = "have"
          /\ proc'[p].pc \in Resolving =>
                \A q \in Proc : proc'[q].pc = "have" => proc[q].pc = "have"
<1>0. proc \in [Proc -> ProcState]
  BY DEF Typed
<1>1. ASSUME NEW k \in Key \cup {None}, Settling(p, k), NEW q \in Proc
      PROVE  /\ q # p => (proc'[q].pc \in Resolving <=> proc[q].pc \in Resolving)
             /\ proc[q].pc = "have" => proc'[q].pc = "have"
             /\ proc'[p].pc \notin Resolving
  BY <1>1, SettlesIs, IdleIs DEF Settling, Resolving
<1>2. ASSUME NEW me \in ProcState, Continues(p, me), NEW q \in Proc
      PROVE  /\ q # p => (proc'[q].pc \in Resolving <=> proc[q].pc \in Resolving)
             /\ proc[q].pc = "have" <=> proc'[q].pc = "have"
  <2>1. proc'[q] = IF q = p THEN me ELSE proc[q]
    BY <1>0, <1>2 DEF Continues, Become
  <2> QED BY <1>2, <2>1 DEF Continues, Resolving
<1> QED BY <1>1, <1>2 DEF Outcome

\* Resolving the key keeps the line.
LEMMA ResolveLined ==
    ASSUME Typed, Shape, Lined, NEW p \in Proc, NEW refused \in BOOLEAN, Resolve(p, refused),
           line # <<>>, p = Head(line), LinesUp(Tail(line))
    PROVE Lined'
<1>1. UNCHANGED <<opening, wallet, wiping>>
  BY DEF Resolve, ReadKey, ReadCanary, ReadWords, WriteKey, Seal, Look, Drop, data
<1>2. proc[p].pc \in Resolving /\ Outcome(p)
  BY ResolveOut
<1> DEFINE x == IF proc'[p].pc \in Resolving THEN p ELSE "onboarding"
<1>3. x \in Actor
  BY Names
<1>4. ASSUME NEW a \in Actor
      PROVE  /\ Asking(a) /\ a # Head(line) => Asking(a)'
             /\ Asking(a)' => (Asking(a) /\ a # Head(line)) \/ a = x
  <2>1. CASE a \in Proc
    BY <1>2, <2>1, OutcomeAsks, AskingIs, AskingWillBe
  <2>2. CASE a = "migration" \/ a = "wipe"
    BY <1>1, <2>2, AskingIs, AskingWillBe, Names
  <2>3. CASE a = "onboarding"
    BY <1>1, <1>2, <2>3, OutcomeAsks, AskingIs, AskingWillBe, Names
  <2> QED BY <2>1, <2>2, <2>3, Names
<1> HIDE DEF x
<1> QED BY <1>3, <1>4, StepLined

\* Nobody but the first asks otherwise than before.
LEMMA ServedLined ==
    ASSUME Lined, line # <<>>, LinesUp(Tail(line)), NEW f, f = Head(line),
           NEW x \in Actor,
           \A a \in Actor \ {f, x} : Asking(a)' <=> Asking(a),
           x # f => ~Asking(f)' /\ (Asking(x) => Asking(x)')
    PROVE Lined'
<1>1. \A a \in Actor : Asking(a) /\ a # Head(line) => Asking(a)'
  OBVIOUS
<1>2. \A a \in Actor : Asking(a)' => (Asking(a) /\ a # Head(line)) \/ a = x
  OBVIOUS
<1> HIDE DEF LinesUp
<1> QED BY <1>1, <1>2, StepLined

\* Nobody is answered, and at most one begins to ask.
LEMMA MovedLined ==
    ASSUME Lined, LinesUp(line), NEW x \in Actor,
           \A a \in Actor \ {x} : Asking(a)' <=> Asking(a), Asking(x) => Asking(x)'
    PROVE Lined'
<1>1. /\ \A a \in Actor : Asking(a) => Asking(a)'
      /\ \A a \in Actor : Asking(a)' => Asking(a) \/ a = x
  OBVIOUS
<1> QED BY <1>1, StepLined

\* With the pcs of the processes, only one of the others asks otherwise.
LEMMA PcsKept ==
    ASSUME \A q \in Proc : proc'[q].pc \in Resolving <=> proc[q].pc \in Resolving,
           proc'["wallet"].pc = "have" <=> proc["wallet"].pc = "have"
    PROVE /\ UNCHANGED <<wallet, wiping>> =>
                \A a \in Actor \ {"migration"} : Asking(a)' <=> Asking(a)
          /\ UNCHANGED <<wallet, opening>> =>
                \A a \in Actor \ {"wipe"} : Asking(a)' <=> Asking(a)
          /\ UNCHANGED <<wiping, opening>> =>
                \A a \in Actor \ {"onboarding"} : Asking(a)' <=> Asking(a)
          /\ UNCHANGED <<wallet, wiping, opening>> =>
                \A a \in Actor : Asking(a)' <=> Asking(a)
<1>1. \A a \in Proc : Asking(a)' <=> Asking(a)
  BY AskingIs, AskingWillBe
<1>2. UNCHANGED wallet => (Asking("onboarding")' <=> Asking("onboarding"))
  BY AskingIs, AskingWillBe
<1>3. UNCHANGED wiping => (Asking("wipe")' <=> Asking("wipe"))
  BY AskingIs, AskingWillBe
<1>4. UNCHANGED opening => (Asking("migration")' <=> Asking("migration"))
  BY AskingIs, AskingWillBe
<1> QED BY <1>1, <1>2, <1>3, <1>4, Names

\* Old resolutions ask as before.
LEMMA OutdatedPcs ==
    ASSUME Typed, Shape, proc' \in {proc, Outdated}
    PROVE /\ \A q \in Proc : proc'[q].pc \in Resolving <=> proc[q].pc \in Resolving
          /\ proc'["wallet"].pc = "have" <=> proc["wallet"].pc = "have"
BY OutdatedShape, Names

\* The migration keeps the line.
LEMMA MigrateLined ==
    ASSUME Typed, Shape, Lined, NEW refused \in BOOLEAN, Migrate(refused),
           line # <<>>, "migration" = Head(line), LinesUp(Tail(line))
    PROVE Lined'
<1>1. UNCHANGED <<wallet, wiping>> /\ proc' \in {proc, Outdated}
  BY DEF Migrate, OpenWords, OpenKey, OpenSeal, Rewrap, KeepSeal, KeepKey, WrapBack
<1>2. \A a \in Actor \ {"migration"} : Asking(a)' <=> Asking(a)
  BY <1>1, OutdatedPcs, PcsKept
<1> QED BY <1>2, ServedLined, Names

\* The wipe keeps the line.
LEMMA WipesLined ==
    ASSUME Typed, Shape, Lined, NEW refused \in BOOLEAN,
           WipeWords(refused) \/ WipeRecord(refused) \/ WipeAgain(refused),
           line # <<>>, "wipe" = Head(line), LinesUp(Tail(line))
    PROVE Lined'
<1>1. UNCHANGED <<wallet, opening>> /\ proc' \in {proc, Outdated}
  BY DEF WipeWords, WipeRecord, WipeAgain
<1>2. \A a \in Actor \ {"wipe"} : Asking(a)' <=> Asking(a)
  BY <1>1, OutdatedPcs, PcsKept
<1> QED BY <1>2, ServedLined, Names

\* Whoever calls begins to ask, or, having the key, asks for the secret's sake.
LEMMA CallsAsks ==
    ASSUME Typed, Shape, NEW p \in Proc, Calls(p)
    PROVE /\ \A q \in Proc \ {p} : proc'[q].pc \in Resolving <=> proc[q].pc \in Resolving
          /\ ~(proc'[p].pc = "have" /\ proc'[p].pc \in Resolving)
          /\ p # "wallet" => (proc'["wallet"].pc = "have" <=> proc["wallet"].pc = "have")
BY CallsShape, Names DEF Resolving

\* Making or repairing the account keeps the line.
LEMMA WalletLined ==
    ASSUME Typed, Shape, Lined, NEW refused \in BOOLEAN, SaveWords(refused) \/ SaveSecret(refused),
           line # <<>>, "onboarding" = Head(line), LinesUp(Tail(line))
    PROVE Lined'
<1>1. UNCHANGED <<opening, wiping>>
  BY DEF SaveWords, SaveSecret
<1>2. CASE SaveWords(refused) /\ refused
  <2>1. proc' = proc
    BY <1>2 DEF SaveWords
  <2>2. \A a \in Actor \ {"onboarding"} : Asking(a)' <=> Asking(a)
    BY <1>1, <2>1, OutdatedPcs, PcsKept
  <2> QED BY <2>2, ServedLined, Names
<1>3. CASE SaveWords(refused) /\ ~refused
  <2>1. Calls("wallet") /\ wallet = "words" /\ wallet' = "secret"
    BY <1>3 DEF SaveWords
  <2>2. ~Asking("wallet")
    BY <2>1, AskingIs, Names DEF Shape, Resolving
  <2> DEFINE x == IF proc'["wallet"].pc = "have" THEN "onboarding" ELSE "wallet"
  <2>3. \A a \in Actor \ {"onboarding", "wallet"} : Asking(a)' <=> Asking(a)
    BY <1>1, <2>1, CallsAsks, AskingIs, AskingWillBe, Names
  <2>4. CASE proc'["wallet"].pc = "have"
    <3>1. ~Asking("wallet")'
      BY <2>4, AskingWillBe, Names DEF Resolving
    <3> QED BY <2>2, <2>3, <3>1, ServedLined, Names
  <2>5. CASE proc'["wallet"].pc # "have"
    <3>1. ~Asking("onboarding")'
      BY <2>1, <2>5, AskingWillBe
    <3> QED BY <2>2, <2>3, <3>1, ServedLined, Names
  <2> QED BY <2>4, <2>5
<1>4. CASE SaveSecret(refused)
  <2>1. Become("wallet", Idle) /\ proc["wallet"].pc = "have" /\ wallet' \in {"rest", "close"}
    BY <1>4 DEF SaveSecret
  <2>2. \A a \in Actor \ {"onboarding"} : Asking(a)' <=> Asking(a)
    BY <1>1, <2>1, BecomeIdle, AskingIs, AskingWillBe, Names DEF Resolving
  <2> QED BY <2>2, ServedLined, Names
<1> QED BY <1>2, <1>3, <1>4

\* What happens away from the Keychain keeps the line.
LEMMA ElsewhereLined ==
    ASSUME Typed, Shape, Lined, Elsewhere
    PROVE Lined'
<1>0. LinesUp(line)
  BY DEF Elsewhere
<1>1. CASE \E c \in Caller : Begin(c)
  <2>1. PICK c \in Caller : Begin(c)
    BY <1>1
  <2>2. c \in Proc /\ c # "wallet" /\ c \in Actor
    BY Names DEF Proc
  <2>3. Calls(c) /\ proc[c].pc = "idle" /\ UNCHANGED <<opening, wallet, wiping>>
    BY <2>1 DEF Begin
  <2>4. /\ \A a \in Actor \ {c} : Asking(a)' <=> Asking(a)
        /\ ~Asking(c)
    BY <2>2, <2>3, CallsAsks, AskingIs, AskingWillBe, Names DEF Resolving
  <2> QED BY <1>0, <2>2, <2>4, MovedLined
<1>2. CASE \E c \in Caller : WriteRow(c)
  <2>1. PICK c \in Caller : WriteRow(c)
    BY <1>2
  <2>2. c \in Proc /\ c # "wallet"
    BY Names DEF Proc
  <2>3. Become(c, Idle) /\ proc[c].pc = "have" /\ UNCHANGED <<opening, wallet, wiping>>
    BY <2>1 DEF WriteRow
  <2>4. \A a \in Actor : Asking(a)' <=> Asking(a)
    BY <2>2, <2>3, BecomeIdle, PcsKept, Names DEF Resolving
  <2> QED BY <1>0, <2>4, MovedLined, Names
<1>3. CASE (\E ok \in BOOLEAN : Move(ok) \/ Unmove(ok)) \/ Open \/ Mark \/ OpenFails
  <2>1. UNCHANGED <<wallet, wiping, proc>> /\ ~Asking("migration")
    BY <1>3, AskingIs DEF Move, Unmove, Open, Mark, OpenFails, Asks
  <2>2. \A a \in Actor \ {"migration"} : Asking(a)' <=> Asking(a)
    BY <2>1, PcsKept
  <2> QED BY <1>0, <2>1, <2>2, MovedLined, Names
<1>4. CASE Forget \/ SeenLands
  <2>1. UNCHANGED <<wallet, wiping, opening>> /\ proc' \in {proc, Outdated}
    BY <1>4 DEF Forget, SeenLands
  <2>2. \A a \in Actor : Asking(a)' <=> Asking(a)
    BY <2>1, OutdatedPcs, PcsKept
  <2> QED BY <1>0, <2>2, MovedLined, Names
<1>5. CASE Encrypt
  <2>1. UNCHANGED <<wallet, wiping>> /\ opening.pc = "encrypt" /\ ~Asking("migration")
    BY <1>5, AskingIs DEF Encrypt, Asks
  <2>2. CASE Become("opening", Idle) /\ proc["opening"].pc \notin Resolving
             /\ opening'.pc \in {"open", "failing"}
    <3>1. \A a \in Actor : Asking(a)' <=> Asking(a)
      BY <2>1, <2>2, BecomeIdle, AskingIs, AskingWillBe, Names DEF Resolving, Asks
    <3> QED BY <1>0, <3>1, MovedLined, Names
  <2>3. CASE Calls("opening") /\ proc["opening"].pc = "idle" /\ UNCHANGED opening
    <3>1. /\ \A a \in Actor \ {"opening"} : Asking(a)' <=> Asking(a)
          /\ ~Asking("opening")
      BY <2>1, <2>3, CallsAsks, AskingIs, AskingWillBe, Names DEF Resolving
    <3> QED BY <1>0, <3>1, MovedLined, Names
  <2>4. opening \in Opening
    BY DEF Typed
  <2>5. disk.encrypted => proc["opening"].pc = "idle"
    BY DEF Shape
  <2> QED BY <1>5, <2>2, <2>3, <2>4, <2>5 DEF Encrypt, Opened, Opens, Opening, Shut, Resolving
<1>6. CASE Onboard
  <2>1. UNCHANGED <<opening, wiping, proc>> /\ ~Asking("onboarding")
    BY <1>6, AskingIs DEF Onboard
  <2>2. \A a \in Actor \ {"onboarding"} : Asking(a)' <=> Asking(a)
    BY <2>1, PcsKept
  <2> QED BY <1>0, <2>1, <2>2, MovedLined, Names
<1>7. CASE Recover
  <2>1. Calls("wallet") /\ wallet = "rest" /\ wallet' = "repair" /\ UNCHANGED <<opening, wiping>>
    BY <1>7 DEF Recover
  <2>2. ~Asking("wallet") /\ ~Asking("onboarding")
    BY <2>1, AskingIs, Names DEF Shape, Resolving
  <2>3. \A a \in Actor \ {"onboarding", "wallet"} : Asking(a)' <=> Asking(a)
    BY <2>1, CallsAsks, AskingIs, AskingWillBe, Names
  <2>4. CASE proc'["wallet"].pc = "have"
    <3>1. ~Asking("wallet")'
      BY <2>4, AskingWillBe, Names DEF Resolving
    <3> QED BY <1>0, <2>2, <2>3, <3>1, MovedLined, Names
  <2>5. CASE proc'["wallet"].pc # "have"
    <3>1. ~Asking("onboarding")'
      BY <2>1, <2>5, AskingWillBe
    <3> QED BY <1>0, <2>2, <2>3, <3>1, MovedLined, Names
  <2> QED BY <2>4, <2>5
<1>8. CASE NoSecret
  <2>1. Become("wallet", Idle) /\ proc["wallet"].pc = "failed" /\ wallet' = "rest"
        /\ UNCHANGED <<opening, wiping>>
    BY <1>8 DEF NoSecret
  <2>2. wallet # "words"
    BY <1>8 DEF NoSecret
  <2>3. \A a \in Actor : Asking(a)' <=> Asking(a)
    BY <2>1, <2>2, BecomeIdle, AskingIs, AskingWillBe, Names DEF Resolving
  <2> QED BY <1>0, <2>3, MovedLined, Names
<1>9. CASE CloseForRestore
  <2>1. proc' = Cut(proc) /\ wallet = "close" /\ wallet' = "rest" /\ opening' = Shut
        /\ opening.pc = "open" /\ UNCHANGED wiping
    BY <1>9 DEF CloseForRestore, Shape
  <2>2. \A q \in Proc : proc'[q].pc \in Resolving <=> proc[q].pc \in Resolving
    BY <2>1, CutIs, IdleIs DEF Typed, Resolving
  <2>3. \A a \in Actor : Asking(a)' <=> Asking(a)
    BY <2>1, <2>2, AskingIs, AskingWillBe, Names DEF Asks, Shut
  <2> QED BY <1>0, <2>3, MovedLined, Names
<1>10. CASE Wipe
  <2>1. proc' = Cut(Outdated) /\ wallet = "rest" /\ wallet' = "rest" /\ opening' = Shut
        /\ opening.pc = "open" /\ wiping = "rest" /\ wiping' = "memory"
    BY <1>10 DEF Wipe
  <2>2. \A q \in Proc : proc'[q].pc \in Resolving <=> proc[q].pc \in Resolving
    BY <2>1, OutdatedTyped, OutdatedShape, CutIs, IdleIs DEF Resolving
  <2>3. \A a \in Actor : Asking(a)' <=> Asking(a)
    BY <2>1, <2>2, AskingIs, AskingWillBe, Names DEF Asks, Waits, Shut
  <2> QED BY <1>0, <2>3, MovedLined, Names
<1>11. CASE WipeMemory
  <2>1. proc' \in {proc, Outdated} /\ UNCHANGED <<wallet, opening>> /\ ~Asking("wipe")
    BY <1>11, AskingIs DEF WipeMemory, Waits
  <2>2. \A a \in Actor \ {"wipe"} : Asking(a)' <=> Asking(a)
    BY <2>1, OutdatedPcs, PcsKept
  <2> QED BY <1>0, <2>1, <2>2, MovedLined, Names
<1>12. CASE WipeUnseen
  <2>1. proc' \in {proc, Outdated} /\ UNCHANGED <<wallet, opening>> /\ ~Asking("wipe")
    BY <1>12, AskingIs DEF WipeUnseen, Waits
  <2>2. \A a \in Actor \ {"wipe"} : Asking(a)' <=> Asking(a)
    BY <2>1, OutdatedPcs, PcsKept
  <2> QED BY <1>0, <2>1, <2>2, MovedLined, Names
<1>13. CASE WipeFiles
  <2>1. proc' = proc /\ UNCHANGED wallet /\ wiping = "files" /\ opening.pc \in {"open", "closed"}
        /\ opening' = Shut
    BY <1>13 DEF WipeFiles
  <2>2. \A a \in Actor \ {"wipe"} : Asking(a)' <=> Asking(a)
    BY <2>1, AskingIs, AskingWillBe, Names DEF Asks, Shut
  <2>3. ~Asking("wipe")
    BY <2>1, AskingIs DEF Waits
  <2> QED BY <1>0, <2>2, <2>3, MovedLined, Names
<1> QED BY <1>1, <1>2, <1>3, <1>4, <1>5, <1>6, <1>7, <1>8, <1>9, <1>10, <1>11, <1>12, <1>13
        DEF Elsewhere

-----------------------------------------------------------------------------
(* Keys that are gone.                                                     *)

\* A key is nowhere: not in the Keychain, not in memory, with nobody who resolves.
ProcLacks(me, x) == me.stored # x /\ me.canary # x /\ me.key # x

Lacks(x) ==
    /\ keychain.key # x /\ keychain.canary # x /\ keychain.secret # x /\ keychain.words # x
    /\ memory # x /\ recall # x /\ opening.from # x /\ opening.to # x
    /\ \A p \in Proc : ProcLacks(proc[p], x)

\* The keys made so far.
Made == {Derived(a) : a \in 1..spent.accounts} \cup {Chance(i) : i \in 1..spent.chance}

\* What is gone was made, and is nowhere.
Living == gone \subseteq Made /\ \A x \in gone : Lacks(x)

\* A key that will not be made again.
Past(x) == x \in Key /\ x # Derived(spent.accounts + 1) /\ x # Chance(spent.chance + 1)

\* No key is made twice.
LEMMA PastIs == ASSUME Typed, NEW x \in Made PROVE Past(x)
<1>1. spent.accounts \in 0..MaxAccounts /\ spent.chance \in 0..MaxChance
      /\ MaxAccounts \in Nat /\ MaxChance \in Nat
  BY DataKeyAssumption DEF Typed, Spent
<1>2. CASE \E a \in 1..spent.accounts : x = Derived(a)
  <2>1. PICK a \in 1..spent.accounts : x = Derived(a)
    BY <1>2
  <2>2. a \in 1..MaxAccounts /\ a # spent.accounts + 1
    BY <1>1, <2>1
  <2> QED BY <2>1, <2>2, Distinct DEF Past
<1>3. CASE \E a \in 1..spent.chance : x = Chance(a)
  <2>1. PICK a \in 1..spent.chance : x = Chance(a)
    BY <1>3
  <2>2. a \in 1..MaxChance /\ a # spent.chance + 1
    BY <1>1, <2>1
  <2> QED BY <2>1, <2>2, Distinct DEF Past
<1> QED BY <1>2, <1>3 DEF Made

\* Calls that rest have no key, those that have one only theirs.
LEMMA RestsLack ==
    ASSUME NEW x \in Key
    PROVE /\ ProcLacks(Idle, x) /\ ProcLacks(Failed, x)
          /\ \A k : k # x => ProcLacks(Having(k), x)
          /\ \A a, c : ProcLacks(Again(a, c), x)
<1>1. \A a, c : Again(a, c).stored = None /\ Again(a, c).canary = None /\ Again(a, c).key = None
  BY DEF Again, Idle
<1> QED BY <1>1, IdleIs, Distinct DEF ProcLacks

\* Settling on another key brings none back.
LEMMA SettlingLacks ==
    ASSUME NEW x \in Key, Lacks(x), NEW p \in Proc, NEW k, k # x, Settling(p, k)
    PROVE memory' # x /\ \A q \in Proc : ProcLacks(proc'[q], x)
<1>1. memory' # x
  BY DEF Settling, Lacks
<1>2. ASSUME NEW q \in Proc PROVE ProcLacks(proc'[q], x)
  <2>1. proc'[q] = proc[q] \/ proc'[q] = Idle \/ proc'[q] = Failed \/ proc'[q] = Having(k)
    BY SettlesIs DEF Settling
  <2> QED BY <2>1, RestsLack DEF Lacks
<1> QED BY <1>1, <1>2

\* A call's new state that lacks the key leaves it away.
LEMMA BecomeLacks ==
    ASSUME Typed, NEW x \in Key, Lacks(x), NEW p \in Proc, NEW me, Become(p, me), ProcLacks(me, x)
    PROVE \A q \in Proc : ProcLacks(proc'[q], x)
<1>1. \A q \in Proc : proc'[q] = IF q = p THEN me ELSE proc[q]
  BY DEF Typed, Become
<1> QED BY <1>1 DEF Lacks

\* Resolving once more brings no key back.
LEMMA RestartsLacks ==
    ASSUME Typed, NEW x \in Key, Lacks(x), NEW p \in Proc, Restarts(p)
    PROVE memory' # x /\ \A q \in Proc : ProcLacks(proc'[q], x)
<1>0. memory # x /\ None # x
  BY Distinct DEF Lacks
<1>1. CASE Settling(p, None) \/ Settling(p, memory)
  BY <1>0, <1>1, SettlingLacks
<1>2. CASE Continues(p, Again(proc[p].attempt + 1, proc[p].cut))
  BY <1>0, <1>2, BecomeLacks, RestsLack DEF Continues
<1> QED BY <1>1, <1>2, RestartsOutcome

\* Deciding brings no key back: it chooses what was read, or a new key.
LEMMA DecidesLacks ==
    ASSUME Typed, NEW x \in Key, Lacks(x), Past(x), NEW p \in Proc, NEW me \in ProcState,
           ProcLacks(me, x), NEW words, words # x, Decides(p, me, words)
    PROVE memory' # x /\ \A q \in Proc : ProcLacks(proc'[q], x)
<1>0. memory # x /\ None # x
  BY Distinct DEF Lacks
<1>1. CASE Settling(p, None)
  BY <1>0, <1>1, SettlingLacks
<1>2. CASE Restarts(p)
  BY <1>2, RestartsLacks
<1>3. CASE \E k \in Chosen(me.stored, me.canary, words) :
             \/ \E pc \in {"write", "seal"} :
                   Become(p, [me EXCEPT !.pc = pc, !.key = k]) /\ memory' = memory
             \/ Settling(p, k)
  <2>1. PICK k \in Chosen(me.stored, me.canary, words) :
             \/ \E pc \in {"write", "seal"} :
                   Become(p, [me EXCEPT !.pc = pc, !.key = k]) /\ memory' = memory
             \/ Settling(p, k)
    BY <1>3
  <2>2. k # x
    BY DEF Chosen, Past, ProcLacks
  <2>3. \A pc : ProcLacks([me EXCEPT !.pc = pc, !.key = k], x)
    BY <2>2 DEF ProcLacks, ProcState
  <2>4. CASE Settling(p, k)
    BY <2>2, <2>4, SettlingLacks
  <2>5. CASE \E pc \in {"write", "seal"} :
                   Become(p, [me EXCEPT !.pc = pc, !.key = k]) /\ memory' = memory
    BY <1>0, <2>3, <2>5, BecomeLacks
  <2> QED BY <2>1, <2>4, <2>5
<1> QED BY <1>1, <1>2, <1>3, DecidesOutcome

\* What follows a write brings no key back.
LEMMA ConcludedLacks ==
    ASSUME Typed, NEW x \in Key, Lacks(x), NEW p \in Proc, NEW me \in ProcState,
           ProcLacks(me, x), Concluded(p, me), me.key # None
    PROVE memory' # x /\ \A q \in Proc : ProcLacks(proc'[q], x)
<1>0. memory # x /\ me.key # x
  BY DEF Lacks, ProcLacks
<1>1. CASE Gets(p, me.key)
  BY <1>0, <1>1, SettlingLacks DEF Gets, Settling
<1>2. CASE Restarts(p)
  BY <1>2, RestartsLacks
<1>3. CASE Goes(p, [me EXCEPT !.pc = "look"])
  <2>1. ProcLacks([me EXCEPT !.pc = "look"], x)
    BY DEF ProcLacks, ProcState
  <2> QED BY <1>0, <1>3, <2>1, BecomeLacks DEF Goes
<1> QED BY <1>1, <1>2, <1>3 DEF Concluded

\* Looking after one's writes brings no key back.
LEMMA LookedLacks ==
    ASSUME Typed, NEW x \in Key, Lacks(x), NEW p \in Proc, Looked(p)
    PROVE memory' # x /\ \A q \in Proc : ProcLacks(proc'[q], x)
<1> DEFINE me == [proc[p] EXCEPT !.wrote = @ \ {Item(proc[p])}]
<1>1. proc[p] \in ProcState /\ ProcLacks(proc[p], x) /\ memory # x
  BY DEF Typed, Lacks
<1>2. ProcLacks([me EXCEPT !.pc = "look"], x)
  BY <1>1 DEF ProcLacks, ProcState
<1> HIDE DEF me
<1>3. Restarts(p) \/ Goes(p, [me EXCEPT !.pc = "look"])
  BY DEF Looked, me
<1> QED BY <1>1, <1>2, <1>3, RestartsLacks, BecomeLacks DEF Goes

\* Resolving brings no key back.
LEMMA ResolveLacks ==
    ASSUME Typed, Shape, NEW x \in Key, Lacks(x), Past(x), NEW p \in Proc, NEW refused \in BOOLEAN,
           Resolve(p, refused)
    PROVE Lacks(x)'
<1>0. /\ proc[p] \in ProcState /\ keychain \in Keychain /\ ProcLacks(proc[p], x)
      /\ Refused # x /\ None # x /\ Unasked # x /\ UNCHANGED opening
      /\ keychain.key # x /\ keychain.canary # x /\ keychain.words # x /\ recall # x
  BY Distinct DEF Typed, Lacks, Resolve, ReadKey, ReadCanary, ReadWords, WriteKey, Seal, Look, Drop
<1> SUFFICES /\ memory' # x /\ \A q \in Proc : ProcLacks(proc'[q], x)
             /\ recall' # x
             /\ keychain'.key # x /\ keychain'.canary # x
             /\ keychain'.secret = keychain.secret /\ keychain'.words = keychain.words
  BY <1>0 DEF Lacks
<1>1. CASE ReadKey(p, refused)
  <2> DEFINE me == [proc[p] EXCEPT !.pc = "canary",
                                   !.stored = IF refused THEN Refused ELSE keychain.key]
  <2>1. ProcLacks(me, x)
    BY <1>0 DEF ProcLacks, ProcState
  <2> HIDE DEF me
  <2>2. Goes(p, me) /\ UNCHANGED <<keychain, recall>>
    BY <1>1 DEF ReadKey, me
  <2> QED BY <1>0, <2>1, <2>2, BecomeLacks DEF Goes, Lacks
<1>2. CASE ReadCanary(p, refused)
  <2> DEFINE me == [proc[p] EXCEPT !.canary = IF refused THEN Refused ELSE keychain.canary]
  <2>1. me \in ProcState /\ ProcLacks(me, x) /\ ProcLacks([me EXCEPT !.pc = "words"], x)
    BY <1>0 DEF ProcLacks, ProcState, Stored, Keychain
  <2> HIDE DEF me
  <2>2. (Decides(p, me, None) \/ Goes(p, [me EXCEPT !.pc = "words"])) /\ UNCHANGED <<keychain, recall>>
    BY <1>2 DEF ReadCanary, me
  <2> QED BY <1>0, <2>1, <2>2, BecomeLacks, DecidesLacks DEF Goes, Lacks
<1>3. CASE ReadWords(p, refused)
  <2>1. PICK words \in Words(refused) : recall' = Remembered(words) /\ Decides(p, proc[p], words)
    BY <1>3 DEF ReadWords
  <2>2. words # x /\ recall' # x
    BY <1>0, <2>1 DEF Words, Remembered
  <2>3. UNCHANGED keychain
    BY <1>3 DEF ReadWords
  <2> QED BY <1>0, <2>1, <2>2, <2>3, DecidesLacks
<1>4. CASE WriteKey(p, refused)
  <2> DEFINE me == [proc[p] EXCEPT !.wrote = {"key"}]
  <2>1. /\ me \in ProcState /\ ProcLacks(me, x) /\ ProcLacks([me EXCEPT !.pc = "seal"], x)
        /\ me.key = proc[p].key
    BY <1>0 DEF ProcLacks, ProcState
  <2>2. me.key # None
    BY <1>4, <2>1 DEF Shape, ProcShape, WriteKey
  <2>3. \/ GoesWithout(p) /\ UNCHANGED keychain
        \/ /\ keychain' = [keychain EXCEPT !.key = me.key]
           /\ Goes(p, [me EXCEPT !.pc = "seal"]) \/ Concluded(p, me)
    BY <1>4 DEF WriteKey
  <2>4. UNCHANGED recall /\ me.key # x
    BY <1>4, <2>1 DEF WriteKey, ProcLacks
  <2> HIDE DEF me
  <2>5. /\ keychain'.key # x /\ keychain'.canary # x
        /\ keychain'.secret = keychain.secret /\ keychain'.words = keychain.words
    BY <1>0, <2>3, <2>4 DEF Keychain
  <2>6. memory' # x /\ \A q \in Proc : ProcLacks(proc'[q], x)
    <3>1. CASE GoesWithout(p)
      BY <1>0, <3>1, SettlingLacks DEF GoesWithout, Settling
    <3>2. CASE Goes(p, [me EXCEPT !.pc = "seal"])
      BY <2>1, <3>2, BecomeLacks DEF Goes, Lacks
    <3>3. CASE Concluded(p, me)
      BY <2>1, <2>2, <3>3, ConcludedLacks
    <3> QED BY <2>3, <3>1, <3>2, <3>3
  <2> QED BY <1>0, <2>4, <2>5, <2>6
<1>5. CASE Seal(p, refused)
  <2> DEFINE me == [proc[p] EXCEPT !.wrote = IF refused THEN @ ELSE @ \cup {"canary"}]
  <2>1. me \in ProcState /\ ProcLacks(me, x) /\ me.key = proc[p].key /\ me.key # x
    BY <1>0 DEF ProcLacks, ProcState
  <2>2. me.key # None
    BY <1>5, <2>1 DEF Shape, ProcShape, Seal
  <2>3. /\ keychain' \in {keychain, [keychain EXCEPT !.canary = me.key, !.sealer = p]}
        /\ Concluded(p, me) /\ UNCHANGED recall
    BY <1>5 DEF Seal
  <2> HIDE DEF me
  <2>4. /\ keychain'.key # x /\ keychain'.canary # x
        /\ keychain'.secret = keychain.secret /\ keychain'.words = keychain.words
    BY <1>0, <2>1, <2>3 DEF Keychain
  <2> QED BY <1>0, <2>1, <2>2, <2>3, <2>4, ConcludedLacks
<1>6. CASE Look(p, refused)
  <2>1. ProcLacks([proc[p] EXCEPT !.pc = "drop"], x)
    BY <1>0 DEF ProcLacks, ProcState
  <2>2. (Looked(p) \/ Goes(p, [proc[p] EXCEPT !.pc = "drop"])) /\ UNCHANGED <<keychain, recall>>
    BY <1>6 DEF Look
  <2> QED BY <1>0, <2>1, <2>2, LookedLacks, BecomeLacks DEF Goes, Lacks
<1>7. CASE Drop(p, refused)
  <2>1. keychain' \in {keychain, Without(keychain, Item(proc[p]))} /\ Looked(p) /\ UNCHANGED recall
    BY <1>7 DEF Drop
  <2>2. Item(proc[p]) \in {"canary", "key"}
    BY DEF Item
  <2>3. /\ keychain'.key # x /\ keychain'.canary # x
        /\ keychain'.secret = keychain.secret /\ keychain'.words = keychain.words
    BY <1>0, <2>1, <2>2 DEF Keychain, Without
  <2> QED BY <1>0, <2>1, <2>3, LookedLacks
<1> QED BY <1>1, <1>2, <1>3, <1>4, <1>5, <1>6, <1>7 DEF Resolve

\* Old resolutions have no other keys.
LEMMA OutdatedLacks ==
    ASSUME Typed, Shape, NEW x, Lacks(x)
    PROVE \A q \in Proc : ProcLacks(Outdated[q], x)
BY OutdatedShape DEF Lacks, ProcLacks

\* Closing the connection gives nobody a key.
LEMMA CutLacks ==
    ASSUME NEW x \in Key, NEW ps \in [Proc -> ProcState], \A q \in Proc : ProcLacks(ps[q], x)
    PROVE \A q \in Proc : ProcLacks(Cut(ps)[q], x)
BY CutIs, RestsLack DEF ProcLacks

\* A call of the key finds none that memory does not have.
LEMMA CallsLacks ==
    ASSUME Typed, Shape, NEW x \in Key, Lacks(x), NEW p \in Proc, Calls(p)
    PROVE \A q \in Proc : ProcLacks(proc'[q], x)
<1>1. ProcLacks([Idle EXCEPT !.pc = "joined", !.with = inflight], x)
  BY Distinct DEF ProcLacks, Idle
<1>2. ProcLacks(proc'[p], x)
  <2>1. memory # x
    BY DEF Lacks
  <2>2. ProcLacks(Having(memory), x) /\ ProcLacks(Again(1, FALSE), x)
    BY <2>1, RestsLack
  <2>3. proc'[p] \in {Having(memory), Again(1, FALSE), [Idle EXCEPT !.pc = "joined", !.with = inflight]}
    BY CallsShape
  <2> QED BY <1>1, <2>2, <2>3
<1>3. \A q \in Proc : q # p => proc'[q] = proc[q]
  BY CallsShape
<1> QED BY <1>2, <1>3 DEF Lacks

\* The migration brings no key back.
LEMMA MigrateLacks ==
    ASSUME Typed, Shape, NEW x \in Key, Lacks(x), NEW refused \in BOOLEAN, Migrate(refused)
    PROVE Lacks(x)'
<1>0. /\ opening \in Opening /\ keychain \in Keychain /\ Refused # x /\ None # x /\ Unasked # x
      /\ keychain.key # x /\ keychain.canary # x /\ keychain.words # x /\ keychain.secret # x
      /\ recall # x /\ memory # x /\ opening.from # x /\ opening.to # x
  BY Distinct DEF Typed, Lacks
<1>1. \A q \in Proc : ProcLacks(proc'[q], x)
  <2>1. proc' \in {proc, Outdated}
    BY DEF Migrate, OpenWords, OpenKey, OpenSeal, Rewrap, KeepSeal, KeepKey, WrapBack
  <2> QED BY <2>1, OutdatedLacks DEF Lacks
<1> SUFFICES /\ keychain'.key # x /\ keychain'.canary # x /\ keychain'.words # x
             /\ keychain'.secret # x
             /\ recall' # x /\ memory' # x /\ opening'.from # x /\ opening'.to # x
  BY <1>1 DEF Lacks
<1>2. CASE OpenWords(refused)
  <2>1. PICK words \in Words(refused) \cup {None, Refused} :
          /\ recall' \in {recall, Remembered(words)}
          /\ opening' = CASE words = Refused -> [opening EXCEPT !.pc = "failing"]
                          [] words = None -> [opening EXCEPT !.pc = "encrypt"]
                          [] OTHER -> [opening EXCEPT !.pc = "key", !.to = words]
    BY <1>2 DEF OpenWords, Found
  <2>2. words # x /\ recall' # x
    BY <1>0, <2>1 DEF Words, Remembered
  <2>3. opening'.from # x /\ opening'.to # x
    <3>1. CASE words = Refused
      BY <1>0, <2>1, <3>1 DEF Opening
    <3>2. CASE words = None
      BY <1>0, <2>1, <3>2, Distinct DEF Opening
    <3>3. CASE words # None /\ words # Refused
      <4>1. opening' = [opening EXCEPT !.pc = "key", !.to = words]
        BY <2>1, <3>3
      <4> QED BY <1>0, <2>2, <4>1 DEF Opening
    <3> QED BY <3>1, <3>2, <3>3
  <2> QED BY <1>0, <1>2, <2>2, <2>3 DEF OpenWords
<1>3. CASE OpenKey(refused)
  BY <1>0, <1>3 DEF OpenKey, Opening
<1>4. CASE OpenSeal(refused)
  BY <1>0, <1>4 DEF OpenSeal, Opens, Opening
<1>5. CASE Rewrap(refused)
  BY <1>0, <1>5 DEF Rewrap, Opens, Opening, Keychain
<1>6. CASE KeepSeal(refused)
  BY <1>0, <1>6 DEF KeepSeal, Opens, Opening, Keychain
<1>7. CASE KeepKey(refused)
  BY <1>0, <1>7 DEF KeepKey, SetMemory, Opens, Opening, Keychain
<1>8. CASE WrapBack(refused)
  BY <1>0, <1>8 DEF WrapBack, SetMemory, Opens, Opening, Keychain
<1> QED BY <1>2, <1>3, <1>4, <1>5, <1>6, <1>7, <1>8 DEF Migrate

\* Onboarding makes a new key; nothing else, but the end of the wipe, brings one.
LEMMA OtherLacks ==
    ASSUME Typed, Shape, NEW x \in Key, Lacks(x), Past(x), NEW refused \in BOOLEAN,
           \/ SaveWords(refused) \/ SaveSecret(refused)
           \/ WipeWords(refused) \/ WipeRecord(refused)
           \/ Elsewhere \/ Kill
    PROVE Lacks(x)'
<1>0. /\ opening \in Opening /\ keychain \in Keychain /\ Refused # x /\ None # x /\ Unasked # x
      /\ keychain.key # x /\ keychain.canary # x /\ keychain.words # x /\ keychain.secret # x
      /\ recall # x /\ memory # x /\ opening.from # x /\ opening.to # x
      /\ Derived(spent.accounts + 1) # x /\ Outdated \in [Proc -> ProcState]
      /\ proc \in [Proc -> ProcState]
  BY Distinct, OutdatedTyped DEF Typed, Lacks, Past
<1>a. Shut.from # x /\ Shut.to # x
  BY <1>0 DEF Shut
<1>1. CASE SaveWords(refused)
  <2>1. \A q \in Proc : ProcLacks(proc'[q], x)
    <3>1. proc' = proc \/ Calls("wallet")
      BY <1>1 DEF SaveWords
    <3> QED BY <3>1, CallsLacks, Names DEF Lacks
  <2>2. keychain' = keychain \/ keychain' = [keychain EXCEPT !.words = Derived(spent.accounts + 1)]
    BY <1>1 DEF SaveWords
  <2>3. recall' # x /\ UNCHANGED <<memory, opening>>
    BY <1>0, <1>1 DEF SaveWords
  <2> QED BY <1>0, <2>1, <2>2, <2>3 DEF Lacks, Keychain
<1>2. CASE SaveSecret(refused)
  <2>1. \A q \in Proc : ProcLacks(proc'[q], x)
    BY <1>2, BecomeLacks, RestsLack, Names DEF SaveSecret
  <2>2. proc["wallet"].key # x
    BY Names DEF Lacks, ProcLacks
  <2> QED BY <1>0, <1>2, <2>1, <2>2 DEF Lacks, SaveSecret, Keychain
<1>3. CASE WipeWords(refused)
  BY <1>0, <1>3 DEF Lacks, WipeWords, Keychain
<1>4. CASE WipeRecord(refused)
  BY <1>0, <1>4 DEF Lacks, WipeRecord, Without, Keychain
<1>5. CASE \E c \in Caller : Begin(c) \/ WriteRow(c)
  <2>1. PICK c \in Caller : Begin(c) \/ WriteRow(c)
    BY <1>5
  <2>2. c \in Proc
    BY DEF Proc
  <2>3. \A q \in Proc : ProcLacks(proc'[q], x)
    BY <1>0, <2>1, <2>2, CallsLacks, BecomeLacks, RestsLack DEF Begin, WriteRow
  <2> QED BY <2>1, <2>3 DEF Lacks, Begin, WriteRow
<1>6. CASE \/ \E ok \in BOOLEAN : Move(ok) \/ Unmove(ok)
           \/ Mark \/ Onboard \/ SeenLands
  <2>1. /\ UNCHANGED <<keychain, memory, proc>> /\ recall' \in {recall, Unasked}
        /\ opening'.from = opening.from /\ opening'.to = opening.to
    BY <1>0, <1>6 DEF Move, Unmove, Opens, Mark, Onboard, SeenLands, Opening
  <2> QED BY <1>0, <2>1 DEF Lacks
<1>7. CASE Forget \/ WipeMemory
  <2>1. /\ proc' = Outdated /\ UNCHANGED <<keychain, opening>> /\ memory' = None
        /\ recall' \in {recall, Unasked}
    BY <1>7 DEF Forget, WipeMemory, SetMemory
  <2> QED BY <1>0, <2>1, OutdatedLacks DEF Lacks
<1>8. CASE Open \/ OpenFails \/ WipeUnseen \/ WipeFiles
  <2>1. UNCHANGED <<keychain, memory, proc>> /\ recall' \in {recall, Unasked}
    BY <1>8 DEF Open, OpenFails, WipeUnseen, WipeFiles
  <2>2. opening'.from # x /\ opening'.to # x
    BY <1>0, <1>8 DEF Open, OpenFails, WipeUnseen, WipeFiles, Shut
  <2> QED BY <1>0, <2>1, <2>2 DEF Lacks
<1>9. CASE Encrypt
  <2>1. \A q \in Proc : ProcLacks(proc'[q], x)
    BY <1>0, <1>9, CallsLacks, BecomeLacks, RestsLack, Names DEF Encrypt, Opened
  <2>2. UNCHANGED <<keychain, memory, recall>>
    BY <1>9 DEF Encrypt
  <2>3. opening'.from # x /\ opening'.to # x
    BY <1>0, <1>9 DEF Encrypt, Opened, Opens, Shut, Opening
  <2> QED BY <1>0, <2>1, <2>2, <2>3 DEF Lacks
<1>10. CASE Recover
  BY <1>10, CallsLacks, Names DEF Recover, Lacks
<1>11. CASE NoSecret
  BY <1>11, BecomeLacks, RestsLack, Names DEF NoSecret, Lacks
<1>12. CASE CloseForRestore
  <2>1. proc' = Cut(proc) /\ opening' = Shut /\ UNCHANGED <<keychain, memory, recall>>
    BY <1>12 DEF CloseForRestore
  <2> QED BY <1>0, <1>a, <2>1, CutLacks DEF Lacks
<1>13. CASE Wipe
  <2>1. proc' = Cut(Outdated) /\ opening' = Shut /\ UNCHANGED <<keychain, recall>> /\ memory' = None
    BY <1>13 DEF Wipe, SetMemory
  <2> QED BY <1>0, <1>a, <2>1, OutdatedLacks, CutLacks DEF Lacks
<1>14. CASE Kill
  <2>1. \A q \in Proc : proc'[q] = Idle
    BY <1>14 DEF Kill
  <2> QED BY <1>0, <1>a, <1>14, <2>1, RestsLack DEF Kill, Lacks, Keychain
<1> QED BY <1>1, <1>2, <1>3, <1>4, <1>5, <1>6, <1>7, <1>8, <1>9, <1>10, <1>11, <1>12, <1>13, <1>14
        DEF Elsewhere

\* The counts of the keys and the exceptions only grow.
LEMMA SpentGrows ==
    ASSUME Typed, Next
    PROVE spent'.accounts >= spent.accounts /\ spent'.chance >= spent.chance /\ odd \subseteq odd'
<1>0. /\ spent \in Spent /\ spent.accounts \in Int /\ spent.chance \in Int
  BY DEF Typed, Spent
<1> DEFINE Grows == spent'.accounts >= spent.accounts /\ spent'.chance >= spent.chance
<1>1. ASSUME NEW r \in BOOLEAN, Answers(r) PROVE Grows
  BY <1>0, <1>1 DEF Answers, Spent
<1>2. ASSUME NEW p \in Proc, NEW r \in BOOLEAN, Resolve(p, r) PROVE Grows /\ odd \subseteq odd'
  <2>1. Grows
    <3>1. CASE ReadWords(p, r)
      <4>1. PICK b \in BOOLEAN : spent' = [spent EXCEPT !.refusals = IF r THEN @ + 1 ELSE @,
                                              !.chance = IF b THEN @ + 1 ELSE @]
        <5>1. PICK words \in Words(r) :
                spent' = [spent EXCEPT !.refusals = IF r THEN @ + 1 ELSE @,
                     !.chance = IF Chosen(proc[p].stored, proc[p].canary, words)
                                     \cap {Chance(spent.chance + 1)} # {}
                                THEN @ + 1 ELSE @]
          BY <3>1 DEF ReadWords
        <5> DEFINE b == Chosen(proc[p].stored, proc[p].canary, words) \cap {Chance(spent.chance + 1)} # {}
        <5>2. b \in BOOLEAN
          OBVIOUS
        <5> QED BY <5>1, <5>2
      <4> QED BY <1>0, <4>1 DEF Spent
    <3> QED BY <1>1, <1>2, <3>1 DEF Resolve, ReadKey, ReadCanary, WriteKey, Seal, Look, Drop
  <2>2. odd \subseteq odd'
    BY <1>2 DEF Resolve, ReadKey, ReadCanary, ReadWords, WriteKey, Seal, Look, Drop,
                Goes, GoesWithout, Gets, Concluded, Looked, Restarts, Decides
  <2> QED BY <2>1, <2>2
<1>3. ASSUME NEW r \in BOOLEAN, Migrate(r) PROVE Grows /\ odd \subseteq odd'
  <2>1. Answers(r)
    BY <1>3 DEF Migrate, OpenWords, OpenKey, OpenSeal, Rewrap, KeepSeal, KeepKey, WrapBack
  <2>2. odd \subseteq odd'
    <3>1. odd' = odd \/ odd' = odd \cup {"unsealed"}
      BY <1>3 DEF Migrate, OpenWords, OpenKey, OpenSeal, Rewrap, KeepSeal, KeepKey, WrapBack
    <3> QED BY <3>1
  <2>3. Grows
    BY <1>1, <2>1
  <2> QED BY <2>2, <2>3
<1>4. ASSUME NEW r \in BOOLEAN, SaveWords(r) \/ SaveSecret(r) PROVE Grows /\ odd \subseteq odd'
  <2>1. odd' = odd
    BY <1>4 DEF SaveWords, SaveSecret
  <2>2. Answers(TRUE) \/ Answers(r) \/ spent' = [spent EXCEPT !.accounts = @ + 1]
    BY <1>4 DEF SaveWords, SaveSecret
  <2>3. CASE spent' = [spent EXCEPT !.accounts = @ + 1]
    BY <1>0, <2>1, <2>3 DEF Spent
  <2> QED BY <1>1, <2>1, <2>2, <2>3
<1>5. ASSUME NEW r \in BOOLEAN, WipeWords(r) \/ WipeRecord(r) \/ WipeAgain(r)
      PROVE Grows /\ odd \subseteq odd'
  BY <1>1, <1>5 DEF WipeWords, WipeRecord, WipeAgain
<1>6. ASSUME Elsewhere PROVE Grows /\ odd \subseteq odd'
  BY <1>0, <1>6 DEF Elsewhere, Begin, WriteRow, Move, Unmove, Forget, Open, Mark, Encrypt, OpenFails,
     Onboard, Recover, NoSecret, CloseForRestore, SeenLands, Wipe, WipeMemory, WipeUnseen, WipeFiles, Spent
<1>7. ASSUME Kill PROVE Grows /\ odd \subseteq odd'
  BY <1>0, <1>7 DEF Kill, Spent
<1> QED BY <1>2, <1>3, <1>4, <1>5, <1>6, <1>7 DEF Next, Answered

\* What the properties except from was so before, or is new.
LEMMA Worsens == Typed /\ Next /\ ~Disturbed' => ~Disturbed
BY SpentGrows DEF Disturbed

\* The keys made so far stay made.
LEMMA MadeGrows == ASSUME Typed, Next, Typed' PROVE Made \subseteq Made'
<1>1. /\ spent.accounts \in Nat /\ spent.chance \in Nat
      /\ spent'.accounts \in Nat /\ spent'.chance \in Nat
  BY DataKeyAssumption DEF Typed, Spent
<1>2. 1..spent.accounts \subseteq 1..spent'.accounts /\ 1..spent.chance \subseteq 1..spent'.chance
  BY <1>1, SpentGrows
<1> QED BY <1>2 DEF Made

-----------------------------------------------------------------------------
(* Resolutions of an old generation end before the wipe.                   *)

\* How many answers a resolution of an old generation waits for at most.
Turns(me) ==
    IF me.pc = "key" THEN 3
    ELSE IF me.pc = "canary" THEN 2
    ELSE IF me.pc = "words" THEN 1
    ELSE IF me.pc = "write" THEN 3
    ELSE IF me.pc = "seal" THEN 5
    ELSE IF me.pc = "look" THEN IF me.wrote = {"canary", "key"} THEN 4 ELSE 2
    ELSE IF me.wrote = {"canary", "key"} THEN 3 ELSE 1

\* How many answers the wipe waits for at least.
Rounds(at) ==
    IF at \in {"memory", "words"} THEN 5
    ELSE IF at \in {"unseen", "secret"} THEN 4
    ELSE IF at = "canary" THEN 3
    ELSE IF at = "key" THEN 2
    ELSE 1

\* The wipe stands before somebody in the line.
Before(l, p) == \E i, j \in 1..Len(l) : l[i] = "wipe" /\ l[j] = p /\ i < j

\* Whoever resolves with an old generation is done before the wipe is: it has no
\* more answers to wait for, and fewer where the wipe is answered first.
InTime ==
    \A p \in Proc : proc[p].pc \in Resolving =>
        /\ Turns(proc[p]) <= Rounds(wiping)
        /\ Before(line, p) => Turns(proc[p]) < Rounds(wiping)

\* During the wipe a call rests, or is of an old generation and cut off.
Banished(me) == me = Idle \/ (me.pc \in Resolving /\ me.stale /\ me.cut)

\* What holds during a wipe that nothing disturbed.
Wiped ==
    /\ memory = None /\ disk.rows = {} /\ inflight = "nobody"
    /\ \A p \in Proc : Banished(proc[p])
    /\ wiping # "unseen" => recall \in {Unasked, None, keychain.words}
    /\ wiping \in {"memory", "words"} => opening = Shut
    /\ wiping \notin {"memory", "words"} => keychain.words = None
    /\ wiping # "again" => disk.encrypted
    /\ wiping = "again" => opening = Shut /\ disk = NewDisk
    /\ opening.pc \in {"closed", "words", "encrypt", "failing", "open"}
    /\ opening = [Shut EXCEPT !.pc = opening.pc]
    /\ InTime

\* What holds while no wipe is under way, whatever key is in use: who may resolve
\* when, and that the words are remembered where a key may be in memory that the
\* records do not have yet.
Common ==
    /\ recall \in {Unasked, None, keychain.words}
    /\ opening.pc = "open" => disk.encrypted
    /\ opening.pc # "open" => \A p \in Proc \ {"opening"} : proc[p] = Idle
    /\ ~proc["opening"].stale
    /\ proc["opening"].pc \notin {"idle", "have"} => memory = None
    /\ opening.pc \in Migrating => opening.to = keychain.words /\ recall = keychain.words
    /\ opening.pc \in Migrating \cup {"words"} => ~disk.marked /\ disk.seen # "no"
    /\ memory # None /\ opening.pc \in Migrating \cup {"words", "closed", "failing"} =>
          recall = keychain.words
    /\ wallet \in {"secret", "close"} => recall = keychain.words
    /\ wallet = "words" => keychain.words = None
    /\ wallet \in {"secret", "repair", "close"} => keychain.words # None
    /\ wallet \in {"words", "secret"} => keychain.secret = None
    /\ wallet = "close" => memory # None /\ \A p \in Proc : proc[p].pc \notin Resolving
    /\ keychain.secret = None => \A p \in Proc :
          /\ proc[p].pc \in Resolving => p = inflight /\ ~proc[p].stale /\ memory = None
          /\ proc[p].pc = "have" => memory # None

\* Resolutions and the wipe have one to five answers to wait for.
LEMMA TurnsAre ==
    /\ \A me : Turns(me) \in 1..5
    /\ \A at : Rounds(at) \in 1..5
BY DEF Turns, Rounds

\* Being before somebody, in the line without its first.
LEMMA TailBefore ==
    ASSUME NEW l \in Seq(Actor), l # <<>>, NEW p
    PROVE /\ Before(Tail(l), p) => Before(l, p)
          /\ Head(l) = "wipe" /\ p \in ToSet(l) /\ p # "wipe" => Before(l, p)
<1>1. /\ Len(l) \in Nat /\ Len(l) > 0 /\ Head(l) = l[1] /\ Len(Tail(l)) = Len(l) - 1
      /\ \A i \in 1..(Len(l) - 1) : Tail(l)[i] = l[i + 1]
      /\ DOMAIN l = 1..Len(l)
  OBVIOUS
<1>2. ASSUME Before(Tail(l), p) PROVE Before(l, p)
  <2>1. PICK i, j \in 1..(Len(l) - 1) : Tail(l)[i] = "wipe" /\ Tail(l)[j] = p /\ i < j
    BY <1>1, <1>2 DEF Before
  <2>2. /\ i + 1 \in 1..Len(l) /\ j + 1 \in 1..Len(l) /\ i + 1 < j + 1
        /\ l[i + 1] = "wipe" /\ l[j + 1] = p
    BY <1>1, <2>1
  <2> QED BY <2>2 DEF Before
<1>3. ASSUME Head(l) = "wipe", p \in ToSet(l), p # "wipe" PROVE Before(l, p)
  <2>1. PICK j \in 1..Len(l) : l[j] = p
    BY <1>1, <1>3 DEF ToSet
  <2>2. 1 \in 1..Len(l) /\ j # 1 /\ 1 < j /\ l[1] = "wipe"
    BY <1>1, <1>3, <2>1
  <2> QED BY <2>1, <2>2 DEF Before
<1> QED BY <1>2, <1>3

\* Being before somebody, in the line with one more.
LEMMA AppendBefore ==
    ASSUME NEW l \in Seq(Actor), NEW x \in Actor, NEW p
    PROVE Before(Append(l, x), p) => Before(l, p) \/ (p = x /\ "wipe" \in ToSet(l))
<1>1. /\ Len(l) \in Nat /\ Len(Append(l, x)) = Len(l) + 1
      /\ \A i \in 1..Len(l) : Append(l, x)[i] = l[i]
      /\ Append(l, x)[Len(l) + 1] = x
      /\ DOMAIN l = 1..Len(l)
  OBVIOUS
<1> SUFFICES ASSUME Before(Append(l, x), p)
             PROVE  Before(l, p) \/ (p = x /\ "wipe" \in ToSet(l))
  OBVIOUS
<1>2. PICK i, j \in 1..(Len(l) + 1) : Append(l, x)[i] = "wipe" /\ Append(l, x)[j] = p /\ i < j
  BY <1>1 DEF Before
<1>3. i \in 1..Len(l) /\ l[i] = "wipe"
  BY <1>1, <1>2
<1>4. CASE j = Len(l) + 1
  BY <1>1, <1>2, <1>3, <1>4 DEF ToSet
<1>5. CASE j # Len(l) + 1
  <2>1. j \in 1..Len(l) /\ l[j] = p
    BY <1>1, <1>2, <1>5
  <2> QED BY <1>2, <1>3, <2>1 DEF Before
<1> QED BY <1>4, <1>5

\* Who already stood in line stands no worse than before.
LEMMA LineBefore ==
    ASSUME Lined, NEW rest, rest = line \/ (line # <<>> /\ rest = Tail(line)), LinesUp(rest),
           NEW p \in ToSet(rest)
    PROVE Before(line', p) => Before(line, p)
<1>1. rest \in Seq(Actor) /\ (Before(rest, p) => Before(line, p))
  <2>1. CASE rest = line
    BY <2>1 DEF Lined
  <2>2. CASE line # <<>> /\ rest = Tail(line)
    <3>1. line \in Seq(Actor) /\ Tail(line) \in Seq(Actor)
      BY <2>2, TailIs DEF Lined
    <3>2. Before(Tail(line), p) => Before(line, p)
      BY <2>2, <3>1, TailBefore
    <3> QED BY <2>2, <3>1, <3>2
  <2> QED BY <2>1, <2>2
<1> DEFINE new == {a \in Actor : Asking(a)'} \ ToSet(rest)
<1>2. CASE new = {}
  BY <1>1, <1>2 DEF LinesUp
<1>3. CASE new # {}
  <2> DEFINE x == CHOOSE a \in new : TRUE
  <2>1. x \in Actor /\ x \notin ToSet(rest)
    BY <1>3
  <2>2. line' = Append(rest, x)
    BY <1>3 DEF LinesUp
  <2> HIDE DEF x
  <2> QED BY <1>1, <2>1, <2>2, AppendBefore
<1> QED BY <1>2, <1>3

\* When the wipe has been answered, it stands before nobody.
LEMMA ServedBefore ==
    ASSUME Lined, line # <<>>, Head(line) = "wipe", LinesUp(Tail(line)), NEW p \in Proc,
           Asking(p)
    PROVE Before(line, p) /\ (Asking(p)' => ~Before(line', p))
<1> DEFINE rest == Tail(line)
<1>1. /\ line \in Seq(Actor) /\ rest \in Seq(Actor) /\ ToSet(line) = {a \in Actor : Asking(a)}
      /\ ToSet(rest) = {a \in Actor : Asking(a)} \ {"wipe"} /\ LinesUp(rest)
  BY TailIs DEF Lined
<1>2. p # "wipe" /\ p \in Actor /\ p \in ToSet(line) /\ p \in ToSet(rest)
  BY <1>1, Names
<1>3. Before(line, p)
  BY <1>1, <1>2, TailBefore
<1> HIDE DEF rest
<1>4. ~Before(rest, p)
  <2>1. \A i \in 1..Len(rest) : rest[i] \in ToSet(rest)
    BY <1>1 DEF ToSet
  <2> QED BY <1>1, <2>1 DEF Before
<1> DEFINE new == {a \in Actor : Asking(a)'} \ ToSet(rest)
<1>5. CASE new = {}
  BY <1>1, <1>3, <1>4, <1>5 DEF LinesUp
<1>6. CASE new # {}
  <2> DEFINE x == CHOOSE a \in new : TRUE
  <2>1. x \in Actor /\ x \notin ToSet(rest)
    BY <1>6
  <2>2. line' = Append(rest, x)
    BY <1>1, <1>6 DEF LinesUp
  <2> HIDE DEF x
  <2>3. ~Before(line', p)
    BY <1>1, <1>2, <1>4, <2>1, <2>2, AppendBefore
  <2> QED BY <1>3, <2>3
<1> QED BY <1>5, <1>6

\* What an old generation does next takes it nearer to its end.
LEMMA OldGeneration ==
    ASSUME Typed, Shape, NEW p \in Proc, NEW refused \in BOOLEAN, Resolve(p, refused),
           proc[p].stale, wiping # "rest", "late" \notin odd'
    PROVE \/ Settling(p, None)
          \/ \E me \in ProcState :
                /\ Continues(p, me)
                /\ me.stale /\ me.pc \in Resolving /\ Turns(me) < Turns(proc[p])
<1>0. proc[p] \in ProcState /\ keychain \in Keychain /\ ProcShape(p, proc[p])
  BY DEF Typed, Shape
<1>a. ~Restarts(p)
  BY DEF Restarts
<1>b. ASSUME NEW me \in ProcState, me.stale, NEW words, Decides(p, me, words)
      PROVE  Settling(p, None)
  <2>1. \/ GoesWithout(p) \/ Restarts(p)
    BY <1>b DEF Decides
  <2> QED BY <1>a, <2>1 DEF GoesWithout, Settling
<1>1. CASE ReadKey(p, refused)
  <2> DEFINE me == [proc[p] EXCEPT !.pc = "canary",
                                   !.stored = IF refused THEN Refused ELSE keychain.key]
  <2>1. me \in ProcState /\ me.pc = "canary" /\ me.cut = proc[p].cut /\ me.stale
    BY <1>0 DEF ProcState, Stored, Keychain
  <2>2. Goes(p, me) /\ proc[p].pc = "key"
    BY <1>1 DEF ReadKey
  <2>3. Turns(me) = 2 /\ Turns(proc[p]) = 3
    BY <2>1, <2>2 DEF Turns
  <2> HIDE DEF me
  <2> QED BY <2>1, <2>2, <2>3 DEF Goes, Continues, Resolving
<1>2. CASE ReadCanary(p, refused)
  <2> DEFINE me == [proc[p] EXCEPT !.canary = IF refused THEN Refused ELSE keychain.canary]
             you == [me EXCEPT !.pc = "words"]
  <2>1. /\ me \in ProcState /\ me.stale
        /\ you \in ProcState /\ you.pc = "words" /\ you.cut = proc[p].cut /\ you.stale
    BY <1>0 DEF ProcState, Stored, Keychain
  <2>2. (Decides(p, me, None) \/ Goes(p, you)) /\ proc[p].pc = "canary"
    BY <1>0, <1>2 DEF ReadCanary, ProcState
  <2>3. Turns(you) = 1 /\ Turns(proc[p]) = 2
    BY <2>1, <2>2 DEF Turns
  <2> HIDE DEF me, you
  <2> QED BY <1>b, <2>1, <2>2, <2>3 DEF Goes, Continues, Resolving
<1>3. CASE ReadWords(p, refused)
  <2>1. \E words : Decides(p, proc[p], words)
    BY <1>3 DEF ReadWords
  <2> QED BY <1>0, <1>b, <2>1
<1>c. ASSUME NEW me \in ProcState, me.stale, me.cut = proc[p].cut, me.key # None, Concluded(p, me)
      PROVE  /\ me.wrote # {}
             /\ Continues(p, [me EXCEPT !.pc = "look"])
             /\ [me EXCEPT !.pc = "look"] \in ProcState
             /\ [me EXCEPT !.pc = "look"].stale
             /\ [me EXCEPT !.pc = "look"].pc = "look"
             /\ [me EXCEPT !.pc = "look"].wrote = me.wrote
  <2> DEFINE you == [me EXCEPT !.pc = "look"]
  <2>1. /\ you \in ProcState /\ you.pc = "look" /\ you.cut = proc[p].cut /\ you.stale
        /\ you.wrote = me.wrote /\ you.key = me.key
    BY <1>c DEF ProcState
  <2>2. me.wrote # {} /\ Goes(p, you)
    BY <1>a, <1>c DEF Concluded
  <2> HIDE DEF you
  <2>3. Continues(p, you)
    BY <1>c, <2>1, <2>2 DEF Goes, Continues, Resolving
  <2> QED BY <2>1, <2>2, <2>3 DEF you
<1>4. CASE WriteKey(p, refused)
  <2> DEFINE me == [proc[p] EXCEPT !.wrote = {"key"}]
  <2>1. /\ me \in ProcState /\ me.cut = proc[p].cut /\ me.key = proc[p].key /\ me.stale
        /\ me.wrote = {"key"}
    BY <1>0 DEF ProcState
  <2>2. (GoesWithout(p) \/ Concluded(p, me)) /\ proc[p].pc = "write"
    BY <1>4, <2>1 DEF WriteKey
  <2> HIDE DEF me
  <2>3. me.key # None
    BY <1>0, <2>1, <2>2 DEF ProcShape
  <2>4. CASE GoesWithout(p)
    BY <2>4 DEF GoesWithout, Settling
  <2>5. CASE Concluded(p, me)
    <3> DEFINE you == [me EXCEPT !.pc = "look"]
    <3>1. /\ Continues(p, you) /\ you \in ProcState /\ you.stale /\ you.pc = "look"
          /\ you.wrote = {"key"}
      BY <1>c, <2>1, <2>3, <2>5
    <3> HIDE DEF you
    <3>2. Turns(you) = 2 /\ Turns(proc[p]) = 3
      BY <2>2, <3>1 DEF Turns
    <3> QED BY <3>1, <3>2 DEF Resolving
  <2> QED BY <2>2, <2>4, <2>5
<1>5. CASE Seal(p, refused)
  <2> DEFINE me == [proc[p] EXCEPT !.wrote = IF refused THEN @ ELSE @ \cup {"canary"}]
  <2>1. me \in ProcState /\ me.cut = proc[p].cut /\ me.key = proc[p].key /\ me.stale
    BY <1>0 DEF ProcState
  <2>2. Concluded(p, me) /\ proc[p].pc = "seal"
    BY <1>5 DEF Seal
  <2> HIDE DEF me
  <2>3. me.key # None
    BY <1>0, <2>1, <2>2 DEF ProcShape
  <2> DEFINE you == [me EXCEPT !.pc = "look"]
  <2>4. Continues(p, you) /\ you \in ProcState /\ you.stale /\ you.pc = "look"
    BY <1>c, <2>1, <2>2, <2>3
  <2> HIDE DEF you
  <2>5. Turns(you) \in {2, 4} /\ Turns(proc[p]) = 5
    BY <2>2, <2>4 DEF Turns
  <2> QED BY <2>4, <2>5 DEF Resolving
<1>d. ASSUME Looked(p), proc[p].pc \in {"look", "drop"}
      PROVE \E me \in ProcState :
                /\ Continues(p, me)
                /\ me.stale /\ me.pc \in Resolving /\ Turns(me) < Turns(proc[p])
  <2> DEFINE me == [proc[p] EXCEPT !.wrote = @ \ {Item(proc[p])}]
             you == [me EXCEPT !.pc = "look"]
  <2>1. /\ you \in ProcState /\ you.pc = "look" /\ you.cut = proc[p].cut /\ you.stale
        /\ you.wrote = proc[p].wrote \ {Item(proc[p])} /\ you.key = proc[p].key
        /\ me.wrote = you.wrote
    BY <1>0 DEF ProcState
  <2>2. Goes(p, you) /\ me.wrote # {}
    BY <1>a, <1>d DEF Looked
  <2>3. proc[p].key # None /\ proc[p].wrote \subseteq {"canary", "key"}
    BY <1>0, <1>d DEF ProcShape, ProcState
  <2> HIDE DEF me, you
  <2>4. proc[p].wrote = {"canary", "key"} /\ you.wrote = {"key"}
    BY <2>1, <2>2, <2>3 DEF Item
  <2>5. Turns(you) = 2 /\ Turns(proc[p]) \in {3, 4}
    BY <1>d, <2>1, <2>4 DEF Turns
  <2>6. Continues(p, you)
    BY <2>1, <2>2, <2>3, <2>4 DEF Goes, Continues, Resolving
  <2> QED BY <2>1, <2>5, <2>6 DEF Resolving
<1>6. CASE Look(p, refused)
  <2> DEFINE you == [proc[p] EXCEPT !.pc = "drop"]
  <2>1. /\ you \in ProcState /\ you.pc = "drop" /\ you.cut = proc[p].cut
        /\ you.wrote = proc[p].wrote /\ you.stale = proc[p].stale /\ you.key = proc[p].key
    BY <1>0 DEF ProcState
  <2>2. (Looked(p) \/ Goes(p, you)) /\ proc[p].pc = "look"
    BY <1>6 DEF Look
  <2> HIDE DEF you
  <2>3. CASE Goes(p, you)
    <3>1. Turns(you) < Turns(proc[p])
      BY <2>1, <2>2 DEF Turns
    <3>2. Continues(p, you)
      BY <1>0, <2>1, <2>2, <2>3 DEF Goes, Continues, Resolving, ProcShape
    <3> QED BY <2>1, <3>1, <3>2 DEF Resolving
  <2> QED BY <1>d, <2>2, <2>3
<1>7. CASE Drop(p, refused)
  BY <1>7, <1>d DEF Drop
<1> QED BY <1>1, <1>2, <1>3, <1>4, <1>5, <1>6, <1>7 DEF Resolve

\* Who does anything with the key during the wipe is an old generation's resolution.
LEMMA Strangers ==
    ASSUME Wiped, NEW p \in Proc
    PROVE proc[p].pc \in Resolving \cup {"idle"} /\ (proc[p].pc # "idle" => proc[p].stale /\ proc[p].cut)
BY IdleIs DEF Wiped, Banished

\* The others go on waiting while one of an old generation is answered.
LEMMA OldResolves ==
    ASSUME Typed, Shape, Lined, Wiped, wiping # "rest", NEW p \in Proc, NEW refused \in BOOLEAN,
           Resolve(p, refused), line # <<>>, p = Head(line), LinesUp(Tail(line)),
           "late" \notin odd'
    PROVE Wiped'
<1>1. /\ UNCHANGED <<opening, wiping, disk>> /\ keychain'.words = keychain.words
      /\ recall' \in {recall, None, keychain.words}
  <2>1. keychain \in Keychain
    BY DEF Typed
  <2>2. UNCHANGED <<opening, wiping, disk>> /\ keychain'.words = keychain.words
    BY <2>1 DEF Resolve, ReadKey, ReadCanary, ReadWords, WriteKey, Seal, Look, Drop, data,
                Without, Item, Keychain
  <2>3. recall' \in {recall, None, keychain.words}
    <3>1. CASE ReadWords(p, refused)
      BY <3>1 DEF ReadWords, Words, Remembered
    <3>2. CASE ~ReadWords(p, refused)
      BY <3>2 DEF Resolve, ReadKey, ReadCanary, WriteKey, Seal, Look, Drop
    <3> QED BY <3>1, <3>2
  <2> QED BY <2>2, <2>3
<1>2. proc[p].pc \in Resolving /\ proc[p].stale /\ proc[p].cut
  BY ResolveOut, Strangers DEF Resolving
<1>3. \A q \in Proc : proc[q].pc # "joined"
  BY Strangers DEF Resolving
<1>4. p # "nobody" /\ inflight = "nobody" /\ memory = None
  BY Names DEF Wiped
<1>5. /\ memory' = None /\ inflight' = "nobody"
      /\ \A q \in Proc \ {p} : proc'[q] = proc[q]
      /\ \/ proc'[p] = Idle
         \/ /\ proc'[p].pc \in Resolving /\ proc'[p].stale /\ proc'[p].cut
            /\ Turns(proc'[p]) < Turns(proc[p])
  <2>1. CASE Settling(p, None)
    BY <1>2, <1>3, <1>4, <2>1, SettlesIs DEF Settling
  <2>2. CASE \E me \in ProcState :
                /\ Continues(p, me)
                /\ me.stale /\ me.pc \in Resolving /\ Turns(me) < Turns(proc[p])
    <3>1. PICK me \in ProcState :
                /\ Continues(p, me)
                /\ me.stale /\ me.pc \in Resolving /\ Turns(me) < Turns(proc[p])
      BY <2>2
    <3>2. \A q \in Proc : proc'[q] = IF q = p THEN me ELSE proc[q]
      BY <3>1 DEF Continues, Become, Typed
    <3> QED BY <1>2, <1>4, <3>1, <3>2 DEF Continues
  <2> QED BY <1>2, <2>1, <2>2, OldGeneration
<1>6. \A q \in Proc : Banished(proc'[q])
  BY <1>2, <1>5 DEF Wiped, Banished
<1>7. ASSUME NEW q \in Proc, proc'[q].pc \in Resolving
      PROVE  /\ Turns(proc'[q]) <= Rounds(wiping)
             /\ Before(line', q) => Turns(proc'[q]) < Rounds(wiping)
  <2>0. Turns(proc'[q]) \in Int /\ Turns(proc[q]) \in Int /\ Rounds(wiping) \in Int
    BY TurnsAre
  <2>1. CASE q = p
    <3>1. Turns(proc'[p]) < Turns(proc[p])
      BY <1>5, <1>7, <2>1, IdleIs DEF Resolving
    <3>2. Turns(proc[p]) <= Rounds(wiping)
      BY <1>2 DEF Wiped, InTime
    <3> QED BY <2>0, <2>1, <3>1, <3>2
  <2>2. CASE q # p
    <3>1. proc'[q] = proc[q]
      BY <1>5, <2>2
    <3>2. q \in ToSet(Tail(line))
      BY <1>7, <2>2, <3>1, TailIs, AskingIs, Names
    <3>3. Before(line', q) => Before(line, q)
      BY <3>2, LineBefore
    <3> QED BY <1>7, <3>1, <3>3 DEF Wiped, InTime
  <2> QED BY <2>1, <2>2
<1>8. InTime'
  BY <1>1, <1>7 DEF InTime, Before
<1> QED BY <1>1, <1>5, <1>6, <1>8 DEF Wiped

\* While the line only moves on, nobody loses time on the wipe.
LEMMA StillInTime ==
    ASSUME Typed, Shape, Lined, InTime, Rounds(wiping') = Rounds(wiping),
           NEW rest, rest = line \/ (line # <<>> /\ rest = Tail(line)), LinesUp(rest),
           rest # line => Head(line) \notin Proc,
           \A q \in Proc : proc'[q].pc \in Resolving => proc[q].pc \in Resolving
                /\ Turns(proc'[q]) = Turns(proc[q])
    PROVE InTime'
<1> SUFFICES ASSUME NEW q \in Proc, proc'[q].pc \in Resolving
             PROVE  /\ Turns(proc'[q]) <= Rounds(wiping')
                    /\ Before(line', q) => Turns(proc'[q]) < Rounds(wiping')
  BY DEF InTime, Before
<1>1. q \in ToSet(rest)
  <2>1. Asking(q) /\ q \in Actor
    BY AskingIs, Names
  <2>2. CASE rest = line
    BY <2>1, <2>2 DEF Lined
  <2>3. CASE line # <<>> /\ rest = Tail(line) /\ rest # line
    BY <2>1, <2>3, TailIs
  <2> QED BY <2>2, <2>3
<1>2. Before(line', q) => Before(line, q)
  BY <1>1, LineBefore
<1> QED BY <1>2 DEF InTime

\* Old resolutions have as many answers to wait for.
LEMMA OutdatedTurns ==
    ASSUME Typed, Shape
    PROVE \A q \in Proc : Turns(Outdated[q]) = Turns(proc[q])
BY OutdatedShape DEF Turns

\* The opening in the middle of a wipe finds no words.
LEMMA MigrateWiped ==
    ASSUME Typed, Shape, Lined, Wiped, wiping # "rest", NEW refused \in BOOLEAN,
           Migrate(refused), line # <<>>, "migration" = Head(line), LinesUp(Tail(line))
    PROVE Wiped'
<1>0. opening.pc \in {"words"} /\ opening = [Shut EXCEPT !.pc = "words"]
  BY DEF Wiped, Migrate, OpenWords, OpenKey, OpenSeal, Rewrap, KeepSeal, KeepKey, WrapBack
<1>1. OpenWords(refused)
  BY <1>0 DEF Migrate, OpenKey, OpenSeal, Rewrap, KeepSeal, KeepKey, WrapBack
<1>2. wiping \notin {"memory", "words", "again"}
  BY <1>0 DEF Wiped, Shut
<1>3. keychain.words = None /\ (wiping # "unseen" => recall \in {Unasked, None})
  BY <1>2 DEF Wiped
<1>4. PICK words \in Found(refused) :
          /\ recall' = recall
          /\ opening' = CASE words = Refused -> [opening EXCEPT !.pc = "failing"]
                          [] words = None -> [opening EXCEPT !.pc = "encrypt"]
                          [] OTHER -> [opening EXCEPT !.pc = "key", !.to = words]
  BY <1>1, <1>3 DEF OpenWords
<1>5. words \in {None, Refused}
  BY <1>3, <1>4 DEF Found, Words
<1>6. opening'.pc \in {"encrypt", "failing"} /\ opening' = [Shut EXCEPT !.pc = opening'.pc]
  <2>1. opening' = [opening EXCEPT !.pc = "failing"] \/ opening' = [opening EXCEPT !.pc = "encrypt"]
    BY <1>4, <1>5, Distinct
  <2> QED BY <1>0, <2>1 DEF Shut
<1>7. UNCHANGED <<keychain, disk, memory, inflight, proc, wiping>>
  BY <1>1 DEF OpenWords, data
<1>8. InTime'
  <2>1. "migration" \notin Proc
    BY Names
  <2>2. Rounds(wiping') = Rounds(wiping) /\ InTime
        /\ \A q \in Proc : proc'[q].pc \in Resolving => proc[q].pc \in Resolving
                                /\ Turns(proc'[q]) = Turns(proc[q])
    BY <1>7 DEF Wiped
  <2> QED BY <2>1, <2>2, StillInTime
<1> QED BY <1>2, <1>3, <1>4, <1>6, <1>7, <1>8 DEF Wiped

\* The deletions themselves.
LEMMA WipesWiped ==
    ASSUME Typed, Shape, Lined, Wiped, NEW refused \in BOOLEAN,
           WipeWords(refused) \/ WipeRecord(refused),
           line # <<>>, "wipe" = Head(line), LinesUp(Tail(line)), "leftover" \notin odd'
    PROVE Wiped'
<1>0. keychain \in Keychain /\ opening \in Opening
  BY DEF Typed
<1>1. UNCHANGED <<disk, memory, inflight, proc, opening>> /\ wiping' # "again" /\ wiping # "again"
      /\ wiping' \notin {"memory", "words"}
  BY DEF WipeWords, WipeRecord, data, Following
<1>2. Rounds(wiping') = Rounds(wiping) - 1
  BY DEF WipeWords, WipeRecord, Following, Rounds
<1>3. keychain'.words = None /\ (wiping' # "unseen" => recall' \in {Unasked, None})
  <2>1. CASE WipeWords(refused)
    <3>1. ~refused
      BY <2>1 DEF WipeWords
    <3> QED BY <1>0, <2>1, <3>1 DEF WipeWords, Keychain
  <2>2. CASE WipeRecord(refused)
    <3>1. keychain.words = None /\ recall \in {Unasked, None}
      BY <2>2 DEF WipeRecord, Wiped
    <3> QED BY <1>0, <2>2, <3>1 DEF WipeRecord, Without, Keychain
  <2> QED BY <2>1, <2>2
<1>4. InTime'
  <2> SUFFICES ASSUME NEW q \in Proc, proc[q].pc \in Resolving
               PROVE  /\ Turns(proc[q]) <= Rounds(wiping')
                      /\ Before(line', q) => Turns(proc[q]) < Rounds(wiping')
    BY <1>1 DEF InTime, Before
  <2>1. Asking(q) /\ Asking(q)'
    BY <1>1, AskingIs, AskingWillBe
  <2>2. Before(line, q) /\ ~Before(line', q)
    BY <2>1, ServedBefore
  <2>3. Turns(proc[q]) < Rounds(wiping)
    BY <2>2 DEF Wiped, InTime
  <2>4. Turns(proc[q]) \in Int /\ Rounds(wiping) \in Int
    BY TurnsAre
  <2> QED BY <1>2, <2>2, <2>3, <2>4
<1> QED BY <1>1, <1>3, <1>4 DEF Wiped

\* What happens away from the Keychain during the wipe leaves it as it was.
LEMMA ElsewhereWiped ==
    ASSUME Typed, Shape, Lined, Wiped, wiping # "rest", Elsewhere
    PROVE Wiped'
<1>0. /\ LinesUp(line) /\ wallet = "rest" /\ opening \in Opening /\ disk \in Disk
      /\ line \in Seq(Actor)
  BY DEF Elsewhere, Shape, Typed, Lined
<1>a. \A q \in Proc : proc[q].pc \in Resolving \cup {"idle"}
  BY Strangers
<1>b. ASSUME Rounds(wiping') = Rounds(wiping),
             \A q \in Proc : proc'[q].pc \in Resolving => proc[q].pc \in Resolving
                /\ Turns(proc'[q]) = Turns(proc[q])
      PROVE  InTime'
  <2>1. InTime
    BY DEF Wiped
  <2> QED BY <1>0, <1>b, <2>1, StillInTime
<1>1. CASE Open
  <2>1. wiping = "unseen" /\ UNCHANGED <<keychain, disk, memory, inflight, recall, proc, wiping>>
    BY <1>1 DEF Open, data
  <2>2. opening'.pc \in {"encrypt", "words"} /\ opening' = [Shut EXCEPT !.pc = opening'.pc]
    BY <1>1 DEF Open, Shut
  <2>3. InTime'
    BY <1>b, <2>1
  <2> QED BY <2>1, <2>2, <2>3 DEF Wiped
<1>2. CASE OpenFails
  <2>1. UNCHANGED <<keychain, disk, memory, inflight, recall, proc, wiping>> /\ opening' = Shut
        /\ opening' = [Shut EXCEPT !.pc = opening'.pc] /\ opening'.pc = "closed"
    BY <1>2 DEF OpenFails, data, Shut
  <2>2. InTime'
    BY <1>b, <2>1
  <2> QED BY <2>1, <2>2 DEF Wiped
<1>3. CASE Encrypt
  <2>1. opening.pc = "encrypt" /\ UNCHANGED <<keychain, memory, recall, wiping>>
    BY <1>3 DEF Encrypt
  <2>2. disk.encrypted /\ wiping \notin {"memory", "words", "again"}
    BY <2>1 DEF Wiped, Shut
  <2>3. Opened /\ UNCHANGED <<disk, inflight>>
    BY <1>3, <1>a, <2>2, Names DEF Encrypt, Resolving
  <2>4. opening'.pc = "open" /\ opening' = [Shut EXCEPT !.pc = opening'.pc] /\ Become("opening", Idle)
    BY <2>3 DEF Opened, Shut
  <2>5. \A q \in Proc : proc'[q] = proc[q] \/ proc'[q] = Idle
    BY <2>4, BecomeIdle, Names
  <2>6. InTime'
    BY <1>b, <2>1, <2>5, IdleIs DEF Resolving
  <2> QED BY <2>1, <2>2, <2>3, <2>4, <2>5, <2>6 DEF Wiped, Banished
<1>4. CASE SeenLands
  <2>1. UNCHANGED <<keychain, memory, inflight, recall, proc, wiping, opening>>
        /\ opening.pc = "open" /\ disk'.rows = disk.rows /\ disk'.encrypted = disk.encrypted
    BY <1>0, <1>4 DEF SeenLands, Disk
  <2>2. wiping # "again"
    BY <2>1 DEF Wiped, Shut
  <2>3. InTime'
    BY <1>b, <2>1
  <2> QED BY <2>1, <2>2, <2>3 DEF Wiped
<1>5. CASE WipeMemory
  <2>1. /\ UNCHANGED <<keychain, disk, opening>> /\ memory' = None /\ inflight' = "nobody"
        /\ recall' = Unasked /\ proc' = Outdated /\ wiping = "memory" /\ wiping' = "words"
    BY <1>5 DEF WipeMemory, data, SetMemory
  <2>2. Rounds(wiping') = Rounds(wiping)
    BY <2>1 DEF Rounds
  <2>3. InTime'
    BY <1>b, <2>1, <2>2, OutdatedTurns, OutdatedShape
  <2>4. \A q \in Proc : Banished(proc'[q])
    BY <2>1, OutdatedShape, IdleIs DEF Wiped, Banished, Resolving
  <2> QED BY <2>1, <2>3, <2>4 DEF Wiped
<1>6. CASE WipeUnseen
  <2>1. /\ UNCHANGED <<keychain, memory, inflight, proc, opening>> /\ recall' = Unasked
        /\ wiping = "unseen" /\ wiping' = "secret"
        /\ disk'.rows = disk.rows /\ disk'.encrypted = disk.encrypted
    BY <1>0, <1>6 DEF WipeUnseen, Disk
  <2>2. Rounds(wiping') = Rounds(wiping)
    BY <2>1 DEF Rounds
  <2>3. InTime'
    BY <1>b, <2>1, <2>2
  <2> QED BY <2>1, <2>3 DEF Wiped
<1>7. CASE WipeFiles
  <2>1. /\ UNCHANGED <<keychain, memory, inflight, recall, proc>> /\ opening' = Shut
        /\ wiping = "files" /\ wiping' = "again" /\ disk' = NewDisk
    BY <1>7 DEF WipeFiles
  <2>2. Rounds(wiping') = Rounds(wiping)
    BY <2>1 DEF Rounds
  <2>3. InTime'
    BY <1>b, <2>1, <2>2
  <2>a. Shut.pc = "closed" /\ Shut = [Shut EXCEPT !.pc = "closed"]
    <3>1. Shut.pc = "closed" /\ Shut \in Opening
      BY OpeningTyped DEF Shut
    <3> QED BY <3>1 DEF Opening
  <2>4. NewDisk.rows = {}
    BY DEF NewDisk
  <2>5. opening'.pc = "closed" /\ opening' = [Shut EXCEPT !.pc = opening'.pc]
    BY <2>1, <2>a
  <2> QED BY <2>1, <2>3, <2>4, <2>5 DEF Wiped
<1>8. CASE \/ \E c \in Caller : Begin(c) \/ WriteRow(c)
           \/ \E ok \in BOOLEAN : Move(ok) \/ Unmove(ok)
           \/ Forget \/ Mark \/ Onboard \/ Recover \/ NoSecret \/ CloseForRestore \/ Wipe
  BY <1>0, <1>8 DEF Wiped, Begin, WriteRow, Move, Unmove, Forget, Mark, Onboard, Recover,
                    NoSecret, CloseForRestore, Wipe
<1> QED BY <1>1, <1>2, <1>3, <1>4, <1>5, <1>6, <1>7, <1>8 DEF Elsewhere

-----------------------------------------------------------------------------
(* The first phase, and the wipe from its beginning to its end.            *)

\* The random keys.
Random == {Chance(i) : i \in 1..MaxChance}

BareProc(me) ==
    /\ me.pc \in {"idle", "key", "canary", "words", "write", "failed"}
    /\ me.pc \in {"canary", "words", "write"} => me.stored \in {None, Refused}
    /\ me.pc \in {"words", "write"} => me.canary \in {None, Refused}
    /\ me.pc = "write" => me.canary = None /\ me.key \in Random

\* The first phase: nothing is in the Keychain and nothing is encrypted; only the
\* opening may resolve a first random key.
Bare ==
    /\ keychain.key = None /\ keychain.canary = None
    /\ keychain.secret = None /\ keychain.words = None
    /\ memory = None
    /\ disk.rows = {} /\ ~disk.marked /\ ~disk.encrypted
    /\ opening.pc \in {"closed", "words", "encrypt", "failing"}
    /\ BareProc(proc["opening"])
    /\ proc["opening"].pc \in {"idle", "failed"} => inflight = "nobody"

\* The wipe ends with a bare device; every key made so far is nowhere.
LEMMA WipeEnds ==
    ASSUME Typed, Shape, Lined, Wiped, NEW refused \in BOOLEAN, WipeAgain(refused),
           line # <<>>, "wipe" = Head(line), LinesUp(Tail(line)), "leftover" \notin odd'
    PROVE /\ Common' /\ Bare' /\ gone' = Made /\ wiping' = "rest"
          /\ \A x \in Key : Lacks(x)'
<1>1. /\ ~refused /\ wiping = "again" /\ wiping' = "rest"
      /\ UNCHANGED <<disk, memory, inflight, recall, proc, opening, wallet>>
      /\ gone' = Made
  BY DEF WipeAgain, data, Made
<1>2. /\ keychain'.key = None /\ keychain'.canary = None
      /\ keychain'.secret = None /\ keychain'.words = None
  <2>1. keychain \in Keychain
    BY DEF Typed
  <2>2. keychain' = Without(Without(Without(Without(keychain, "words"), "secret"), "canary"), "key")
    BY <1>1 DEF WipeAgain
  <2> QED BY <2>1, <2>2 DEF Without, Keychain
<1>3. /\ opening = Shut /\ disk = NewDisk /\ memory = None /\ inflight = "nobody"
      /\ recall \in {Unasked, None} /\ wallet = "rest"
  BY <1>1 DEF Wiped, Shape
<1>4. ASSUME NEW p \in Proc PROVE proc[p] = Idle
  <2>1. SUFFICES ASSUME proc[p].pc \in Resolving PROVE FALSE
    BY DEF Wiped, Banished
  <2>2. Asking(p)
    BY <2>1, AskingIs
  <2>3. Before(line, p)
    BY <2>2, ServedBefore
  <2>4. Turns(proc[p]) < Rounds(wiping)
    BY <2>1, <2>3 DEF Wiped, InTime
  <2>5. Rounds(wiping) = 1 /\ Turns(proc[p]) \in 1..5
    BY <1>1, TurnsAre DEF Rounds
  <2> QED BY <2>4, <2>5
<1>5. Shut.pc = "closed" /\ Shut.from = None /\ Shut.to = None
  BY DEF Shut
<1>6. NewDisk.rows = {} /\ ~NewDisk.marked /\ ~NewDisk.encrypted
  BY DEF NewDisk
<1>7. Common'
  BY <1>1, <1>2, <1>3, <1>4, <1>5, <1>6, IdleIs, Names DEF Common, Migrating, Resolving
<1>8. Bare'
  BY <1>1, <1>2, <1>3, <1>4, <1>5, <1>6, IdleIs, Names DEF Bare, BareProc
<1>9. ASSUME NEW x \in Key PROVE Lacks(x)'
  BY <1>1, <1>2, <1>3, <1>4, <1>5, RestsLack, Distinct DEF Lacks
<1> QED BY <1>1, <1>7, <1>8, <1>9

\* The wipe begins where the device was at rest.
LEMMA WipeBegins ==
    ASSUME Typed, Shape, Lined, Common, Wipe, LinesUp(line)
    PROVE Wiped'
<1>1. /\ memory' = None /\ inflight' = "nobody" /\ opening' = Shut /\ wiping' = "memory"
      /\ proc' = Cut(Outdated) /\ UNCHANGED <<keychain, recall>>
      /\ disk' = [disk EXCEPT !.rows = {}] /\ opening.pc = "open" /\ wiping = "rest"
  BY DEF Wipe, SetMemory
<1>2. disk'.rows = {} /\ disk'.encrypted
  BY <1>1 DEF Typed, Disk, Common
<1>3. \A q \in Proc : Banished(proc'[q])
  BY <1>1, OutdatedTyped, OutdatedShape, CutIs DEF Banished
<1>4. opening'.pc = "closed" /\ opening' = [Shut EXCEPT !.pc = opening'.pc]
  <2>1. Shut.pc = "closed" /\ Shut \in Opening
    BY OpeningTyped DEF Shut
  <2> QED BY <1>1, <2>1 DEF Opening
<1>5. InTime'
  <2> SUFFICES ASSUME NEW q \in Proc
               PROVE  Turns(proc'[q]) <= 5 /\ ~Before(line', q)
    BY <1>1 DEF InTime, Rounds, Before
  <2>1. Turns(proc'[q]) <= 5
    BY TurnsAre
  <2>2. Lined'
    <3>1. Elsewhere
      BY DEF Elsewhere
    <3> QED BY <3>1, ElsewhereLined
  <2>3. ~Asking("wipe")'
    BY <1>1, AskingWillBe DEF Waits
  <2>4. "wipe" \notin ToSet(line') /\ line' \in Seq(Actor)
    BY <2>2, <2>3 DEF Lined, ToSet
  <2>5. ~Before(line', q)
    BY <2>4 DEF Before, ToSet
  <2> QED BY <2>1, <2>5
<1> QED BY <1>1, <1>2, <1>3, <1>4, <1>5 DEF Wiped, Common

-----------------------------------------------------------------------------
(* What the phases have in common.                                         *)

\* Nobody resolves the key while the database is opened, but the opening.
LEMMA WhoResolves ==
    ASSUME Shape, Common, NEW p \in Proc, proc[p].pc \in Resolving
    PROVE /\ opening.pc \in {"open", "encrypt"} /\ wallet # "close"
          /\ opening.pc = "open" => p # "opening"
          /\ opening.pc = "encrypt" => p = "opening"
BY IdleIs, Names DEF Shape, Common, Resolving

\* Resolving keeps what the phases have in common.
LEMMA ResolveCommon ==
    ASSUME Typed, Shape, Common, NEW p \in Proc, NEW refused \in BOOLEAN, Resolve(p, refused)
    PROVE Common'
<1>1. /\ UNCHANGED <<opening, wallet, wiping, disk>>
      /\ keychain'.words = keychain.words /\ keychain'.secret = keychain.secret
      /\ recall' \in {recall, None, keychain.words} /\ (recall # Unasked => recall' = recall)
  <2>1. keychain \in Keychain
    BY DEF Typed
  <2>2. /\ UNCHANGED <<opening, wallet, wiping, disk>>
        /\ keychain'.words = keychain.words /\ keychain'.secret = keychain.secret
    BY <2>1 DEF Resolve, ReadKey, ReadCanary, ReadWords, WriteKey, Seal, Look, Drop, data,
                Without, Item, Keychain
  <2>3. recall' \in {recall, None, keychain.words} /\ (recall # Unasked => recall' = recall)
    <3>1. CASE ReadWords(p, refused)
      BY <3>1 DEF ReadWords, Words, Remembered
    <3>2. CASE ~ReadWords(p, refused)
      BY <3>2 DEF Resolve, ReadKey, ReadCanary, WriteKey, Seal, Look, Drop
    <3> QED BY <3>1, <3>2
  <2> QED BY <2>2, <2>3
<1>2. proc[p].pc \in Resolving /\ Outcome(p)
  BY ResolveOut
<1>3. /\ opening.pc \in {"open", "encrypt"} /\ wallet # "close"
      /\ opening.pc = "open" => p # "opening"
      /\ opening.pc = "encrypt" => p = "opening"
  BY <1>2, WhoResolves
<1>4. keychain.words # Unasked /\ memory \in Key \cup {None}
  BY Distinct DEF Typed, Keychain
<1>a. wallet \in {"secret", "close"} => recall' = keychain.words
  BY <1>1, <1>4 DEF Common
<1>5. CASE \E k \in Key \cup {None} : Settling(p, k)
  <2>1. PICK k \in Key \cup {None} : Settling(p, k)
    BY <1>5
  <2>2. \A q \in Proc : proc'[q] \in {proc[q], Idle, Failed} \/ (k # None /\ proc'[q] = Having(k))
    BY <2>1, SettlesIs DEF Settling
  <2>3. \A q \in Proc : proc[q] = Idle => proc'[q] = Idle
    BY <1>2, <2>1, SettlesIs, IdleIs DEF Settling, Resolving
  <2>4. memory' = IF k = None THEN memory ELSE k
    BY <2>1 DEF Settling
  <2>5. ~proc'["opening"].stale
    BY <2>2, IdleIs, Names DEF Common
  <2>6. proc'["opening"].pc \notin {"idle", "have"} => memory' = None
    <3>1. CASE opening.pc = "encrypt"
      <4>1. p = "opening" /\ proc["opening"].pc \notin {"idle", "have"}
        BY <1>2, <1>3, <3>1 DEF Resolving
      <4>2. memory = None
        BY <4>1 DEF Common
      <4>3. k # None => proc'["opening"] \in {Idle, Having(k)}
        BY <2>1, <4>1, SettlesIs DEF Settling
      <4> QED BY <2>4, <4>2, <4>3, IdleIs
    <3>2. CASE opening.pc = "open"
      <4>1. proc["opening"] = Idle
        BY <3>2, Names DEF Shape, ProcShape
      <4> QED BY <2>3, <4>1, IdleIs, Names
    <3> QED BY <1>3, <3>1, <3>2
  <2>7. keychain.secret = None => \A q \in Proc :
          /\ proc'[q].pc \in Resolving => q = inflight' /\ ~proc'[q].stale /\ memory' = None
          /\ proc'[q].pc = "have" => memory' # None
    <3> SUFFICES ASSUME keychain.secret = None, NEW q \in Proc
                 PROVE  /\ proc'[q].pc \notin Resolving
                        /\ proc'[q].pc = "have" => memory' # None
      OBVIOUS
    <3>1. p = inflight /\ memory = None
      BY <1>2 DEF Common
    <3>2. proc[q].pc \in Resolving => q = p
      BY <3>1 DEF Common
    <3>3. proc'[p] \in {Idle, Failed} \/ (k # None /\ proc'[p] = Having(k))
      BY <2>1, SettlesIs DEF Settling
    <3>4. proc'[q].pc \notin Resolving
      BY <2>2, <3>2, <3>3, IdleIs DEF Resolving
    <3>5. proc'[q].pc = "have" => memory' # None
      BY <2>2, <2>4, <3>1, IdleIs DEF Common
    <3> QED BY <3>4, <3>5
  <2>8. memory' # None /\ wallet = "close" => FALSE
    BY <1>3
  <2> QED BY <1>1, <1>3, <1>a, <2>3, <2>5, <2>6, <2>7 DEF Common, Migrating
<1>6. CASE \E me \in ProcState : Continues(p, me)
  <2>1. PICK me \in ProcState : Continues(p, me)
    BY <1>6
  <2>2. /\ \A q \in Proc : proc'[q] = IF q = p THEN me ELSE proc[q]
        /\ memory' = memory /\ inflight' = inflight
        /\ me.pc \in Resolving /\ (me.stale => proc[p].stale)
    BY <2>1 DEF Continues, Become, Typed
  <2>3. \A q \in Proc \ {"opening"} : opening.pc # "open" => proc'[q] = Idle
    BY <1>3, <2>2 DEF Common
  <2>4. ~proc'["opening"].stale
    BY <2>2, Names DEF Common
  <2>5. proc'["opening"].pc \notin {"idle", "have"} => memory' = None
    BY <1>2, <2>2, Names DEF Common, Resolving
  <2>6. keychain.secret = None => \A q \in Proc :
          /\ proc'[q].pc \in Resolving => q = inflight' /\ ~proc'[q].stale /\ memory' = None
          /\ proc'[q].pc = "have" => memory' # None
    BY <1>2, <2>2 DEF Common, Resolving
  <2> QED BY <1>1, <1>3, <1>a, <2>2, <2>3, <2>4, <2>5, <2>6 DEF Common, Migrating
<1> QED BY <1>2, <1>5, <1>6 DEF Outcome

\* The migration finds the words, none, or stops.
LEMMA OpenWordsIs ==
    ASSUME Typed, NEW refused \in BOOLEAN, OpenWords(refused),
           recall \in {Unasked, None, keychain.words}
    PROVE /\ opening.pc = "words"
          /\ opening'.from = opening.from /\ opening'.moved = opening.moved
          /\ recall' \in {recall, None, keychain.words} /\ (recall # Unasked => recall' = recall)
          /\ \/ opening'.pc = "failing" /\ recall' = recall
             \/ /\ opening'.pc = "encrypt"
                /\ recall' = IF keychain.words = None THEN recall ELSE None
             \/ /\ opening'.pc = "key" /\ opening'.to = keychain.words /\ recall' = keychain.words
                /\ keychain.words # None
<1>0. opening \in Opening /\ keychain \in Keychain /\ recall \in Key \cup {None, Unasked}
  BY DEF Typed
<1>a. opening.pc = "words"
  BY DEF OpenWords
<1>1. PICK words \in Found(refused) :
          /\ recall' = IF keychain.words = None THEN recall ELSE Remembered(words)
          /\ opening' = CASE words = Refused -> [opening EXCEPT !.pc = "failing"]
                          [] words = None -> [opening EXCEPT !.pc = "encrypt"]
                          [] OTHER -> [opening EXCEPT !.pc = "key", !.to = words]
  BY DEF OpenWords
<1>2. /\ words \in {Refused, None, keychain.words}
      /\ words # Refused /\ recall # Unasked /\ keychain.words # None => words = recall
      /\ words # Refused /\ keychain.words = None => words = None
  BY <1>1 DEF Found, Words
<1>3. keychain.words # Refused /\ keychain.words # Unasked
  BY <1>0, Distinct DEF Keychain
<1>4. CASE words = Refused
  <2>1. opening' = [opening EXCEPT !.pc = "failing"] /\ recall' = recall
    BY <1>1, <1>4, Distinct DEF Remembered
  <2> QED BY <1>0, <1>a, <2>1 DEF Opening
<1>5. CASE words = None
  <2>1. /\ opening' = [opening EXCEPT !.pc = "encrypt"]
        /\ recall' = IF keychain.words = None THEN recall ELSE None
    BY <1>1, <1>5, Distinct DEF Remembered
  <2> QED BY <1>0, <1>a, <1>2, <1>5, <2>1, Distinct DEF Opening
<1>6. CASE words # None /\ words # Refused
  <2>1. opening' = [opening EXCEPT !.pc = "key", !.to = words] /\ recall' = words
        /\ words = keychain.words /\ keychain.words # None
    BY <1>1, <1>2, <1>6 DEF Remembered
  <2> QED BY <1>0, <1>a, <1>2, <1>6, <2>1 DEF Opening
<1> QED BY <1>4, <1>5, <1>6

\* As long as the database is not open, the others are idle.
LEMMA MigrateCommon ==
    ASSUME Typed, Shape, Common, NEW refused \in BOOLEAN, Migrate(refused)
    PROVE Common'
<1>0. opening \in Opening /\ keychain \in Keychain
  BY DEF Typed
<1>1. /\ opening.pc \in Migrating \cup {"words"} /\ proc["opening"] = Idle /\ wallet = "rest"
      /\ UNCHANGED <<wallet, disk>>
  BY Names DEF Migrate, OpenWords, OpenKey, OpenSeal, Rewrap, KeepSeal, KeepKey, WrapBack, Shape, ProcShape,
     Migrating, data
<1>2. \A q \in Proc : proc[q] = Idle
  BY <1>1 DEF Common, Migrating
<1>3. \A q \in Proc : proc'[q] = Idle
  <2>1. proc' = proc \/ proc' = Outdated
    BY DEF Migrate, OpenWords, OpenKey, OpenSeal, Rewrap, KeepSeal, KeepKey, WrapBack
  <2> QED BY <1>2, <2>1, OutdatedShape, IdleIs DEF Resolving
<1>4. ~disk.marked /\ disk.seen # "no"
  BY <1>1 DEF Common
<1>5. keychain'.words = keychain.words
  BY <1>0 DEF Migrate, OpenWords, OpenKey, OpenSeal, Rewrap, KeepSeal, KeepKey, WrapBack, Keychain
<1> SUFFICES /\ recall' \in {Unasked, None, keychain.words}
             /\ opening'.pc # "open"
             /\ opening'.pc \in Migrating => opening'.to = keychain.words /\ recall' = keychain.words
             /\ memory' # None /\ opening'.pc \in Migrating \cup {"words", "closed", "failing"} =>
                   recall' = keychain.words
  BY <1>1, <1>3, <1>4, <1>5, IdleIs, Names DEF Common, Resolving
<1>6. CASE OpenWords(refused)
  <2>1. memory' = memory /\ opening.pc = "words"
    BY <1>6 DEF OpenWords
  <2> QED BY <1>6, <2>1, OpenWordsIs DEF Common, Migrating
<1>7. CASE ~OpenWords(refused)
  <2>1. /\ recall' = recall /\ opening.pc \in Migrating /\ opening'.to = opening.to
        /\ opening'.pc \in Migrating \cup {"failing", "encrypt", "mark"}
    BY <1>0, <1>7 DEF Migrate, OpenKey, OpenSeal, Rewrap, KeepSeal, KeepKey, WrapBack, Opens,
       Migrating, Opening
  <2> QED BY <2>1 DEF Common, Migrating
<1> QED BY <1>6, <1>7

\* Until there is a secret key, one resolution at a time, and none once there is a
\* key.
Single(secret, ps, who, key) ==
    secret = None => \A q \in Proc :
        /\ ps[q].pc \in Resolving => q = who /\ ~ps[q].stale /\ key = None
        /\ ps[q].pc = "have" => key # None

\* A call of the key begins a second resolution only after the first.
LEMMA CallsSingle ==
    ASSUME Typed, Shape, NEW p \in Proc, Calls(p), Single(keychain.secret, proc, inflight, memory)
    PROVE /\ Single(keychain.secret, proc', inflight', memory)
          /\ \A q \in Proc : proc'[q].stale => proc[q].stale
          /\ proc'[p].pc # "have" => memory = None
          /\ \A q \in Proc : q # p => proc'[q] = proc[q]
          /\ memory # None => proc'[p].pc = "have"
<1>0. /\ Again(1, FALSE).pc = "key" /\ ~Again(1, FALSE).stale
      /\ ~[Idle EXCEPT !.pc = "joined", !.with = inflight].stale
  BY DEF Again, Idle
<1>1. \A q \in Proc : q # p => proc'[q] = proc[q]
  BY CallsShape
<1>2. \/ memory # None /\ proc'[p].pc = "have" /\ ~proc'[p].stale /\ inflight' = inflight
      \/ memory = None /\ proc'[p].pc = "joined" /\ ~proc'[p].stale /\ inflight' = inflight
      \/ /\ memory = None /\ inflight = "nobody" /\ inflight' = p
         /\ proc'[p].pc = "key" /\ ~proc'[p].stale
  BY <1>0, CallsShape, IdleIs
<1>3. Single(keychain.secret, proc', inflight', memory)
  BY <1>1, <1>2, Names DEF Single, Resolving
<1> QED BY <1>1, <1>2, <1>3

\* The same as a part of what the phases have in common.
LEMMA CommonSingle == Common => Single(keychain.secret, proc, inflight, memory)
BY DEF Common, Single

\* Making or repairing the account keeps what the phases have in common.
LEMMA WalletCommon ==
    ASSUME Typed, Shape, Common, NEW refused \in BOOLEAN, SaveWords(refused) \/ SaveSecret(refused)
    PROVE Common'
<1>0. keychain \in Keychain /\ opening.pc = "open" /\ proc["opening"] = Idle /\ disk.encrypted
      /\ "wallet" # "opening"
  BY Names DEF Typed, SaveWords, SaveSecret, Shape, ProcShape, Common
<1>1. CASE SaveWords(refused) /\ refused
  <2>1. /\ UNCHANGED <<keychain, recall, proc, inflight, memory, opening, disk>>
        /\ wallet' = "rest"
    BY <1>1 DEF SaveWords, data
  <2> QED BY <2>1 DEF Common
<1>2. CASE SaveWords(refused) /\ ~refused
  <2> DEFINE mine == Derived(spent.accounts + 1)
  <2>1. /\ keychain' = [keychain EXCEPT !.words = mine] /\ recall' = mine /\ wallet' = "secret"
        /\ Calls("wallet") /\ UNCHANGED <<memory, opening, disk>> /\ wallet = "words"
    BY <1>2 DEF SaveWords, data
  <2>2. mine # None
    BY DEF Derived, None
  <2>3. keychain'.words = mine /\ keychain'.secret = keychain.secret /\ keychain.secret = None
    BY <1>0, <2>1 DEF Keychain, Common
  <2>4. /\ Single(keychain.secret, proc', inflight', memory)
        /\ \A q \in Proc : q # "wallet" => proc'[q] = proc[q]
    BY <2>1, CallsSingle, CommonSingle, Names
  <2> QED BY <1>0, <2>1, <2>2, <2>3, <2>4, IdleIs, Names DEF Common, Single, Migrating
<1>3. CASE SaveSecret(refused)
  <2>1. /\ Become("wallet", Idle) /\ UNCHANGED <<memory, opening, disk, inflight, recall>>
        /\ keychain' = IF refused THEN keychain ELSE [keychain EXCEPT !.secret = proc["wallet"].key]
        /\ wallet' \in IF refused \/ wallet = "repair" THEN {"rest"} ELSE {"rest", "close"}
        /\ wallet \in {"secret", "repair"} /\ proc["wallet"].pc = "have"
    BY <1>3 DEF SaveSecret, data
  <2>2. proc["wallet"].key # None
    BY <2>1, Names DEF Shape, ProcShape
  <2>3. keychain'.words = keychain.words /\ keychain'.secret = IF refused THEN keychain.secret ELSE proc["wallet"].key
    BY <1>0, <2>1 DEF Keychain
  <2>4. \A q \in Proc : proc'[q] = IF q = "wallet" THEN Idle ELSE proc[q]
    BY <2>1, BecomeIdle, Names
  <2>5. wallet' = "close" => memory' # None /\ \A q \in Proc : proc'[q].pc \notin Resolving
    <3> SUFFICES ASSUME wallet' = "close" PROVE memory # None /\ \A q \in Proc : proc'[q].pc \notin Resolving
      BY <2>1
    <3>1. wallet = "secret" /\ keychain.secret = None
      BY <2>1 DEF Common
    <3>2. memory # None
      BY <2>1, <3>1, Names DEF Common
    <3>3. \A q \in Proc : proc[q].pc \notin Resolving
      BY <3>1, <3>2 DEF Common
    <3> QED BY <2>4, <3>2, <3>3, IdleIs DEF Resolving
  <2>6. keychain'.secret = None => \A q \in Proc :
          /\ proc'[q].pc \in Resolving => q = inflight' /\ ~proc'[q].stale /\ memory' = None
          /\ proc'[q].pc = "have" => memory' # None
    BY <2>1, <2>2, <2>3, <2>4, IdleIs DEF Common, Resolving
  <2>7. wallet' = "close" => recall' = keychain'.words /\ keychain'.words # None
    BY <2>1, <2>3 DEF Common
  <2> QED BY <1>0, <2>1, <2>3, <2>4, <2>5, <2>6, <2>7, IdleIs, Names DEF Common, Migrating
<1> QED BY <1>1, <1>2, <1>3

\* What happens away from the Keychain keeps what the phases have in common.
LEMMA ElsewhereCommon ==
    ASSUME Typed, Shape, Common, wiping = "rest", wiping' = "rest", Elsewhere
    PROVE Common'
<1>0. keychain \in Keychain /\ opening \in Opening /\ disk \in Disk /\ "opening" \in Proc /\ "wallet" \in Proc
  BY Names DEF Typed
<1>1. CASE \E c \in Caller : Begin(c)
  <2>1. PICK c \in Caller : Begin(c)
    BY <1>1
  <2>2. c \in Proc /\ c # "opening" /\ c # "wallet"
    BY Names DEF Proc
  <2>3. /\ Calls(c) /\ opening.pc = "open" /\ proc[c].pc = "idle"
        /\ UNCHANGED <<keychain, disk, memory, recall, opening, wallet>>
    BY <2>1 DEF Begin, data
  <2>4. /\ Single(keychain.secret, proc', inflight', memory)
        /\ \A q \in Proc : q # c => proc'[q] = proc[q]
        /\ memory # None => proc'[c].pc = "have"
    BY <2>2, <2>3, CallsSingle, CommonSingle
  <2>5. wallet = "close" => \A q \in Proc : proc'[q].pc \notin Resolving
    BY <2>4 DEF Common, Resolving
  <2> QED BY <1>0, <2>2, <2>3, <2>4, <2>5 DEF Common, Single, Migrating
<1>2. CASE \E c \in Caller : WriteRow(c)
  <2>1. PICK c \in Caller : WriteRow(c)
    BY <1>2
  <2>2. c \in Proc /\ c # "opening"
    BY Names DEF Proc
  <2>3. /\ Become(c, Idle) /\ opening.pc = "open" /\ disk'.encrypted = disk.encrypted
        /\ UNCHANGED <<keychain, memory, inflight, recall, opening, wallet>>
    BY <1>0, <2>1 DEF WriteRow, Disk
  <2>4. \A q \in Proc : proc'[q] = IF q = c THEN Idle ELSE proc[q]
    BY <2>2, <2>3, BecomeIdle
  <2> QED BY <1>0, <2>2, <2>3, <2>4, IdleIs DEF Common, Migrating, Resolving
<1>3. CASE \/ \E ok \in BOOLEAN : Move(ok) \/ Unmove(ok)
           \/ Mark
  <2>1. /\ UNCHANGED <<keychain, memory, inflight, recall, proc, wallet>>
        /\ opening.pc \in Migrating \cup {"mark"} /\ opening'.to = opening.to
        /\ \/ opening'.pc \in Migrating \cup {"failing"} /\ disk'.marked = disk.marked /\ disk'.seen = disk.seen
              /\ opening.pc \in Migrating
           \/ opening'.pc = "encrypt"
    BY <1>0, <1>3 DEF Move, Unmove, Mark, Opens, Migrating, Opening, Disk
  <2> QED BY <2>1 DEF Common, Migrating
<1>4. CASE Forget
  <2>1. /\ keychain.secret # None /\ opening.pc = "open" /\ wallet = "rest" /\ memory' = None
        /\ proc' = Outdated /\ UNCHANGED <<keychain, disk, recall, opening, wallet>>
    BY <1>4 DEF Forget, SetMemory, data
  <2>2. proc["opening"].pc = "idle" /\ ~proc["opening"].stale
    BY <2>1 DEF Shape, Common
  <2>3. proc'["opening"] = proc["opening"]
    BY <1>0, <2>1, <2>2, OutdatedShape DEF Resolving
  <2> QED BY <2>1, <2>2, <2>3 DEF Common, Migrating
<1>5. CASE Open
  <2>1. /\ UNCHANGED <<keychain, disk, memory, inflight, recall, proc, wallet>>
        /\ opening.pc = "closed"
        /\ opening'.pc = IF disk.marked \/ disk.seen = "no" THEN "encrypt" ELSE "words"
    BY <1>5 DEF Open, Shut, data
  <2> QED BY <2>1 DEF Common, Migrating
<1>6. CASE OpenFails
  <2>1. /\ UNCHANGED <<keychain, disk, memory, inflight, recall, proc, wallet>>
        /\ opening.pc = "failing" /\ opening'.pc = "closed"
    BY <1>6 DEF OpenFails, Shut, data
  <2> QED BY <2>1 DEF Common, Migrating
<1>7. CASE Encrypt
  <2>1. opening.pc = "encrypt" /\ wallet = "rest" /\ UNCHANGED <<keychain, memory, recall, wallet>>
    BY <1>7 DEF Encrypt, Shape
  <2>2. CASE Opened /\ disk'.encrypted /\ UNCHANGED inflight
    <3>1. opening'.pc = "open" /\ Become("opening", Idle)
      BY <2>2 DEF Opened, Shut
    <3>2. \A q \in Proc : proc'[q] = IF q = "opening" THEN Idle ELSE proc[q]
      BY <1>0, <3>1, BecomeIdle
    <3> QED BY <1>0, <2>1, <2>2, <3>1, <3>2, IdleIs DEF Common, Migrating, Resolving
  <2>3. CASE Calls("opening") /\ UNCHANGED <<opening, disk>>
    <3>1. /\ Single(keychain.secret, proc', inflight', memory)
          /\ \A q \in Proc : q # "opening" => proc'[q] = proc[q]
          /\ proc'["opening"].pc # "have" => memory = None
          /\ ~proc'["opening"].stale
      BY <1>0, <2>3, CallsSingle, CommonSingle DEF Common
    <3> QED BY <1>0, <2>1, <2>3, <3>1 DEF Common, Migrating, Single
  <2>4. CASE Become("opening", Idle) /\ Opens("failing") /\ UNCHANGED <<disk, inflight>>
             /\ proc["opening"].pc = "failed"
    <3>1. \A q \in Proc : proc'[q] = IF q = "opening" THEN Idle ELSE proc[q]
      BY <1>0, <2>4, BecomeIdle
    <3>2. opening'.pc = "failing" /\ memory = None
      BY <1>0, <2>4 DEF Opens, Opening, Common
    <3> QED BY <1>0, <2>1, <2>4, <3>1, <3>2, IdleIs DEF Common, Migrating, Resolving
  <2>5. disk.encrypted /\ UNCHANGED disk => disk'.encrypted
    OBVIOUS
  <2>6. disk' = [disk EXCEPT !.encrypted = TRUE] => disk'.encrypted
    BY <1>0 DEF Disk
  <2> QED BY <1>7, <2>2, <2>3, <2>4, <2>5, <2>6 DEF Encrypt
<1>8. CASE Onboard
  <2>1. /\ keychain.words = None /\ keychain.secret = None /\ opening.pc = "open" /\ wallet' = "words"
        /\ recall' = Unasked /\ UNCHANGED <<keychain, disk, memory, inflight, proc, opening>>
    BY <1>8 DEF Onboard, data
  <2> QED BY <2>1 DEF Common, Migrating
<1>9. CASE Recover
  <2>1. /\ keychain.words # None /\ opening.pc = "open" /\ wallet' = "repair" /\ Calls("wallet")
        /\ UNCHANGED <<keychain, disk, memory, recall, opening>>
    BY <1>9 DEF Recover, data
  <2>2. /\ Single(keychain.secret, proc', inflight', memory)
        /\ \A q \in Proc : q # "wallet" => proc'[q] = proc[q]
    BY <1>0, <2>1, CallsSingle, CommonSingle
  <2> QED BY <1>0, <2>1, <2>2 DEF Common, Migrating, Single
<1>10. CASE NoSecret
  <2>1. /\ Become("wallet", Idle) /\ wallet' = "rest" /\ opening.pc = "open"
        /\ UNCHANGED <<keychain, disk, memory, inflight, recall, opening>>
    BY <1>10 DEF NoSecret, Shape, data
  <2>2. \A q \in Proc : proc'[q] = IF q = "wallet" THEN Idle ELSE proc[q]
    BY <1>0, <2>1, BecomeIdle
  <2> QED BY <1>0, <2>1, <2>2, IdleIs DEF Common, Migrating, Resolving
<1>11. CASE CloseForRestore
  <2>1. /\ proc' = Cut(proc) /\ opening' = Shut /\ wallet' = "rest" /\ wallet = "close"
        /\ UNCHANGED <<keychain, disk, memory, inflight, recall>>
    BY <1>11 DEF CloseForRestore, data
  <2>2. \A q \in Proc : proc'[q] = Idle
    BY <2>1, CutIs DEF Common, Typed
  <2>3. opening'.pc = "closed"
    BY <2>1 DEF Shut
  <2> QED BY <1>0, <2>1, <2>2, <2>3, IdleIs DEF Common, Migrating, Resolving
<1>12. CASE SeenLands
  <2>1. /\ opening.pc = "open" /\ disk'.encrypted = disk.encrypted
        /\ UNCHANGED <<keychain, memory, inflight, recall, proc, opening, wallet>>
    BY <1>0, <1>12 DEF SeenLands, Disk
  <2> QED BY <2>1 DEF Common, Migrating
<1>13. CASE Wipe \/ WipeMemory \/ WipeUnseen \/ WipeFiles
  BY <1>13 DEF Wipe, WipeMemory, WipeUnseen, WipeFiles
<1> QED BY <1>1, <1>2, <1>3, <1>4, <1>5, <1>6, <1>7, <1>8, <1>9, <1>10, <1>11, <1>12, <1>13
        DEF Elsewhere

\* After the end of the process the device is at rest.
LEMMA KillCommon == ASSUME Typed, Kill PROVE Common'
<1>1. /\ memory' = None /\ recall' = Unasked /\ opening' = Shut /\ wallet' = "rest"
      /\ \A q \in Proc : proc'[q] = Idle
  BY DEF Kill
<1>2. opening'.pc = "closed"
  BY <1>1 DEF Shut
<1> QED BY <1>1, <1>2, IdleIs, Names DEF Common, Migrating, Resolving

-----------------------------------------------------------------------------
(* The phases.                                                             *)

\* The second phase: a random key is stored, everything is under it or already under
\* the words' key, and whoever resolves gets it or none.
RandomProc(p, me, k) ==
    /\ me.pc # "write"
    /\ me.pc \in {"key", "canary", "words"} => me.wrote = {}
    /\ me.pc = "canary" => me.stored \in {k, Refused}
    /\ me.pc = "words" => me.stored = Refused /\ me.canary \in {None, Refused, k}
    /\ me.pc \in {"seal", "look", "drop", "have"} => me.key = k
    /\ me.pc = "seal" => me.wrote \subseteq (IF p = "opening" THEN {"key"} ELSE {})
    /\ me.pc \in {"look", "drop"} => me.wrote = {"canary"}
AtRandom ==
    /\ keychain.key \in Random /\ keychain.canary \in {None, keychain.key}
    /\ keychain.secret \in {None, keychain.key, keychain.words}
    /\ memory \in {None, keychain.key}
    /\ disk.rows \subseteq {keychain.key, keychain.words} \ {None} /\ ~disk.marked
    /\ opening.pc \notin {"keepkey", "mark"}
    /\ opening.pc \in {"seal", "rewrap", "move", "keepseal", "unmove", "wrapback"} =>
          opening.from = keychain.key
    /\ opening.pc \in {"move", "keepseal", "unmove"} => keychain.secret \in {None, keychain.words}
    /\ opening.pc \in {"keepseal", "unmove"} => disk.rows \subseteq {keychain.words}
    /\ opening.pc = "keepseal" => opening.moved
    /\ \A p \in Proc : RandomProc(p, proc[p], keychain.key)

\* The third phase: the canary is sealed with the words' key, and nothing is under
\* another one, unless the stored key was used without the canary's answer. The key
\* in memory may be another only while the migration will be tried again.
KeptProc(me, w) ==
    /\ me.pc # "seal"
    /\ me.pc \in {"words", "write"} => me.canary \in {w, Refused}
    /\ me.pc = "words" /\ me.canary = Refused => me.stored \in {None, Refused}
    /\ me.pc \in {"write", "look", "drop"} => me.key = w
    /\ me.pc = "write" => me.canary = w
    /\ me.pc \in {"look", "drop"} => me.wrote = {"key"}
Carried ==
    /\ opening.pc \in Migrating \cup {"words", "closed", "failing"}
    /\ recall = keychain.words /\ disk.seen # "no" /\ ~disk.marked
Kept ==
    /\ keychain.canary = keychain.words /\ keychain.words # None
    /\ opening.pc \notin {"rewrap", "move", "unmove", "wrapback"}
    /\ opening.pc = "keepseal" => ~opening.moved
    /\ \A p \in Proc : KeptProc(proc[p], keychain.words)
    /\ "unsealed" \notin odd =>
          /\ disk.rows \subseteq {keychain.words}
          /\ keychain.secret \in {None, keychain.words}
          /\ \A p \in Proc : proc[p].pc = "have" => proc[p].key = keychain.words
          /\ memory \in {None, keychain.words} \/ Carried

\* A random key is a key, and not the words' key.
LEMMA KeyKinds ==
    /\ \A k \in Random : k \in Key /\ k # None /\ k # Refused /\ k # Unasked
    /\ \A k \in Random : \A a : k # Derived(a)
    /\ Typed => keychain.words \notin Random /\ keychain.words # Refused /\ keychain.words # Unasked
                /\ (keychain.words # None => keychain.words \in Key)
<1>1. \A k \in Random : k \in Key
  BY Distinct DEF Random
<1>2. \A k \in Random : \A a : k # Derived(a)
  BY Distinct DEF Random
<1>3. ASSUME Typed
      PROVE keychain.words \notin Random /\ keychain.words # Refused /\ keychain.words # Unasked
                /\ (keychain.words # None => keychain.words \in Key)
  <2>1. keychain.words = None \/ \E a \in 1..MaxAccounts : keychain.words = Derived(a)
    BY <1>3 DEF Typed, Keychain
  <2> QED BY <1>1, <1>2, <2>1, Distinct
<1> QED BY <1>1, <1>2, <1>3, Distinct

\* The first random key is written before anything is under it.
LEMMA BareResolves ==
    ASSUME Typed, Shape, Common, Bare, NEW p \in Proc, NEW refused \in BOOLEAN, Resolve(p, refused)
    PROVE Bare' \/ AtRandom'
<1> DEFINE o == proc["opening"]
<1>0. /\ keychain \in Keychain /\ o \in ProcState /\ proc \in [Proc -> ProcState]
      /\ spent.chance \in Int /\ "opening" \in Proc
  BY Names DEF Typed, Spent
<1>1. /\ p = "opening" /\ ~o.stale /\ memory = None /\ inflight = "opening" /\ o.pc \in Resolving
      /\ opening.pc = "encrypt"
  <2>1. proc[p].pc \in Resolving
    BY ResolveOut
  <2>2. opening.pc # "open"
    BY DEF Bare
  <2>3. p = "opening" /\ opening.pc = "encrypt"
    BY <2>1, <2>2, WhoResolves
  <2> QED BY <2>1, <2>3 DEF Common, Bare
<1>2. \A q \in Proc \ {"opening"} : proc[q] = Idle
  BY <1>1 DEF Common
<1>3. UNCHANGED <<disk, opening>>
  BY DEF Resolve, ReadKey, ReadCanary, ReadWords, WriteKey, Seal, Look, Drop, data
<1>a. ASSUME Settling("opening", None), UNCHANGED keychain PROVE Bare'
  <2>1. proc'["opening"] \in {Idle, Failed} /\ inflight' = "nobody" /\ memory' = None
    BY <1>0, <1>1, <1>a, SettlesIs, Names DEF Settling
  <2> QED BY <1>3, <1>a, <2>1, IdleIs DEF Bare, BareProc
<1>b. ASSUME NEW me, Goes("opening", me), UNCHANGED keychain, BareProc(me), me.pc \notin {"idle", "failed"}
      PROVE  Bare'
  <2>1. proc'["opening"] = me /\ inflight' = inflight /\ memory' = memory
    BY <1>0, <1>b DEF Goes, Become
  <2> QED BY <1>3, <1>b, <2>1 DEF Bare
<1>4. CASE ReadKey(p, refused)
  <2> DEFINE me == [o EXCEPT !.pc = "canary", !.stored = IF refused THEN Refused ELSE keychain.key]
  <2>1. Goes("opening", me) /\ UNCHANGED keychain
    BY <1>1, <1>4 DEF ReadKey
  <2>2. me.pc = "canary" /\ me.stored \in {None, Refused}
    BY <1>0 DEF ProcState, Bare
  <2> HIDE DEF me
  <2> QED BY <1>b, <2>1, <2>2 DEF BareProc
<1>5. CASE ReadCanary(p, refused)
  <2> DEFINE me == [o EXCEPT !.canary = IF refused THEN Refused ELSE keychain.canary]
             you == [me EXCEPT !.pc = "words"]
  <2>1. o.stored \in {None, Refused} /\ o.pc = "canary"
    BY <1>1, <1>5 DEF ReadCanary, Bare, BareProc, ProcState
  <2>2. /\ me.stored = o.stored /\ you.pc = "words" /\ you.stored = o.stored
        /\ you.canary \in {None, Refused}
    BY <1>0, <2>1 DEF ProcState, Bare
  <2>3. ~Irrelevant(me.stored, me.canary)
    BY <2>1, <2>2 DEF Irrelevant
  <2>4. Goes("opening", you) /\ UNCHANGED keychain
    BY <1>1, <1>5, <2>3 DEF ReadCanary
  <2> HIDE DEF me, you
  <2> QED BY <1>b, <2>1, <2>2, <2>4 DEF BareProc
<1>6. CASE ReadWords(p, refused)
  <2>1. PICK words \in Words(refused) : Decides(p, o, words)
    BY <1>1, <1>6 DEF ReadWords
  <2>2. words \in {None, Refused} /\ UNCHANGED keychain /\ o.pc = "words"
    BY <1>1, <1>6, <2>1 DEF ReadWords, Words, Common, Bare
  <2>3. o.stored \in {None, Refused} /\ o.canary \in {None, Refused}
    BY <2>2 DEF Bare, BareProc
  <2>4. CASE Settling(p, None)
    BY <1>1, <1>a, <2>2, <2>4
  <2>5. CASE \E k \in Chosen(o.stored, o.canary, words) :
                /\ k \in Key
                /\ \/ /\ k # o.stored /\ UNCHANGED <<memory, inflight, odd>>
                      /\ Become(p, [o EXCEPT !.pc = "write", !.key = k])
                   \/ k = o.stored
    <3>1. PICK k \in Chosen(o.stored, o.canary, words) :
                /\ k \in Key
                /\ \/ /\ k # o.stored /\ UNCHANGED <<memory, inflight, odd>>
                      /\ Become(p, [o EXCEPT !.pc = "write", !.key = k])
                   \/ k = o.stored
      BY <2>5
    <3>2. k # o.stored
      BY <2>3, <3>1, Distinct
    <3>3. o.canary = None /\ k = Chance(spent.chance + 1)
      BY <2>2, <2>3, <3>1, Distinct DEF Chosen
    <3>4. k \in Random
      <4>1. PICK i \in 1..MaxChance : k = Chance(i)
        BY <3>1, <3>3, Distinct DEF Key
      <4> QED BY <4>1 DEF Random
    <3> DEFINE me == [o EXCEPT !.pc = "write", !.key = k]
    <3>5. me.pc = "write" /\ me.key = k /\ me.stored = o.stored /\ me.canary = o.canary
      BY <1>0 DEF ProcState
    <3>6. Goes("opening", me)
      BY <1>1, <3>1, <3>2 DEF Goes
    <3> HIDE DEF me
    <3> QED BY <1>b, <2>2, <2>3, <3>3, <3>4, <3>5, <3>6 DEF BareProc
  <2> QED BY <1>0, <1>1, <2>1, <2>4, <2>5, DecidesOutcome
<1>7. CASE WriteKey(p, refused) /\ refused
  BY <1>1, <1>7, <1>a DEF WriteKey, GoesWithout, Settling
<1>8. CASE WriteKey(p, refused) /\ ~refused
  <2> DEFINE me == [o EXCEPT !.wrote = {"key"}]
             you == [me EXCEPT !.pc = "seal"]
  <2>1. o.pc = "write" /\ o.canary = None /\ o.key \in Random
    BY <1>1, <1>8 DEF WriteKey, Bare, BareProc
  <2>2. me.canary = None /\ ~me.stale /\ me.key = o.key
    BY <1>0, <1>1, <2>1 DEF ProcState
  <2>3. you.pc = "seal" /\ you.key = o.key /\ you.wrote = {"key"}
    BY <1>0, <2>1 DEF ProcState
  <2>4. keychain' = [keychain EXCEPT !.key = o.key] /\ Goes("opening", you)
    BY <1>1, <1>8, <2>2 DEF WriteKey
  <2>5. /\ keychain'.key = o.key /\ keychain'.canary = None /\ keychain'.secret = None
        /\ keychain'.words = None
    BY <1>0, <2>4 DEF Keychain, Bare
  <2> HIDE DEF me, you
  <2>6. /\ proc'["opening"] = you /\ memory' = None
        /\ \A q \in Proc \ {"opening"} : proc'[q] = Idle
    BY <1>0, <1>1, <1>2, <2>4 DEF Goes, Become
  <2>7. \A q \in Proc : RandomProc(q, proc'[q], keychain'.key)
    BY <2>3, <2>5, <2>6, IdleIs DEF RandomProc
  <2>8. disk'.rows = {} /\ ~disk'.marked /\ opening'.pc = "encrypt"
    BY <1>1, <1>3 DEF Bare
  <2> QED BY <2>1, <2>5, <2>6, <2>7, <2>8 DEF AtRandom
<1>9. CASE Seal(p, refused) \/ Look(p, refused) \/ Drop(p, refused)
  BY <1>1, <1>9 DEF Seal, Look, Drop, Bare, BareProc
<1> QED BY <1>4, <1>5, <1>6, <1>7, <1>8, <1>9 DEF Resolve

\* Nothing else leaves the first phase.
LEMMA BareMoves ==
    ASSUME Typed, Shape, Common, Bare, wiping = "rest",
           \/ \E refused \in BOOLEAN : Migrate(refused) \/ SaveWords(refused) \/ SaveSecret(refused)
           \/ Elsewhere \/ Kill
    PROVE Bare'
<1>0. keychain \in Keychain /\ opening \in Opening /\ disk \in Disk /\ "opening" \in Proc
      /\ keychain.words = None /\ wallet = "rest" /\ opening.pc # "open" /\ Shut.pc = "closed"
  BY Names DEF Typed, Bare, Shape, Shut
<1>1. ASSUME NEW refused \in BOOLEAN, Migrate(refused) PROVE Bare'
  <2>1. OpenWords(refused)
    BY <1>1 DEF Bare, Migrate, OpenKey, OpenSeal, Rewrap, KeepSeal, KeepKey, WrapBack
  <2>2. opening'.pc \in {"failing", "encrypt"}
    BY <1>0, <2>1, OpenWordsIs DEF Common
  <2> QED BY <2>1, <2>2 DEF OpenWords, Bare, data
<1>2. ASSUME NEW refused \in BOOLEAN, SaveWords(refused) \/ SaveSecret(refused) PROVE FALSE
  BY <1>0, <1>2 DEF SaveWords, SaveSecret
<1>3. CASE Open
  <2>1. opening'.pc \in {"encrypt", "words"} /\ UNCHANGED <<keychain, disk, memory, inflight, proc>>
    BY <1>3 DEF Open, Shut, data
  <2> QED BY <2>1 DEF Bare
<1>4. CASE OpenFails
  BY <1>0, <1>4 DEF OpenFails, Bare, data
<1>5. CASE Encrypt
  <2>1. UNCHANGED <<keychain, memory>> /\ memory = None
    BY <1>5 DEF Encrypt, Bare
  <2>2. CASE proc["opening"].pc = "idle" /\ Calls("opening") /\ UNCHANGED <<opening, disk>>
    <3>1. inflight = "nobody" /\ inflight' = "opening" /\ proc'["opening"] = Again(1, FALSE)
      BY <1>0, <2>1, <2>2, CallsShape DEF Bare
    <3>2. Again(1, FALSE).pc = "key"
      BY DEF Again, Idle
    <3> QED BY <2>1, <2>2, <3>1, <3>2 DEF Bare, BareProc
  <2>3. CASE proc["opening"].pc = "failed" /\ Become("opening", Idle) /\ Opens("failing")
             /\ UNCHANGED <<disk, inflight>>
    <3>1. proc'["opening"] = Idle /\ opening'.pc = "failing" /\ inflight = "nobody"
      BY <1>0, <2>3, BecomeIdle DEF Opens, Opening, Bare
    <3> QED BY <2>1, <2>3, <3>1, IdleIs DEF Bare, BareProc
  <2> QED BY <1>5, <2>2, <2>3 DEF Encrypt, Bare, BareProc
<1>6. CASE /\ Elsewhere /\ ~Open /\ ~OpenFails /\ ~Encrypt
  BY <1>0, <1>6 DEF Bare, Elsewhere, Begin, WriteRow, Move, Unmove, Forget, Mark, Onboard, Recover, NoSecret,
                    CloseForRestore, SeenLands, Wipe, WipeMemory, WipeUnseen, WipeFiles
<1>7. CASE Kill
  <2>1. /\ keychain'.key = keychain.key /\ keychain'.canary = keychain.canary
        /\ keychain'.secret = keychain.secret /\ keychain'.words = keychain.words
    BY <1>0, <1>7 DEF Kill, Keychain
  <2>2. /\ memory' = None /\ inflight' = "nobody" /\ opening' = Shut /\ disk' = disk
        /\ proc'["opening"] = Idle
    BY <1>0, <1>7 DEF Kill, data
  <2> QED BY <1>0, <2>1, <2>2, IdleIs DEF Bare, BareProc
<1> QED BY <1>1, <1>2, <1>3, <1>4, <1>5, <1>6, <1>7

\* What resolving leaves of the records and of the database, with a random key.
LEMMA RandomRecords ==
    ASSUME Typed, AtRandom, NEW p \in Proc, NEW refused \in BOOLEAN, Resolve(p, refused)
    PROVE /\ UNCHANGED <<opening, wallet, wiping, disk>>
          /\ keychain'.words = keychain.words /\ keychain'.secret = keychain.secret
          /\ keychain'.key = keychain.key /\ keychain'.canary \in {None, keychain.key}
<1>0. keychain \in Keychain /\ RandomProc(p, proc[p], keychain.key)
  BY DEF Typed, AtRandom
<1>1. UNCHANGED <<opening, wallet, wiping, disk>>
  BY DEF Resolve, ReadKey, ReadCanary, ReadWords, WriteKey, Seal, Look, Drop, data
<1>2. CASE ReadKey(p, refused) \/ ReadCanary(p, refused) \/ ReadWords(p, refused) \/ Look(p, refused)
  BY <1>1, <1>2 DEF ReadKey, ReadCanary, ReadWords, Look, AtRandom
<1>3. CASE WriteKey(p, refused)
  BY <1>0, <1>3 DEF WriteKey, RandomProc
<1>4. CASE Seal(p, refused)
  <2>1. keychain' = keychain \/ keychain' = [keychain EXCEPT !.canary = keychain.key, !.sealer = p]
    <3>1. proc[p].pc = "seal" /\ proc[p].key = keychain.key /\ proc[p] \in ProcState
      BY <1>0, <1>4 DEF Seal, RandomProc, Typed
    <3>2. [proc[p] EXCEPT !.wrote = IF refused THEN @ ELSE @ \cup {"canary"}].key = keychain.key
      BY <3>1 DEF ProcState
    <3> QED BY <1>4, <3>2 DEF Seal
  <2> QED BY <1>0, <1>1, <2>1 DEF Keychain, AtRandom
<1>5. CASE Drop(p, refused)
  <2>1. Item(proc[p]) = "canary"
    BY <1>0, <1>5 DEF Drop, RandomProc, Item
  <2>2. keychain' = keychain \/ keychain' = [keychain EXCEPT !.canary = None, !.sealer = "nobody"]
    BY <1>5, <2>1 DEF Drop, Without
  <2> QED BY <1>0, <1>1, <2>2 DEF Keychain, AtRandom
<1> QED BY <1>2, <1>3, <1>4, <1>5 DEF Resolve

\* Whoever resolves a random key gets that key or none.
LEMMA RandomResolves ==
    ASSUME Typed, Shape, Common, AtRandom, NEW p \in Proc, NEW refused \in BOOLEAN,
           Resolve(p, refused)
    PROVE AtRandom'
<1> DEFINE r == keychain.key
<1>0. /\ keychain \in Keychain /\ proc[p] \in ProcState /\ proc \in [Proc -> ProcState]
      /\ RandomProc(p, proc[p], r) /\ r \in Random /\ r \in Key /\ r # None /\ r # Refused
      /\ keychain.words # r /\ memory \in {None, r} /\ keychain.canary \in {None, r}
  BY KeyKinds DEF Typed, AtRandom
<1>1. /\ UNCHANGED <<opening, wallet, wiping, disk>>
      /\ keychain'.words = keychain.words /\ keychain'.secret = keychain.secret
      /\ keychain'.key = r /\ keychain'.canary \in {None, r}
  BY RandomRecords
<1> HIDE DEF r
<1>a. ASSUME memory' \in {None, r}, \A q \in Proc : RandomProc(q, proc'[q], r)
      PROVE  AtRandom'
  BY <1>0, <1>1, <1>a DEF AtRandom, r
<1>b. /\ RandomProc(p, Idle, r) /\ \A q \in Proc : RandomProc(q, Idle, r) /\ RandomProc(q, Failed, r)
      /\ \A q \in Proc : RandomProc(q, Having(r), r)
      /\ \A q \in Proc, a \in Nat, c \in BOOLEAN : RandomProc(q, Again(a, c), r)
  <2>1. \A a \in Nat, c \in BOOLEAN : Again(a, c).pc = "key" /\ Again(a, c).wrote = {}
    BY DEF Again, Idle
  <2> QED BY <2>1, IdleIs DEF RandomProc
<1>c. ASSUME NEW k \in {None, r}, Settling(p, k) PROVE AtRandom'
  <2>1. memory' \in {None, r}
    BY <1>0, <1>c DEF Settling
  <2>2. \A q \in Proc : proc'[q] \in {proc[q], Idle, Failed} \/ (k = r /\ proc'[q] = Having(k))
    BY <1>c, SettlesIs DEF Settling
  <2> QED BY <1>a, <1>b, <2>1, <2>2 DEF AtRandom, r
<1>d. ASSUME NEW me, Become(p, me), memory' = memory, RandomProc(p, me, r) PROVE AtRandom'
  <2>1. \A q \in Proc : proc'[q] = IF q = p THEN me ELSE proc[q]
    BY <1>0, <1>d DEF Become
  <2> QED BY <1>0, <1>a, <1>d, <2>1 DEF AtRandom, r
<1>e. ASSUME Restarts(p) PROVE AtRandom'
  <2>1. CASE Settling(p, None) \/ Settling(p, memory)
    BY <1>0, <1>c, <2>1
  <2>2. CASE proc[p].attempt + 1 \in 0..Attempts /\ Continues(p, Again(proc[p].attempt + 1, proc[p].cut))
    BY <1>0, <1>b, <1>d, <2>2 DEF Continues, ProcState
  <2> QED BY <1>e, <2>1, <2>2, RestartsOutcome
<1>2. CASE ReadKey(p, refused)
  <2> DEFINE me == [proc[p] EXCEPT !.pc = "canary", !.stored = IF refused THEN Refused ELSE keychain.key]
  <2>1. Goes(p, me) /\ proc[p].pc = "key"
    BY <1>2 DEF ReadKey
  <2>2. me.pc = "canary" /\ me.stored \in {r, Refused} /\ me.wrote = proc[p].wrote /\ proc[p].wrote = {}
    BY <1>0, <2>1 DEF ProcState, RandomProc, r
  <2> HIDE DEF me
  <2> QED BY <1>d, <2>1, <2>2 DEF Goes, RandomProc
<1>3. CASE ReadCanary(p, refused)
  <2> DEFINE me == [proc[p] EXCEPT !.canary = IF refused THEN Refused ELSE keychain.canary]
             you == [me EXCEPT !.pc = "words"]
  <2>1. proc[p].pc = "canary" /\ proc[p].stored \in {r, Refused} /\ proc[p].wrote = {}
    BY <1>0, <1>3 DEF ReadCanary, RandomProc, ProcState
  <2>2. /\ me \in ProcState /\ me.stored = proc[p].stored /\ me.canary \in {None, Refused, r}
        /\ me.wrote = {} /\ me.cut = proc[p].cut
        /\ you.pc = "words" /\ you.stored = me.stored /\ you.canary = me.canary /\ you.wrote = {}
    BY <1>0, <2>1 DEF ProcState, Stored, Keychain
  <2>3. \/ Irrelevant(me.stored, me.canary) /\ Decides(p, me, None)
        \/ ~Irrelevant(me.stored, me.canary) /\ Goes(p, you)
    BY <1>3 DEF ReadCanary
  <2> HIDE DEF me, you
  <2>4. CASE me.stored = Refused
    <3>1. Goes(p, you)
      BY <2>3, <2>4 DEF Irrelevant
    <3> QED BY <1>d, <2>2, <2>4, <3>1 DEF Goes, RandomProc
  <2>5. CASE me.stored = r
    <3>1. Decides(p, me, None)
      BY <1>0, <2>2, <2>3, <2>5 DEF Irrelevant
    <3>2. Chosen(me.stored, me.canary, None) \subseteq {r}
      BY <1>0, <2>2, <2>5, Distinct DEF Chosen
    <3>3. CASE Settling(p, None) \/ Settling(p, r)
      BY <1>c, <3>3
    <3>4. CASE Become(p, [me EXCEPT !.pc = "seal", !.key = r]) /\ memory' = memory
      <4> DEFINE him == [me EXCEPT !.pc = "seal", !.key = r]
      <4>1. him.pc = "seal" /\ him.key = r /\ him.wrote = {}
        BY <2>2 DEF ProcState
      <4> HIDE DEF him
      <4>2. Become(p, him)
        BY <3>4 DEF him
      <4> QED BY <1>d, <3>4, <4>1, <4>2 DEF RandomProc
    <3> QED BY <1>e, <2>2, <2>5, <3>1, <3>2, <3>3, <3>4, DecidesOutcome
  <2> QED BY <2>1, <2>2, <2>4, <2>5
<1>4. CASE ReadWords(p, refused)
  <2>1. PICK words \in Words(refused) : Decides(p, proc[p], words)
    BY <1>4 DEF ReadWords
  <2>2. words \in {None, Refused, keychain.words} /\ proc[p].pc = "words"
    BY <1>4, <2>1 DEF ReadWords, Words, Common
  <2>3. proc[p].stored = Refused /\ proc[p].canary \in {None, Refused, r}
    BY <1>0, <2>2 DEF RandomProc
  <2>4. Chosen(proc[p].stored, proc[p].canary, words) = {}
    BY <1>0, <2>2, <2>3, Distinct DEF Chosen
  <2>5. Settling(p, None)
    BY <2>1, <2>4 DEF Decides, GoesWithout, Settling
  <2> QED BY <1>c, <2>5
<1>5. CASE WriteKey(p, refused)
  BY <1>0, <1>5 DEF WriteKey, RandomProc
<1>6. CASE Seal(p, refused)
  <2> DEFINE me == [proc[p] EXCEPT !.wrote = IF refused THEN @ ELSE @ \cup {"canary"}]
             you == [me EXCEPT !.pc = "look"]
  <2>1. Concluded(p, me) /\ proc[p].pc = "seal"
    BY <1>6 DEF Seal
  <2>2. /\ proc[p].key = r
        /\ proc[p].wrote \subseteq (IF p = "opening" THEN {"key"} ELSE {})
    BY <1>0, <2>1 DEF RandomProc
  <2>3. /\ me.key = r /\ me.stale = proc[p].stale
        /\ (p # "opening" => me.wrote \subseteq {"canary"})
        /\ you.pc = "look" /\ you.key = r /\ you.wrote = me.wrote
    BY <1>0, <2>2 DEF ProcState
  <2> HIDE DEF me, you
  <2>4. CASE ~me.stale
    <3>1. Settling(p, r)
      BY <1>0, <2>1, <2>3, <2>4 DEF Concluded, Gets, Settling
    <3> QED BY <1>c, <3>1
  <2>5. CASE me.stale /\ me.wrote # {}
    <3>1. Goes(p, you)
      BY <2>1, <2>5 DEF Concluded, you
    <3>2. p # "opening"
      BY <2>3, <2>5 DEF Common
    <3>3. you.wrote = {"canary"}
      BY <2>3, <2>5, <3>2
    <3> QED BY <1>d, <2>3, <3>1, <3>3 DEF Goes, RandomProc
  <2>6. CASE me.stale /\ me.wrote = {}
    BY <1>e, <2>1, <2>6 DEF Concluded
  <2> QED BY <2>4, <2>5, <2>6
<1>f. ASSUME Looked(p), proc[p].pc \in {"look", "drop"} PROVE AtRandom'
  <2>1. proc[p].wrote = {"canary"}
    BY <1>0, <1>f DEF RandomProc
  <2>2. [proc[p] EXCEPT !.wrote = @ \ {Item(proc[p])}].wrote = {}
    BY <1>0, <2>1 DEF ProcState, Item
  <2> QED BY <1>e, <1>f, <2>2 DEF Looked
<1>7. CASE Look(p, refused)
  <2> DEFINE you == [proc[p] EXCEPT !.pc = "drop"]
  <2>1. (Looked(p) \/ Goes(p, you)) /\ proc[p].pc = "look"
    BY <1>7 DEF Look
  <2>2. you.pc = "drop" /\ you.key = proc[p].key /\ you.wrote = proc[p].wrote
        /\ proc[p].key = r /\ proc[p].wrote = {"canary"}
    BY <1>0, <2>1 DEF ProcState, RandomProc
  <2> HIDE DEF you
  <2>3. CASE Goes(p, you)
    BY <1>d, <2>2, <2>3 DEF Goes, RandomProc
  <2> QED BY <1>f, <2>1, <2>3
<1>8. CASE Drop(p, refused)
  BY <1>8, <1>f DEF Drop
<1> QED BY <1>2, <1>3, <1>4, <1>5, <1>6, <1>7, <1>8 DEF Resolve

\* The migration takes everything from the random key to the one of the words.
LEMMA RandomMigrates ==
    ASSUME Typed, Shape, Common, AtRandom, NEW refused \in BOOLEAN, Migrate(refused)
    PROVE AtRandom' \/ Kept'
<1> DEFINE r == keychain.key
           w == keychain.words
<1>0. /\ opening \in Opening /\ keychain \in Keychain /\ w # r /\ r # None
      /\ keychain.canary \in {None, r} /\ keychain.secret \in {None, r, w}
  BY KeyKinds DEF Typed, AtRandom
<1>1. /\ opening.pc \in Migrating \cup {"words"} /\ proc["opening"] = Idle
      /\ UNCHANGED disk /\ ~disk.marked /\ disk.seen # "no"
      /\ disk.rows \subseteq {r, w} \ {None}
  BY Names DEF Migrate, OpenWords, OpenKey, OpenSeal, Rewrap, KeepSeal, KeepKey, WrapBack, Shape, ProcShape,
     Migrating, data, Common, AtRandom
<1>2. \A q \in Proc : proc[q] = Idle
  BY <1>1 DEF Common, Migrating
<1>3. \A q \in Proc : proc'[q] = Idle
  <2>1. proc' = proc \/ proc' = Outdated
    BY DEF Migrate, OpenWords, OpenKey, OpenSeal, Rewrap, KeepSeal, KeepKey, WrapBack
  <2> QED BY <1>2, <2>1, OutdatedShape, IdleIs DEF Resolving
<1>4. opening.pc \in Migrating => opening.to = w /\ recall = w /\ w # None
  BY DEF Common, Shape
<1> HIDE DEF r, w
<1>5. CASE OpenWords(refused)
  <2>1. /\ opening'.pc \in {"failing", "encrypt", "key"} /\ UNCHANGED <<keychain, memory>>
    BY <1>5, OpenWordsIs DEF Common, OpenWords
  <2> QED BY <1>1, <1>3, <2>1, IdleIs DEF AtRandom, RandomProc
<1>6. CASE OpenKey(refused)
  <2>1. /\ UNCHANGED <<keychain, memory>>
        /\ opening'.pc = "failing" \/ (opening'.pc = "seal" /\ opening'.from = r)
    BY <1>0, <1>4, <1>6 DEF OpenKey, Opening, Migrating, r
  <2> QED BY <1>1, <1>3, <2>1, IdleIs DEF AtRandom, RandomProc, r
<1>7. CASE OpenSeal(refused)
  <2>1. opening.pc = "seal" /\ opening.from = r /\ opening.to = w /\ w # None
    BY <1>4, <1>7 DEF OpenSeal, AtRandom, Migrating, r
  <2>2. /\ UNCHANGED <<keychain, memory>> /\ opening'.from = r
        /\ opening'.pc \in {"failing", "rewrap"}
    BY <1>0, <1>7, <2>1 DEF OpenSeal, Opens, Opening
  <2> QED BY <1>1, <1>3, <2>2, IdleIs DEF AtRandom, RandomProc, r
<1>8. CASE Rewrap(refused)
  <2>1. opening.pc = "rewrap" /\ opening.from = r /\ opening.to = w /\ w # None
    BY <1>4, <1>8 DEF Rewrap, AtRandom, Migrating, r
  <2>2. /\ UNCHANGED memory /\ opening'.from = r /\ opening'.pc \in {"failing", "move"}
        /\ keychain' = IF keychain.secret = r /\ ~refused THEN [keychain EXCEPT !.secret = w] ELSE keychain
        /\ opening'.pc = "move" => ~refused
    BY <1>0, <1>8, <2>1 DEF Rewrap, Opens, Opening
  <2>3. /\ keychain'.key = r /\ keychain'.words = w /\ keychain'.canary = keychain.canary
        /\ keychain'.secret \in {None, r, w}
        /\ opening'.pc = "move" => keychain'.secret \in {None, w}
    BY <1>0, <2>2 DEF Keychain, r, w
  <2> QED BY <1>1, <1>3, <2>2, <2>3, IdleIs DEF AtRandom, RandomProc, r, w
<1>9. CASE KeepSeal(refused)
  <2>1. /\ opening.pc = "keepseal" /\ opening.from = r /\ opening.to = w /\ w # None /\ recall = w
        /\ opening.moved /\ disk.rows \subseteq {w} /\ keychain.secret \in {None, w}
    BY <1>4, <1>9 DEF KeepSeal, AtRandom, Migrating, r, w
  <2>2. /\ UNCHANGED <<memory, recall>> /\ opening'.from = r /\ opening'.to = w
        /\ opening'.pc = IF refused THEN "unmove" ELSE "keepkey"
        /\ keychain' = IF refused THEN keychain
                       ELSE [keychain EXCEPT !.canary = w, !.sealer = "nobody"]
    BY <1>0, <1>9, <2>1 DEF KeepSeal, Opens, Opening
  <2>3. CASE refused
    BY <1>1, <1>3, <2>1, <2>2, <2>3, IdleIs DEF AtRandom, RandomProc, r, w
  <2>4. CASE ~refused
    <3>1. keychain'.canary = w /\ keychain'.words = w /\ keychain'.secret \in {None, w}
      BY <1>0, <2>1, <2>2, <2>4 DEF Keychain, w
    <3>2. Carried'
      BY <1>1, <2>1, <2>2, <2>4, <3>1 DEF Carried, Migrating
    <3>3. disk'.rows \subseteq {w} /\ opening'.pc = "keepkey"
      BY <1>1, <2>1, <2>2, <2>4
    <3> QED BY <1>3, <2>1, <3>1, <3>2, <3>3, IdleIs DEF Kept, KeptProc
  <2> QED BY <2>3, <2>4
<1>10. CASE KeepKey(refused)
  BY <1>10 DEF KeepKey, AtRandom
<1>11. CASE WrapBack(refused)
  <2>1. opening.pc = "wrapback" /\ opening.from = r /\ opening.to = w /\ w # None
    BY <1>4, <1>11 DEF WrapBack, AtRandom, Migrating, r
  <2>2. /\ memory' = r /\ opening'.pc = "failing"
        /\ keychain' = IF keychain.secret = w /\ ~refused THEN [keychain EXCEPT !.secret = r] ELSE keychain
    BY <1>0, <1>11, <2>1 DEF WrapBack, Opens, Opening, SetMemory
  <2>3. /\ keychain'.key = r /\ keychain'.words = w /\ keychain'.canary = keychain.canary
        /\ keychain'.secret \in {None, r, w}
    BY <1>0, <2>2 DEF Keychain, r, w
  <2> QED BY <1>1, <1>3, <2>2, <2>3, IdleIs DEF AtRandom, RandomProc, r, w
<1> QED BY <1>5, <1>6, <1>7, <1>8, <1>9, <1>10, <1>11 DEF Migrate

\* The account is made, or its secret key sealed, with the random key.
LEMMA RandomWallet ==
    ASSUME Typed, Shape, Common, AtRandom, NEW refused \in BOOLEAN, SaveWords(refused) \/ SaveSecret(refused)
    PROVE AtRandom'
<1> DEFINE r == keychain.key
<1>0. /\ keychain \in Keychain /\ proc \in [Proc -> ProcState] /\ opening.pc = "open"
      /\ r \in Random /\ r # None /\ "wallet" \in Proc
      /\ \A q \in Proc : RandomProc(q, proc[q], r)
  BY KeyKinds, Names DEF Typed, AtRandom, SaveWords, SaveSecret, Shape
<1>1. CASE SaveWords(refused) /\ refused
  BY <1>1 DEF SaveWords, data, AtRandom
<1>2. CASE SaveWords(refused) /\ ~refused
  <2> DEFINE mine == Derived(spent.accounts + 1)
  <2>1. /\ keychain' = [keychain EXCEPT !.words = mine] /\ Calls("wallet") /\ wallet = "words"
        /\ UNCHANGED <<memory, opening, disk>>
    BY <1>2 DEF SaveWords, data
  <2>2. keychain.words = None /\ keychain.secret = None
    BY <2>1 DEF Common
  <2>3. /\ keychain'.key = r /\ keychain'.canary = keychain.canary /\ keychain'.secret = None
        /\ keychain'.words = mine /\ mine # None
    BY <1>0, <2>1, <2>2 DEF Keychain, Derived, None
  <2>4. disk'.rows \subseteq {r}
    BY <2>1, <2>2 DEF AtRandom
  <2>5. \A q \in Proc : RandomProc(q, proc'[q], r)
    <3>1. /\ Again(1, FALSE).pc = "key" /\ Again(1, FALSE).wrote = {}
          /\ [Idle EXCEPT !.pc = "joined", !.with = inflight].pc = "joined"
      BY DEF Again, Idle
    <3>2. \/ proc'["wallet"] = Having(memory) /\ memory # None
          \/ proc'["wallet"].pc = "joined" \/ proc'["wallet"] = Again(1, FALSE)
      BY <1>0, <2>1, <3>1, CallsShape
    <3>3. RandomProc("wallet", proc'["wallet"], r)
      <4> DEFINE him == proc'["wallet"]
      <4>1. \/ him.pc = "have" /\ him.key = memory /\ memory # None
            \/ him.pc = "joined"
            \/ him.pc = "key" /\ him.wrote = {}
        <5>1. CASE him = Having(memory) /\ memory # None
          BY <5>1, IdleIs
        <5>2. CASE him.pc = "joined"
          BY <5>2
        <5>3. CASE him = Again(1, FALSE)
          BY <3>1, <5>3
        <5> HIDE DEF him
        <5> QED BY <3>2, <5>1, <5>2, <5>3 DEF him
      <4>2. memory \in {None, r}
        BY DEF AtRandom
      <4> HIDE DEF him, r
      <4> QED BY <4>1, <4>2 DEF RandomProc, him
    <3> QED BY <1>0, <2>1, <3>3, CallsShape
  <2> QED BY <1>0, <2>1, <2>3, <2>4, <2>5 DEF AtRandom
<1>3. CASE SaveSecret(refused)
  <2>1. /\ Become("wallet", Idle) /\ UNCHANGED <<memory, opening, disk>>
        /\ keychain' = IF refused THEN keychain ELSE [keychain EXCEPT !.secret = proc["wallet"].key]
        /\ proc["wallet"].pc = "have"
    BY <1>3 DEF SaveSecret, data
  <2>2. proc["wallet"].key = r
    BY <1>0, <2>1 DEF RandomProc
  <2>3. /\ keychain'.key = r /\ keychain'.canary = keychain.canary /\ keychain'.words = keychain.words
        /\ keychain'.secret \in {keychain.secret, r}
    BY <1>0, <2>1, <2>2 DEF Keychain
  <2>4. \A q \in Proc : proc'[q] = IF q = "wallet" THEN Idle ELSE proc[q]
    BY <1>0, <2>1, BecomeIdle
  <2>5. \A q \in Proc : RandomProc(q, proc'[q], r)
    BY <1>0, <2>4, IdleIs DEF RandomProc
  <2> QED BY <1>0, <2>1, <2>3, <2>5 DEF AtRandom
<1> QED BY <1>1, <1>2, <1>3

\* Everything else leaves the random key where it is.
LEMMA RandomMoves ==
    ASSUME Typed, Shape, Common, AtRandom, wiping = "rest", wiping' = "rest", Elsewhere \/ Kill
    PROVE AtRandom'
<1> DEFINE r == keychain.key
           w == keychain.words
<1>0. /\ keychain \in Keychain /\ opening \in Opening /\ disk \in Disk /\ proc \in [Proc -> ProcState]
      /\ r \in Random /\ r # None /\ r # w /\ "wallet" \in Proc /\ "opening" \in Proc
      /\ \A q \in Proc : RandomProc(q, proc[q], r)
      /\ disk.rows \subseteq {r, w} \ {None} /\ ~disk.marked
  BY KeyKinds, Names DEF Typed, AtRandom
<1> HIDE DEF r, w
<1>a. ASSUME UNCHANGED <<keychain, memory, opening>>, disk'.rows \subseteq {r, w} \ {None}, ~disk'.marked,
             \A q \in Proc : RandomProc(q, proc'[q], r),
             opening.pc \in {"open", "encrypt", "closed", "failing", "words"}
      PROVE  AtRandom'
  BY <1>a DEF AtRandom, r, w
<1>b. ASSUME UNCHANGED <<keychain, memory>>, disk'.rows \subseteq {r, w} \ {None}, ~disk'.marked,
             \A q \in Proc : RandomProc(q, proc'[q], r),
             opening'.pc \in {"open", "encrypt", "closed", "failing", "words"}
      PROVE  AtRandom'
  BY <1>b DEF AtRandom, r, w
<1>c. ASSUME NEW p \in Proc, Calls(p) PROVE \A q \in Proc : RandomProc(q, proc'[q], r)
  <2>1. /\ Again(1, FALSE).pc = "key" /\ Again(1, FALSE).wrote = {}
        /\ [Idle EXCEPT !.pc = "joined", !.with = inflight].pc = "joined"
    BY DEF Again, Idle
  <2>2. \/ proc'[p] = Having(memory) /\ memory # None
        \/ proc'[p].pc = "joined" \/ proc'[p] = Again(1, FALSE)
    BY <1>0, <1>c, <2>1, CallsShape
  <2>3. RandomProc(p, proc'[p], r)
    <3> DEFINE him == proc'[p]
    <3>1. \/ him.pc = "have" /\ him.key = memory /\ memory # None
          \/ him.pc = "joined"
          \/ him.pc = "key" /\ him.wrote = {}
      BY <2>1, <2>2, IdleIs
    <3>2. memory \in {None, r}
      BY DEF AtRandom, r
    <3> HIDE DEF him
    <3> QED BY <3>1, <3>2 DEF RandomProc, him
  <2> QED BY <1>0, <1>c, <2>3, CallsShape
<1>d. ASSUME NEW p \in Proc, Become(p, Idle) PROVE \A q \in Proc : RandomProc(q, proc'[q], r)
  <2>1. \A q \in Proc : proc'[q] = IF q = p THEN Idle ELSE proc[q]
    BY <1>0, <1>d, BecomeIdle
  <2> QED BY <1>0, <2>1, IdleIs DEF RandomProc
<1>1. CASE \E c \in Caller : Begin(c)
  <2>1. PICK c \in Caller : Begin(c)
    BY <1>1
  <2>2. /\ Calls(c) /\ UNCHANGED <<keychain, disk, memory, opening>> /\ opening.pc = "open" /\ c \in Proc
    BY <2>1 DEF Begin, data, Proc
  <2> QED BY <1>0, <1>a, <1>c, <2>2
<1>2. CASE \E c \in Caller : WriteRow(c)
  <2>1. PICK c \in Caller : WriteRow(c)
    BY <1>2
  <2>2. /\ Become(c, Idle) /\ UNCHANGED <<keychain, memory, opening>> /\ opening.pc = "open" /\ c \in Proc
        /\ disk' = [disk EXCEPT !.rows = @ \cup {proc[c].key}] \/ disk' = disk
        /\ proc[c].pc = "have"
    BY <2>1 DEF WriteRow, data, Proc
  <2>3. proc[c].key = r
    BY <1>0, <2>2 DEF RandomProc
  <2>4. disk'.rows \subseteq {r, w} \ {None} /\ ~disk'.marked
    BY <1>0, <2>2, <2>3 DEF Disk
  <2> QED BY <1>a, <1>d, <2>2, <2>4
<1>3. CASE \E ok \in BOOLEAN : Move(ok)
  <2>1. PICK ok \in BOOLEAN : Move(ok)
    BY <1>3
  <2>2. /\ opening.pc = "move" /\ opening.from = r /\ opening.to = w /\ w # None
        /\ keychain.secret \in {None, w}
    BY <2>1 DEF Move, AtRandom, Common, Shape, Migrating, r, w
  <2>3. CASE ok
    <3>1. /\ opening' = [opening EXCEPT !.pc = "keepseal", !.moved = TRUE]
          /\ disk' = [disk EXCEPT !.rows = Moved(@, r, w)] /\ UNCHANGED <<keychain, memory, proc>>
      BY <2>1, <2>2, <2>3 DEF Move
    <3>2. /\ opening'.pc = "keepseal" /\ opening'.moved /\ opening'.from = r
          /\ disk'.rows = Moved(disk.rows, r, w) /\ ~disk'.marked
      BY <1>0, <2>2, <3>1 DEF Opening, Disk
    <3>3. disk'.rows \subseteq {w}
      BY <1>0, <3>2 DEF Moved
    <3> QED BY <1>0, <2>2, <3>1, <3>2, <3>3 DEF AtRandom, r, w
  <2>4. CASE ~ok
    <3>1. opening'.pc = "failing" /\ UNCHANGED <<keychain, memory, proc, disk>>
      BY <1>0, <2>1, <2>4 DEF Move, Opening
    <3> QED BY <1>0, <1>b, <3>1
  <2> QED BY <2>3, <2>4
<1>4. CASE \E ok \in BOOLEAN : Unmove(ok)
  <2>1. PICK ok \in BOOLEAN : Unmove(ok)
    BY <1>4
  <2>2. /\ opening.pc = "unmove" /\ opening.from = r /\ opening.to = w /\ w # None
        /\ keychain.secret \in {None, w} /\ disk.rows \subseteq {w}
    BY <2>1 DEF Unmove, AtRandom, Common, Shape, Migrating, r, w
  <2>3. CASE ok
    <3>1. /\ opening' = [opening EXCEPT !.pc = "wrapback"]
          /\ disk' = [disk EXCEPT !.rows = Moved(@, w, r)] /\ UNCHANGED <<keychain, memory, proc>>
      BY <2>1, <2>2, <2>3 DEF Unmove, Opens
    <3>2. /\ opening'.pc = "wrapback" /\ opening'.from = r
          /\ disk'.rows = Moved(disk.rows, w, r) /\ ~disk'.marked
      BY <1>0, <2>2, <3>1 DEF Opening, Disk
    <3>3. disk'.rows \subseteq {r}
      BY <2>2, <3>2 DEF Moved
    <3> QED BY <1>0, <2>2, <3>1, <3>2, <3>3 DEF AtRandom, r, w
  <2>4. CASE ~ok
    <3>1. opening'.pc = "failing" /\ UNCHANGED <<keychain, memory, proc, disk>>
      BY <1>0, <2>1, <2>4 DEF Unmove, Opens, Opening
    <3> QED BY <1>0, <1>b, <3>1
  <2> QED BY <2>3, <2>4
<1>5. CASE Forget
  <2>1. /\ memory' = None /\ proc' = Outdated /\ UNCHANGED <<keychain, disk, opening>> /\ opening.pc = "open"
    BY <1>5 DEF Forget, SetMemory, data
  <2>2. \A q \in Proc : RandomProc(q, proc'[q], r)
    BY <1>0, <2>1, OutdatedShape DEF RandomProc
  <2> QED BY <2>1, <2>2 DEF AtRandom, r
<1>6. CASE Open
  <2>1. opening'.pc \in {"encrypt", "words"} /\ UNCHANGED <<keychain, disk, memory, proc>>
    BY <1>6 DEF Open, Shut, data
  <2> QED BY <1>0, <1>b, <2>1
<1>7. CASE Mark
  BY <1>7 DEF Mark, AtRandom
<1>8. CASE Encrypt
  <2>1. UNCHANGED <<keychain, memory>> /\ opening.pc = "encrypt"
    BY <1>8 DEF Encrypt
  <2>2. disk' = disk \/ disk' = [disk EXCEPT !.encrypted = TRUE]
    BY <1>8 DEF Encrypt
  <2>3. disk'.rows \subseteq {r, w} \ {None} /\ ~disk'.marked
    BY <1>0, <2>2 DEF Disk
  <2>4. CASE Opened
    <3>1. opening'.pc = "open" /\ Become("opening", Idle)
      BY <2>4 DEF Opened, Shut
    <3> QED BY <1>0, <1>b, <1>d, <2>1, <2>3, <3>1
  <2>5. CASE Calls("opening") /\ UNCHANGED opening
    BY <1>0, <1>a, <1>c, <2>1, <2>3, <2>5
  <2>6. CASE Become("opening", Idle) /\ Opens("failing")
    <3>1. opening'.pc = "failing"
      BY <1>0, <2>6 DEF Opens, Opening
    <3> QED BY <1>0, <1>b, <1>d, <2>1, <2>3, <2>6, <3>1
  <2> QED BY <1>8, <2>4, <2>5, <2>6 DEF Encrypt
<1>9. CASE OpenFails
  <2>1. opening'.pc = "closed" /\ UNCHANGED <<keychain, disk, memory, proc>>
    BY <1>9 DEF OpenFails, Shut, data
  <2> QED BY <1>0, <1>b, <2>1
<1>10. CASE Onboard
  BY <1>0, <1>10, <1>a DEF Onboard, data
<1>11. CASE Recover
  <2>1. Calls("wallet") /\ UNCHANGED <<keychain, disk, memory, opening>> /\ opening.pc = "open"
    BY <1>11 DEF Recover, data
  <2> QED BY <1>0, <1>a, <1>c, <2>1
<1>12. CASE NoSecret
  <2>1. Become("wallet", Idle) /\ UNCHANGED <<keychain, disk, memory, opening>> /\ opening.pc = "open"
    BY <1>12 DEF NoSecret, data, Shape
  <2> QED BY <1>0, <1>a, <1>d, <2>1
<1>13. CASE CloseForRestore
  <2>1. proc' = Cut(proc) /\ opening' = Shut /\ Shut.pc = "closed" /\ UNCHANGED <<keychain, disk, memory>>
    BY <1>13 DEF CloseForRestore, data, Shut
  <2>2. \A q \in Proc : RandomProc(q, proc'[q], r)
    BY <1>0, <2>1, CutIs, IdleIs DEF RandomProc
  <2> QED BY <1>0, <1>b, <2>1, <2>2
<1>14. CASE SeenLands
  <2>1. /\ disk'.rows = disk.rows /\ disk'.marked = disk.marked /\ opening.pc = "open"
        /\ UNCHANGED <<keychain, memory, proc, opening>>
    BY <1>0, <1>14 DEF SeenLands, Disk
  <2> QED BY <1>0, <1>a, <2>1
<1>15. CASE Wipe \/ WipeMemory \/ WipeUnseen \/ WipeFiles
  BY <1>15 DEF Wipe, WipeMemory, WipeUnseen, WipeFiles
<1>16. CASE Kill
  <2>1. /\ memory' = None /\ opening' = Shut /\ Shut.pc = "closed" /\ disk' = disk
        /\ \A q \in Proc : proc'[q] = Idle
    BY <1>16 DEF Kill, Shut, data
  <2>2. /\ keychain'.key = r /\ keychain'.canary = keychain.canary /\ keychain'.secret = keychain.secret
        /\ keychain'.words = w
    BY <1>0, <1>16 DEF Kill, Keychain, r, w
  <2> QED BY <1>0, <2>1, <2>2, IdleIs DEF AtRandom, RandomProc, r, w
<1> QED BY <1>1, <1>2, <1>3, <1>4, <1>5, <1>6, <1>7, <1>8, <1>9, <1>10, <1>11, <1>12, <1>13, <1>14,
           <1>15, <1>16 DEF Elsewhere

\* What resolving leaves of the records and of the database, with the key of the words.
LEMMA KeptRecords ==
    ASSUME Typed, Kept, NEW p \in Proc, NEW refused \in BOOLEAN, Resolve(p, refused)
    PROVE /\ UNCHANGED <<opening, wallet, wiping, disk>>
          /\ keychain'.words = keychain.words /\ keychain'.secret = keychain.secret
          /\ keychain'.canary = keychain.canary
          /\ odd \subseteq odd'
<1>0. keychain \in Keychain /\ KeptProc(proc[p], keychain.words)
  BY DEF Typed, Kept
<1>1. UNCHANGED <<opening, wallet, wiping, disk>>
  BY DEF Resolve, ReadKey, ReadCanary, ReadWords, WriteKey, Seal, Look, Drop, data
<1>2. odd \subseteq odd'
  BY DEF Resolve, ReadKey, ReadCanary, ReadWords, WriteKey, Seal, Look, Drop,
         Goes, GoesWithout, Gets, Concluded, Looked, Restarts, Decides
<1>3. CASE ReadKey(p, refused) \/ ReadCanary(p, refused) \/ ReadWords(p, refused) \/ Look(p, refused)
  BY <1>1, <1>2, <1>3 DEF ReadKey, ReadCanary, ReadWords, Look
<1>4. CASE WriteKey(p, refused)
  <2>1. keychain' = keychain \/ \E k : keychain' = [keychain EXCEPT !.key = k]
    BY <1>4 DEF WriteKey
  <2> QED BY <1>0, <1>1, <1>2, <2>1 DEF Keychain
<1>5. CASE Seal(p, refused)
  BY <1>0, <1>5 DEF Seal, KeptProc
<1>6. CASE Drop(p, refused)
  <2>1. Item(proc[p]) = "key"
    BY <1>0, <1>6 DEF Drop, KeptProc, Item
  <2>2. keychain' = keychain \/ keychain' = [keychain EXCEPT !.key = None]
    BY <1>6, <2>1 DEF Drop, Without
  <2> QED BY <1>0, <1>1, <1>2, <2>2 DEF Keychain
<1> QED BY <1>3, <1>4, <1>5, <1>6 DEF Resolve

\* The words' key is resolved, or the stored one if the canary was not read.
LEMMA KeptResolves ==
    ASSUME Typed, Shape, Common, Kept, NEW p \in Proc, NEW refused \in BOOLEAN,
           Resolve(p, refused)
    PROVE Kept'
<1> DEFINE w == keychain.words
<1>0. /\ keychain \in Keychain /\ proc[p] \in ProcState /\ proc \in [Proc -> ProcState]
      /\ KeptProc(proc[p], w) /\ w \in Key /\ w # None /\ w # Refused /\ keychain.canary = w
  BY KeyKinds DEF Typed, Kept
<1>1. /\ UNCHANGED <<opening, wallet, wiping, disk>>
      /\ keychain'.words = w /\ keychain'.secret = keychain.secret /\ keychain'.canary = w
      /\ odd \subseteq odd'
  BY <1>0, KeptRecords
<1>2. opening.pc \in {"open", "encrypt"}
  BY ResolveOut, WhoResolves
<1>3. "unsealed" \notin odd =>
        /\ disk.rows \subseteq {w} /\ keychain.secret \in {None, w}
        /\ \A q \in Proc : proc[q].pc = "have" => proc[q].key = w
        /\ memory \in {None, w}
  BY <1>2 DEF Kept, Carried, Migrating
<1>4. \A q \in Proc : KeptProc(proc[q], w)
  BY DEF Kept
<1> HIDE DEF w
<1>a. ASSUME \A q \in Proc : KeptProc(proc'[q], w),
             "unsealed" \notin odd' =>
                /\ memory' \in {None, w}
                /\ \A q \in Proc : proc'[q].pc = "have" => proc'[q].key = w
      PROVE  Kept'
  <2>1. /\ keychain'.canary = keychain'.words /\ keychain'.words # None
        /\ opening'.pc \notin {"rewrap", "move", "unmove", "wrapback"}
        /\ opening'.pc # "keepseal"
    BY <1>0, <1>1, <1>2
  <2>2. "unsealed" \notin odd' =>
            /\ disk'.rows \subseteq {keychain'.words}
            /\ keychain'.secret \in {None, keychain'.words}
    BY <1>1, <1>3
  <2> QED BY <1>1, <1>a, <2>1, <2>2 DEF Kept
<1>b. /\ KeptProc(Idle, w) /\ KeptProc(Failed, w) /\ \A k : KeptProc(Having(k), w)
      /\ \A a \in Nat, c \in BOOLEAN : KeptProc(Again(a, c), w) /\ Again(a, c).pc = "key"
  <2>1. \A a \in Nat, c \in BOOLEAN : Again(a, c).pc = "key"
    BY DEF Again, Idle
  <2> QED BY <2>1, IdleIs DEF KeptProc
<1>c. ASSUME NEW k, Settling(p, k), k \in {None, w} \/ "unsealed" \in odd' PROVE Kept'
  <2>1. "unsealed" \notin odd' => memory' \in {None, w}
    BY <1>1, <1>3, <1>c DEF Settling
  <2>2. \A q \in Proc : proc'[q] \in {proc[q], Idle, Failed} \/ (k # None /\ proc'[q] = Having(k))
    BY <1>c, SettlesIs DEF Settling
  <2>3. \A q \in Proc : KeptProc(proc'[q], w)
    BY <1>4, <1>b, <2>2
  <2>4. "unsealed" \notin odd' => \A q \in Proc : proc'[q].pc = "have" => proc'[q].key = w
    BY <1>1, <1>3, <1>c, <2>2, IdleIs
  <2> QED BY <1>a, <2>1, <2>3, <2>4
<1>d. ASSUME NEW me, Become(p, me), memory' = memory, KeptProc(me, w), me.pc # "have" PROVE Kept'
  <2>1. \A q \in Proc : proc'[q] = IF q = p THEN me ELSE proc[q]
    BY <1>0, <1>d DEF Become
  <2> QED BY <1>1, <1>3, <1>4, <1>a, <1>d, <2>1
<1>e. ASSUME Restarts(p) PROVE Kept'
  <2>1. CASE Settling(p, None)
    BY <1>c, <2>1
  <2>2. CASE Settling(p, memory)
    BY <1>1, <1>3, <1>c, <2>2
  <2>3. CASE proc[p].attempt + 1 \in 0..Attempts /\ Continues(p, Again(proc[p].attempt + 1, proc[p].cut))
    BY <1>0, <1>b, <1>d, <2>3 DEF Continues, ProcState
  <2> QED BY <1>e, <2>1, <2>2, <2>3, RestartsOutcome
<1>5. CASE ReadKey(p, refused)
  <2> DEFINE me == [proc[p] EXCEPT !.pc = "canary", !.stored = IF refused THEN Refused ELSE keychain.key]
  <2>1. Goes(p, me)
    BY <1>5 DEF ReadKey
  <2>2. me.pc = "canary"
    BY <1>0 DEF ProcState
  <2> HIDE DEF me
  <2> QED BY <1>d, <2>1, <2>2 DEF Goes, KeptProc
<1>6. CASE ReadCanary(p, refused)
  <2> DEFINE me == [proc[p] EXCEPT !.canary = IF refused THEN Refused ELSE keychain.canary]
             you == [me EXCEPT !.pc = "words"]
  <2>1. /\ me \in ProcState /\ me.canary \in {w, Refused}
        /\ you.pc = "words" /\ you.stored = me.stored /\ you.canary = me.canary
    BY <1>0 DEF ProcState, Stored, Keychain
  <2>2. \/ Irrelevant(me.stored, me.canary) /\ Decides(p, me, None)
        \/ ~Irrelevant(me.stored, me.canary) /\ Goes(p, you)
    BY <1>6 DEF ReadCanary
  <2> HIDE DEF me, you
  <2>3. CASE ~Irrelevant(me.stored, me.canary) /\ Goes(p, you)
    <3>1. me.canary = Refused => me.stored \in {None, Refused}
      BY <2>3 DEF Irrelevant
    <3> QED BY <1>d, <2>1, <2>3, <3>1 DEF Goes, KeptProc
  <2>4. CASE Irrelevant(me.stored, me.canary) /\ Decides(p, me, None)
    <3>1. me.stored \in Key
      BY <2>1, <2>4 DEF Irrelevant, ProcState, Stored
    <3>2. \A k \in Chosen(me.stored, me.canary, None) :
             k = me.stored /\ (me.canary # Refused => k = w)
      BY <1>0, <2>1, <2>4, <3>1, Distinct DEF Chosen, Irrelevant
    <3>3. CASE Settling(p, None)
      BY <1>c, <3>3
    <3>4. CASE Restarts(p)
      BY <1>e, <3>4
    <3>5. CASE \E k \in Chosen(me.stored, me.canary, None) :
                 me.canary # None /\ Settling(p, k)
                 /\ odd' = IF me.canary = Refused THEN odd \cup {"unsealed"} ELSE odd
      BY <1>c, <3>2, <3>5
    <3>6. me.canary # None
      BY <1>0, <2>1, Distinct
    <3> QED BY <2>1, <2>4, <3>2, <3>3, <3>4, <3>5, <3>6, DecidesOutcome
  <2> QED BY <2>2, <2>3, <2>4
<1>7. CASE ReadWords(p, refused)
  <2>1. PICK words \in Words(refused) : Decides(p, proc[p], words)
    BY <1>7 DEF ReadWords
  <2>2. words \in {None, Refused, w} /\ proc[p].pc = "words"
    BY <1>7, <2>1 DEF ReadWords, Words, Common, w
  <2>3. proc[p].canary \in {w, Refused} /\ (proc[p].canary = Refused => proc[p].stored \in {None, Refused})
    BY <1>0, <2>2 DEF KeptProc
  <2>4. \A k \in Chosen(proc[p].stored, proc[p].canary, words) : k = w /\ proc[p].canary = w
    BY <1>0, <2>2, <2>3, Distinct DEF Chosen
  <2>5. CASE Settling(p, None)
    BY <1>c, <2>5
  <2>6. CASE Restarts(p)
    BY <1>e, <2>6
  <2>7. CASE proc[p].canary = w /\ Settling(p, w)
    BY <1>c, <2>7
  <2>8. CASE proc[p].canary = w /\ Become(p, [proc[p] EXCEPT !.pc = "write", !.key = w]) /\ memory' = memory
    <3> DEFINE me == [proc[p] EXCEPT !.pc = "write", !.key = w]
    <3>1. me.pc = "write" /\ me.key = w /\ me.canary = w
      BY <1>0, <2>8 DEF ProcState
    <3>2. Become(p, me)
      BY <2>8
    <3> HIDE DEF me
    <3> QED BY <1>d, <2>8, <3>1, <3>2 DEF KeptProc
  <2>9. proc[p].canary = w => proc[p].canary # None
    BY <1>0
  <2> QED BY <1>0, <2>1, <2>4, <2>5, <2>6, <2>7, <2>8, <2>9, DecidesOutcome
<1>8. CASE WriteKey(p, refused)
  <2> DEFINE me == [proc[p] EXCEPT !.wrote = {"key"}]
             you == [me EXCEPT !.pc = "look"]
  <2>1. proc[p].pc = "write" /\ proc[p].key = w /\ proc[p].canary = w
    BY <1>0, <1>8 DEF WriteKey, KeptProc
  <2>2. /\ me.canary = w /\ me.key = w /\ me.wrote = {"key"}
        /\ you.pc = "look" /\ you.key = w /\ you.wrote = {"key"}
    BY <1>0, <2>1 DEF ProcState
  <2>3. GoesWithout(p) \/ Concluded(p, me)
    BY <1>0, <1>8, <2>2 DEF WriteKey
  <2> HIDE DEF me, you
  <2>4. CASE GoesWithout(p)
    <3>1. Settling(p, None)
      BY <2>4 DEF GoesWithout, Settling
    <3> QED BY <1>c, <3>1
  <2>5. CASE Concluded(p, me) /\ ~me.stale
    <3>1. Settling(p, w)
      BY <1>0, <2>2, <2>5 DEF Concluded, Gets, Settling
    <3> QED BY <1>c, <3>1
  <2>6. CASE Concluded(p, me) /\ me.stale
    <3>1. Goes(p, you)
      BY <2>2, <2>6 DEF Concluded, you
    <3> QED BY <1>d, <2>2, <3>1 DEF Goes, KeptProc
  <2> QED BY <2>3, <2>4, <2>5, <2>6
<1>9. CASE Seal(p, refused)
  BY <1>0, <1>9 DEF Seal, KeptProc
<1>f. ASSUME Looked(p), proc[p].pc \in {"look", "drop"} PROVE Kept'
  <2>1. proc[p].wrote = {"key"}
    BY <1>0, <1>f DEF KeptProc
  <2>2. [proc[p] EXCEPT !.wrote = @ \ {Item(proc[p])}].wrote = {}
    BY <1>0, <2>1 DEF ProcState, Item
  <2> QED BY <1>e, <1>f, <2>2 DEF Looked
<1>10. CASE Look(p, refused)
  <2> DEFINE you == [proc[p] EXCEPT !.pc = "drop"]
  <2>1. (Looked(p) \/ Goes(p, you)) /\ proc[p].pc = "look"
    BY <1>10 DEF Look
  <2>2. you.pc = "drop" /\ you.key = w /\ you.wrote = {"key"}
    BY <1>0, <2>1 DEF ProcState, KeptProc
  <2> HIDE DEF you
  <2>3. CASE Goes(p, you)
    BY <1>d, <2>2, <2>3 DEF Goes, KeptProc
  <2> QED BY <1>f, <2>1, <2>3
<1>11. CASE Drop(p, refused)
  BY <1>11, <1>f DEF Drop
<1> QED BY <1>5, <1>6, <1>7, <1>8, <1>9, <1>10, <1>11 DEF Resolve

\* Where the canary is sealed with the words' key, the migration finds it.
LEMMA KeptMigrates ==
    ASSUME Typed, Shape, Common, Kept, NEW refused \in BOOLEAN, Migrate(refused)
    PROVE Kept'
<1> DEFINE w == keychain.words
<1>0. /\ opening \in Opening /\ keychain \in Keychain /\ w # None /\ keychain.canary = w
  BY DEF Typed, Kept
<1>1. /\ opening.pc \in Migrating \cup {"words"} /\ proc["opening"] = Idle
      /\ UNCHANGED disk /\ ~disk.marked /\ disk.seen # "no"
  BY Names DEF Migrate, OpenWords, OpenKey, OpenSeal, Rewrap, KeepSeal, KeepKey, WrapBack, Shape, ProcShape,
     Migrating, data, Common
<1>2. \A q \in Proc : proc[q] = Idle
  BY <1>1 DEF Common, Migrating
<1>3. \A q \in Proc : proc'[q] = Idle
  <2>1. proc' = proc \/ proc' = Outdated
    BY DEF Migrate, OpenWords, OpenKey, OpenSeal, Rewrap, KeepSeal, KeepKey, WrapBack
  <2> QED BY <1>2, <2>1, OutdatedShape, IdleIs DEF Resolving
<1>4. opening.pc \in Migrating => opening.to = w /\ recall = w
  BY DEF Common
<1>5. "unsealed" \notin odd => disk.rows \subseteq {w} /\ keychain.secret \in {None, w}
  BY DEF Kept
<1>6. Common'
  BY MigrateCommon
<1> HIDE DEF w
<1>a. ASSUME keychain'.words = w, keychain'.canary = w, keychain'.secret = keychain.secret, odd \subseteq odd',
             opening'.pc \in {"key", "seal", "keepseal", "keepkey", "failing", "encrypt", "mark"},
             opening'.pc = "keepseal" => ~opening'.moved,
             opening'.pc \in {"encrypt", "mark"} => memory' \in {None, w} \/ "unsealed" \in odd'
      PROVE  Kept'
  <2>1. \A q \in Proc : KeptProc(proc'[q], w) /\ proc'[q].pc # "have"
    BY <1>3, IdleIs DEF KeptProc
  <2>2. "unsealed" \notin odd' => memory' \in {None, w} \/ Carried'
    <3>1. CASE opening'.pc \in {"encrypt", "mark"}
      BY <1>a, <3>1
    <3>2. CASE opening'.pc \in Migrating \cup {"failing"}
      BY <1>1, <1>6, <1>a, <3>2 DEF Common, Carried
    <3> QED BY <1>a, <3>1, <3>2 DEF Migrating
  <2>3. "unsealed" \notin odd' => disk'.rows \subseteq {w} /\ keychain'.secret \in {None, w}
    BY <1>1, <1>5, <1>a
  <2> QED BY <1>0, <1>a, <2>1, <2>2, <2>3 DEF Kept
<1>7. CASE OpenWords(refused)
  <2>1. /\ UNCHANGED <<keychain, memory, odd>> /\ opening.pc = "words"
        /\ opening'.pc \in {"failing", "encrypt", "key"}
        /\ recall' \in {recall, None, keychain.words} /\ (recall # Unasked => recall' = recall)
        /\ opening'.pc = "encrypt" => recall' = None
    BY <1>0, <1>7, OpenWordsIs DEF Common, OpenWords, w
  <2>2. opening'.pc = "encrypt" => memory' = None
    <3> SUFFICES ASSUME opening'.pc = "encrypt", memory # None PROVE FALSE
      BY <2>1
    <3>1. recall = w /\ recall' = None
      BY <2>1 DEF Common, w
    <3>2. w # Unasked
      BY KeyKinds DEF w
    <3> QED BY <1>0, <2>1, <3>1, <3>2
  <2> QED BY <1>0, <1>a, <2>1, <2>2 DEF w
<1>8. CASE OpenKey(refused)
  <2>1. /\ UNCHANGED <<keychain, odd>> /\ opening.pc = "key" /\ ~opening.moved
        /\ opening'.pc \in {"failing", "keepseal", "seal"} /\ opening'.moved = opening.moved
    BY <1>0, <1>8 DEF OpenKey, Opening, Shape
  <2> QED BY <1>0, <1>a, <2>1 DEF w
<1>9. CASE OpenSeal(refused)
  <2>1. opening.pc = "seal" /\ opening.to = w /\ ~opening.moved
    BY <1>4, <1>9 DEF OpenSeal, Migrating, Shape
  <2>2. /\ UNCHANGED <<keychain, odd>> /\ opening'.moved = opening.moved
        /\ opening'.pc \in {"failing", "keepseal"}
    BY <1>0, <1>9, <2>1 DEF OpenSeal, Opens, Opening
  <2> QED BY <1>0, <1>a, <2>1, <2>2 DEF w
<1>10. CASE Rewrap(refused) \/ WrapBack(refused)
  BY <1>10 DEF Rewrap, WrapBack, Kept
<1>11. CASE KeepSeal(refused)
  <2>1. opening.pc = "keepseal" /\ opening.to = w /\ ~opening.moved
    BY <1>4, <1>11 DEF KeepSeal, Migrating, Kept
  <2>2. /\ opening'.pc = IF refused THEN "encrypt" ELSE "keepkey"
        /\ keychain' = IF refused THEN keychain
                       ELSE [keychain EXCEPT !.canary = w, !.sealer = "nobody"]
        /\ odd' = IF refused /\ memory # None THEN odd \cup {"unsealed"} ELSE odd
        /\ memory' = memory
    BY <1>0, <1>11, <2>1 DEF KeepSeal, Opens, Opening
  <2>3. keychain'.words = w /\ keychain'.canary = w /\ keychain'.secret = keychain.secret
    BY <1>0, <2>2 DEF Keychain, w
  <2> QED BY <1>a, <2>2, <2>3
<1>12. CASE KeepKey(refused) /\ refused
  <2>1. opening'.pc = "failing" /\ UNCHANGED <<keychain, odd>>
    BY <1>0, <1>12 DEF KeepKey, Opens, Opening
  <2> QED BY <1>0, <1>a, <2>1 DEF w
<1>13. CASE KeepKey(refused) /\ ~refused
  <2>1. opening.pc = "keepkey" /\ opening.to = w
    BY <1>4, <1>13 DEF KeepKey, Migrating
  <2>2. /\ opening'.pc = "mark" /\ keychain' = [keychain EXCEPT !.key = w] /\ memory' = w /\ odd' = odd
    BY <1>0, <1>13, <2>1 DEF KeepKey, Opens, Opening, SetMemory
  <2>3. keychain'.words = w /\ keychain'.canary = w /\ keychain'.secret = keychain.secret
    BY <1>0, <2>2 DEF Keychain, w
  <2> QED BY <1>a, <2>2, <2>3
<1> QED BY <1>7, <1>8, <1>9, <1>10, <1>11, <1>12, <1>13 DEF Migrate

\* The secret key is sealed with the key of the words.
LEMMA KeptWallet ==
    ASSUME Typed, Shape, Common, Kept, NEW refused \in BOOLEAN, SaveWords(refused) \/ SaveSecret(refused)
    PROVE Kept'
<1> DEFINE w == keychain.words
<1>0. /\ keychain \in Keychain /\ opening.pc = "open" /\ "wallet" \in Proc /\ w # None
      /\ \A q \in Proc : KeptProc(proc[q], w)
  BY Names DEF Typed, Kept, SaveWords, SaveSecret, Shape
<1>1. CASE SaveWords(refused)
  <2>1. refused
    BY <1>0, <1>1 DEF SaveWords, Common
  <2> QED BY <1>0, <1>1, <2>1 DEF SaveWords, data, Kept, Carried, Migrating
<1>2. CASE SaveSecret(refused)
  <2>1. /\ Become("wallet", Idle) /\ UNCHANGED <<memory, opening, disk, odd>>
        /\ keychain' = IF refused THEN keychain ELSE [keychain EXCEPT !.secret = proc["wallet"].key]
        /\ proc["wallet"].pc = "have"
    BY <1>2 DEF SaveSecret, data
  <2>2. /\ keychain'.canary = keychain.canary /\ keychain'.words = w
        /\ keychain'.secret \in {keychain.secret, proc["wallet"].key}
    BY <1>0, <2>1 DEF Keychain
  <2>3. \A q \in Proc : proc'[q] = IF q = "wallet" THEN Idle ELSE proc[q]
    BY <1>0, <2>1, BecomeIdle
  <2>4. \A q \in Proc : KeptProc(proc'[q], w)
    BY <1>0, <2>3, IdleIs DEF KeptProc
  <2>5. "unsealed" \notin odd =>
            /\ disk.rows \subseteq {w} /\ keychain.secret \in {None, w} /\ memory \in {None, w}
            /\ \A q \in Proc : proc[q].pc = "have" => proc[q].key = w
    BY <1>0 DEF Kept, Carried, Migrating
  <2>6. "unsealed" \notin odd => \A q \in Proc : proc'[q].pc = "have" => proc'[q].key = w
    BY <2>3, <2>5, IdleIs
  <2> HIDE DEF w
  <2>7. keychain'.canary = w /\ "unsealed" \notin odd => keychain'.secret \in {None, w}
    BY <1>0, <2>1, <2>2, <2>5
  <2> QED BY <1>0, <2>1, <2>2, <2>4, <2>5, <2>6, <2>7 DEF Kept, w
<1> QED BY <1>1, <1>2

\* Everything else leaves what is kept under the key of the words.
LEMMA KeptMoves ==
    ASSUME Typed, Shape, Common, Kept, wiping = "rest", wiping' = "rest", Elsewhere \/ Kill
    PROVE Kept'
<1> DEFINE w == keychain.words
<1>0. /\ keychain \in Keychain /\ opening \in Opening /\ disk \in Disk /\ proc \in [Proc -> ProcState]
      /\ w # None /\ keychain.canary = w /\ "wallet" \in Proc /\ "opening" \in Proc
      /\ \A q \in Proc : KeptProc(proc[q], w)
  BY Names DEF Typed, Kept
<1>1. "unsealed" \notin odd =>
        /\ disk.rows \subseteq {w} /\ keychain.secret \in {None, w}
        /\ \A q \in Proc : proc[q].pc = "have" => proc[q].key = w
        /\ memory \in {None, w} \/ Carried
  BY DEF Kept
<1>2. odd' = odd
  BY DEF Elsewhere, Kill, Begin, WriteRow, Move, Unmove, Forget, Open, Mark, Encrypt, OpenFails,
     Onboard, Recover, NoSecret, CloseForRestore, SeenLands, Wipe, WipeMemory, WipeUnseen, WipeFiles
<1> DEFINE Had == \A q \in Proc : /\ KeptProc(proc'[q], w)
                                  /\ "unsealed" \notin odd /\ proc'[q].pc = "have" => proc'[q].key = w
           Rows == "unsealed" \notin odd => disk'.rows \subseteq {w}
           Rest == {"open", "encrypt", "closed", "failing", "words"}
<1>a. ASSUME keychain'.words = w, keychain'.canary = w, keychain'.secret = keychain.secret, Had, Rows,
             opening'.pc \in Rest, "unsealed" \notin odd => memory' \in {None, w} \/ Carried'
      PROVE  Kept'
  BY <1>0, <1>1, <1>2, <1>a DEF Kept
<1>b. opening.pc \in {"open", "encrypt", "mark"} /\ "unsealed" \notin odd => memory \in {None, w}
  BY <1>1 DEF Carried, Migrating
<1>c. ASSUME NEW p \in Proc, Calls(p), opening.pc \in {"open", "encrypt"} PROVE Had
  <2>1. /\ Again(1, FALSE).pc = "key"
        /\ [Idle EXCEPT !.pc = "joined", !.with = inflight].pc = "joined"
    BY DEF Again, Idle
  <2>2. \/ proc'[p] = Having(memory) /\ memory # None
        \/ proc'[p].pc = "joined" \/ proc'[p] = Again(1, FALSE)
    BY <1>0, <1>c, <2>1, CallsShape
  <2>3. /\ proc'[p].pc \in {"have", "joined", "key"}
        /\ proc'[p].pc = "have" => proc'[p].key = memory /\ memory # None
    <3> DEFINE him == proc'[p]
    <3>1. CASE him = Having(memory) /\ memory # None
      BY <3>1, IdleIs
    <3>2. CASE him.pc = "joined"
      BY <3>2
    <3>3. CASE him = Again(1, FALSE)
      BY <2>1, <3>3
    <3> HIDE DEF him
    <3> QED BY <2>2, <3>1, <3>2, <3>3 DEF him
  <2>4. KeptProc(proc'[p], w)
    BY <2>3 DEF KeptProc
  <2>5. "unsealed" \notin odd /\ proc'[p].pc = "have" => proc'[p].key = w
    BY <1>b, <1>c, <2>3
  <2> QED BY <1>0, <1>1, <1>c, <2>4, <2>5, CallsShape
<1>d. ASSUME NEW p \in Proc, Become(p, Idle) PROVE Had
  <2>1. \A q \in Proc : proc'[q] = IF q = p THEN Idle ELSE proc[q]
    BY <1>0, <1>d, BecomeIdle
  <2> QED BY <1>0, <1>1, <2>1, IdleIs DEF KeptProc
<1>e. ASSUME proc' = proc PROVE Had
  BY <1>0, <1>1, <1>e
<1>f. disk'.rows = disk.rows => Rows
  BY <1>1
<1>3. CASE \E c \in Caller : Begin(c)
  <2>1. PICK c \in Caller : Begin(c)
    BY <1>3
  <2>2. /\ Calls(c) /\ UNCHANGED <<keychain, disk, memory, opening>> /\ opening.pc = "open" /\ c \in Proc
    BY <2>1 DEF Begin, data, Proc
  <2>3. Had
    BY <1>c, <2>2
  <2> QED BY <1>0, <1>a, <1>b, <1>f, <2>2, <2>3
<1>4. CASE \E c \in Caller : WriteRow(c)
  <2>1. PICK c \in Caller : WriteRow(c)
    BY <1>4
  <2>2. /\ Become(c, Idle) /\ UNCHANGED <<keychain, memory, opening>> /\ opening.pc = "open" /\ c \in Proc
        /\ disk' = [disk EXCEPT !.rows = @ \cup {proc[c].key}] \/ disk' = disk
        /\ proc[c].pc = "have"
    BY <2>1 DEF WriteRow, data, Proc
  <2>3. disk'.rows \subseteq disk.rows \cup {proc[c].key}
    BY <1>0, <2>2 DEF Disk
  <2>4. Rows
    BY <1>1, <2>2, <2>3
  <2>5. Had
    BY <1>d, <2>2
  <2> QED BY <1>0, <1>a, <1>b, <2>2, <2>4, <2>5
<1>5. CASE \E ok \in BOOLEAN : Move(ok) \/ Unmove(ok)
  BY <1>5 DEF Move, Unmove, Kept
<1>6. CASE Forget
  <2>1. /\ memory' = None /\ proc' = Outdated /\ UNCHANGED <<keychain, disk, opening>> /\ opening.pc = "open"
    BY <1>6 DEF Forget, SetMemory, data
  <2>2. Had
    BY <1>0, <1>1, <2>1, OutdatedShape DEF KeptProc
  <2> QED BY <1>0, <1>a, <1>f, <2>1, <2>2
<1>7. CASE Open
  <2>1. /\ opening'.pc = IF disk.marked \/ disk.seen = "no" THEN "encrypt" ELSE "words"
        /\ UNCHANGED <<keychain, disk, memory, proc, recall>>
    BY <1>7 DEF Open, Shut, data
  <2>2. "unsealed" \notin odd => memory' \in {None, w} \/ Carried'
    BY <1>1, <2>1 DEF Carried
  <2> QED BY <1>0, <1>a, <1>e, <1>f, <2>1, <2>2
<1>8. CASE Mark
  <2>1. /\ opening' = [opening EXCEPT !.pc = "encrypt"] /\ disk' = [disk EXCEPT !.marked = TRUE]
        /\ UNCHANGED <<keychain, memory, proc>> /\ opening.pc = "mark"
    BY <1>8 DEF Mark, Opens
  <2>2. opening'.pc = "encrypt" /\ disk'.rows = disk.rows
    BY <1>0, <2>1 DEF Opening, Disk
  <2> QED BY <1>0, <1>a, <1>b, <1>e, <1>f, <2>1, <2>2
<1>9. CASE Encrypt
  <2>1. UNCHANGED <<keychain, memory>> /\ opening.pc = "encrypt"
    BY <1>9 DEF Encrypt
  <2>2. disk' = disk \/ disk' = [disk EXCEPT !.encrypted = TRUE]
    BY <1>9 DEF Encrypt
  <2>3. disk'.rows = disk.rows
    BY <1>0, <2>2 DEF Disk
  <2>4. CASE Opened
    <3>1. opening'.pc = "open" /\ Become("opening", Idle)
      BY <2>4 DEF Opened, Shut
    <3>2. Had
      BY <1>0, <1>d, <3>1
    <3> QED BY <1>0, <1>a, <1>b, <1>f, <2>1, <2>3, <3>1, <3>2
  <2>5. CASE Calls("opening") /\ UNCHANGED opening
    <3>1. Had
      BY <1>0, <1>c, <2>1, <2>5
    <3> QED BY <1>0, <1>a, <1>b, <1>f, <2>1, <2>3, <2>5, <3>1
  <2>6. CASE Become("opening", Idle) /\ Opens("failing")
    <3>1. opening'.pc = "failing"
      BY <1>0, <2>6 DEF Opens, Opening
    <3>2. Had
      BY <1>0, <1>d, <2>6
    <3> QED BY <1>0, <1>a, <1>b, <1>f, <2>1, <2>3, <3>1, <3>2
  <2> QED BY <1>9, <2>4, <2>5, <2>6 DEF Encrypt
<1>10. CASE OpenFails
  <2>1. opening'.pc = "closed" /\ UNCHANGED <<keychain, disk, memory, proc, recall>>
    BY <1>10 DEF OpenFails, Shut, data
  <2>2. "unsealed" \notin odd => memory' \in {None, w} \/ Carried'
    BY <1>1, <2>1 DEF Carried
  <2> QED BY <1>0, <1>a, <1>e, <1>f, <2>1, <2>2
<1>11. CASE Onboard
  BY <1>0, <1>11 DEF Onboard
<1>12. CASE Recover
  <2>1. Calls("wallet") /\ UNCHANGED <<keychain, disk, memory, opening>> /\ opening.pc = "open"
    BY <1>12 DEF Recover, data
  <2>2. Had
    BY <1>0, <1>c, <2>1
  <2> QED BY <1>0, <1>a, <1>b, <1>f, <2>1, <2>2
<1>13. CASE NoSecret
  <2>1. Become("wallet", Idle) /\ UNCHANGED <<keychain, disk, memory, opening>> /\ opening.pc = "open"
    BY <1>13 DEF NoSecret, data, Shape
  <2>2. Had
    BY <1>0, <1>d, <2>1
  <2> QED BY <1>0, <1>a, <1>b, <1>f, <2>1, <2>2
<1>14. CASE CloseForRestore
  <2>1. /\ proc' = Cut(proc) /\ opening' = Shut /\ Shut.pc = "closed" /\ UNCHANGED <<keychain, disk, memory>>
        /\ opening.pc = "open"
    BY <1>14 DEF CloseForRestore, data, Shut, Shape
  <2>2. Had
    BY <1>0, <1>1, <2>1, CutIs, IdleIs DEF KeptProc
  <2> QED BY <1>0, <1>a, <1>b, <1>f, <2>1, <2>2
<1>15. CASE SeenLands
  <2>1. /\ disk'.rows = disk.rows /\ opening.pc = "open"
        /\ UNCHANGED <<keychain, memory, proc, opening>>
    BY <1>0, <1>15 DEF SeenLands, Disk
  <2> QED BY <1>0, <1>a, <1>b, <1>e, <1>f, <2>1
<1>16. CASE Wipe \/ WipeMemory \/ WipeUnseen \/ WipeFiles
  BY <1>16 DEF Wipe, WipeMemory, WipeUnseen, WipeFiles
<1>17. CASE Kill
  <2>1. /\ memory' = None /\ opening' = Shut /\ Shut.pc = "closed" /\ disk' = disk
        /\ \A q \in Proc : proc'[q] = Idle
    BY <1>17 DEF Kill, Shut, data
  <2>2. /\ keychain'.canary = w /\ keychain'.secret = keychain.secret /\ keychain'.words = w
    BY <1>0, <1>17 DEF Kill, Keychain
  <2>3. Had
    BY <2>1, IdleIs DEF KeptProc
  <2> QED BY <1>0, <1>a, <1>f, <2>1, <2>2, <2>3
<1> QED BY <1>3, <1>4, <1>5, <1>6, <1>7, <1>8, <1>9, <1>10, <1>11, <1>12, <1>13, <1>14,
           <1>15, <1>16, <1>17 DEF Elsewhere

-----------------------------------------------------------------------------
(* The theorems.                                                           *)

\* What holds unless a wipe was disturbed: one of the three phases, or the wipe.
Sound ==
    ~Disturbed =>
        /\ Living
        /\ wiping = "rest" => Common /\ (Bare \/ AtRandom \/ Kept)
        /\ wiping # "rest" => Wiped

\* The inductive invariant.
IInv == Typed /\ Shape /\ Lined /\ Sound

\* The end of the process leaves nobody in line.
LEMMA KillLined == Kill => Lined'
<1> SUFFICES ASSUME Kill PROVE Lined'
  OBVIOUS
<1>1. /\ line' = <<>> /\ opening' = Shut /\ wallet' = "rest" /\ wiping' = "rest"
      /\ \A q \in Proc : proc'[q] = Idle
  BY DEF Kill
<1>2. \A a \in Actor : ~Asking(a)'
  BY <1>1, AskingWillBe, IdleIs, Names DEF Shut, Asks, Waits, Resolving
<1>3. ToSet(<<>>) = {} /\ IsInjective(<<>>) /\ <<>> \in Seq(Actor)
  BY DEF ToSet, IsInjective
<1> QED BY <1>1, <1>2, <1>3 DEF Lined

\* The invariant holds on a new device.
LEMMA Begins == Init => IInv
<1> SUFFICES ASSUME Init PROVE IInv
  OBVIOUS
<1>0. /\ Idle \in ProcState /\ Shut.pc = "closed" /\ Shut.from = None /\ Shut.to = None /\ ~Shut.moved
      /\ "opening" \in Proc /\ "wallet" \in Proc
  BY RestingTyped, Names DEF Shut
<1>1. Typed
  <2>1. /\ keychain \in Keychain /\ disk \in Disk /\ opening \in Opening
        /\ proc \in [Proc -> ProcState]
    BY <1>0 DEF Init, Keychain, Disk, NewDisk, Opening, Shut
  <2>2. spent \in Spent
    BY DataKeyAssumption DEF Init, Spent
  <2> QED BY <2>1, <2>2 DEF Init, Typed
<1>2. Shape
  BY <1>0, IdleIs, Names DEF Init, Shape, ProcShape, Migrating
<1>3. Lined
  <2>1. \A a \in Actor : ~Asking(a)
    BY <1>0, AskingIs, IdleIs, Names DEF Init, Asks, Waits, Resolving
  <2>2. ToSet(<<>>) = {} /\ IsInjective(<<>>) /\ <<>> \in Seq(Actor)
    BY DEF ToSet, IsInjective
  <2> QED BY <2>1, <2>2 DEF Init, Lined
<1>4. Common
  BY <1>0, IdleIs, Names DEF Init, Common, Migrating, Resolving
<1>5. Bare
  BY <1>0, IdleIs, Names DEF Init, Bare, BareProc, NewDisk
<1>6. Living /\ wiping = "rest"
  BY DEF Init, Living
<1> QED BY <1>1, <1>2, <1>3, <1>4, <1>5, <1>6 DEF IInv, Sound

\* Whoever is answered stands first.
LEMMA StepsAre ==
    ASSUME Next
    PROVE \/ \E refused \in BOOLEAN :
                /\ line # <<>> /\ LinesUp(Tail(line))
                /\ \/ \E p \in Proc : p = Head(line) /\ Resolve(p, refused)
                   \/ "migration" = Head(line) /\ Migrate(refused)
                   \/ "onboarding" = Head(line) /\ (SaveWords(refused) \/ SaveSecret(refused))
                   \/ "wipe" = Head(line) /\ (WipeWords(refused) \/ WipeRecord(refused))
                   \/ "wipe" = Head(line) /\ WipeAgain(refused)
          \/ Elsewhere
          \/ Kill
BY DEF Next, Answered

\* Every step keeps the types.
LEMMA StepTyped == ASSUME Typed, Shape, Next PROVE Typed'
<1>1. ASSUME NEW p \in Proc, NEW r \in BOOLEAN, Resolve(p, r) PROVE Typed'
  BY <1>1, ReadTyped, WriteTyped DEF Resolve
<1>2. ASSUME Elsewhere PROVE Typed'
  <2>1. CASE \E c \in Caller : Begin(c) \/ WriteRow(c)
    BY <2>1, CallerTyped
  <2>2. CASE \/ \E ok \in BOOLEAN : Move(ok) \/ Unmove(ok)
             \/ Open \/ Mark \/ Encrypt \/ OpenFails \/ SeenLands
    BY <2>2, DatabaseTyped
  <2>3. CASE \/ Forget \/ Onboard \/ Recover \/ NoSecret \/ CloseForRestore
             \/ Wipe \/ WipeMemory \/ WipeUnseen \/ WipeFiles
    BY <2>3, AccountTyped
  <2> QED BY <1>2, <2>1, <2>2, <2>3 DEF Elsewhere
<1>3. ASSUME Kill PROVE Typed'
  BY <1>3, AccountTyped
<1> QED BY <1>1, <1>2, <1>3, StepsAre, MigrateTyped, WalletTyped, WipesTyped

\* Every step keeps the shape.
LEMMA StepShape == ASSUME Typed, Shape, Next PROVE Shape'
<1>2. ASSUME Elsewhere PROVE Shape'
  <2>1. CASE \E c \in Caller : Begin(c) \/ WriteRow(c)
    BY <2>1, CallerShape
  <2>2. CASE (\E ok \in BOOLEAN : Move(ok) \/ Unmove(ok)) \/ Forget \/ Open \/ Mark \/ OpenFails
    BY <2>2, DatabaseShape
  <2>3. CASE Encrypt
    BY <2>3, EncryptShape
  <2>4. CASE \/ Onboard \/ Recover \/ NoSecret \/ CloseForRestore \/ SeenLands
             \/ Wipe \/ WipeMemory \/ WipeUnseen \/ WipeFiles
    BY <2>4, AccountShape
  <2> QED BY <1>2, <2>1, <2>2, <2>3, <2>4 DEF Elsewhere
<1>3. ASSUME Kill PROVE Shape'
  BY <1>3, AccountShape
<1> QED BY <1>2, <1>3, StepsAre, ResolveShape, MigrateShape, WalletShape, WipesShape

\* Every step keeps the line.
LEMMA StepLinedUp == ASSUME Typed, Shape, Lined, Next PROVE Lined'
BY StepsAre, ResolveLined, MigrateLined, WalletLined, WipesLined, ElsewhereLined, KillLined

\* A key that is gone stays away.
LEMMA StepLiving ==
    ASSUME IInv, Next, Typed', ~Disturbed'
    PROVE  Living'
<1>0. ~Disturbed /\ Living /\ Typed /\ Shape /\ Lined
  BY Worsens DEF IInv, Sound
<1>1. Made \subseteq Made' /\ gone \subseteq Made
  BY <1>0, MadeGrows DEF Living
<1>2. CASE \E r \in BOOLEAN : line # <<>> /\ LinesUp(Tail(line)) /\ "wipe" = Head(line) /\ WipeAgain(r)
  <2>1. PICK r \in BOOLEAN : line # <<>> /\ LinesUp(Tail(line)) /\ "wipe" = Head(line) /\ WipeAgain(r)
    BY <1>2
  <2>2. Wiped
    BY <1>0, <2>1 DEF IInv, Sound, WipeAgain
  <2>3. "leftover" \notin odd'
    BY DEF Disturbed
  <2>4. gone' = Made /\ \A x \in Key : Lacks(x)'
    BY <1>0, <2>1, <2>2, <2>3, WipeEnds
  <2>5. gone' \subseteq Key
    BY DEF Typed
  <2> QED BY <1>1, <2>4, <2>5 DEF Living
<1>a. ASSUME gone' = gone, \A x \in gone : Lacks(x)' PROVE Living'
  BY <1>1, <1>a DEF Living
<1>b. ASSUME NEW x \in gone PROVE x \in Key /\ Lacks(x) /\ Past(x)
  BY <1>0, <1>1, PastIs DEF Living, Typed
<1>3. CASE \E p \in Proc, r \in BOOLEAN : Resolve(p, r)
  <2>1. gone' = gone
    <3>1. PICK p \in Proc, r \in BOOLEAN : Resolve(p, r)
      BY <1>3
    <3> QED BY <3>1 DEF Resolve, ReadKey, ReadCanary, ReadWords, WriteKey, Seal, Look, Drop
  <2>2. ASSUME NEW x \in gone PROVE Lacks(x)'
    BY <1>0, <1>3, <1>b, ResolveLacks
  <2> QED BY <1>a, <2>1, <2>2
<1>4. CASE \E r \in BOOLEAN : Migrate(r)
  <2>1. gone' = gone
    BY <1>4 DEF Migrate, OpenWords, OpenKey, OpenSeal, Rewrap, KeepSeal, KeepKey, WrapBack
  <2>2. ASSUME NEW x \in gone PROVE Lacks(x)'
    BY <1>0, <1>4, <1>b, MigrateLacks
  <2> QED BY <1>a, <2>1, <2>2
<1>5. CASE \/ \E r \in BOOLEAN : SaveWords(r) \/ SaveSecret(r) \/ WipeWords(r) \/ WipeRecord(r)
           \/ Elsewhere \/ Kill
  <2>1. gone' = gone
    BY <1>5 DEF SaveWords, SaveSecret, WipeWords, WipeRecord, Elsewhere, Kill, Begin, WriteRow, Move,
       Unmove, Forget, Open, Mark, Encrypt, OpenFails, Onboard, Recover, NoSecret, CloseForRestore,
       SeenLands, Wipe, WipeMemory, WipeUnseen, WipeFiles
  <2>2. ASSUME NEW x \in gone PROVE Lacks(x)'
    BY <1>0, <1>5, <1>b, OtherLacks
  <2> QED BY <1>a, <2>1, <2>2
<1> QED BY <1>2, <1>3, <1>4, <1>5, StepsAre

\* The phases follow one another.
LEMMA StepPhase ==
    ASSUME IInv, Next, Typed', ~Disturbed'
    PROVE  /\ wiping' = "rest" => Common' /\ (Bare' \/ AtRandom' \/ Kept')
           /\ wiping' # "rest" => Wiped'
<1>0. ~Disturbed /\ Typed /\ Shape /\ Lined
  BY Worsens DEF IInv, Sound
<1>1. {"late", "leftover", "halfway"} \cap odd' = {}
  BY DEF Disturbed
<1>2. CASE wiping = "rest"
  <2>0. Common /\ (Bare \/ AtRandom \/ Kept)
    BY <1>0, <1>2 DEF IInv, Sound
  <2>1. CASE \E p \in Proc, r \in BOOLEAN : Resolve(p, r)
    <3>1. wiping' = "rest"
      <4>1. PICK p \in Proc, r \in BOOLEAN : Resolve(p, r)
        BY <2>1
      <4>2. wiping' = wiping
        BY <4>1 DEF Resolve, ReadKey, ReadCanary, ReadWords, WriteKey, Seal, Look, Drop
      <4> QED BY <1>2, <4>2
    <3> QED BY <1>0, <2>0, <2>1, <3>1, ResolveCommon, BareResolves, RandomResolves, KeptResolves
  <2>2. CASE \E r \in BOOLEAN : Migrate(r)
    <3>1. wiping' = "rest"
      BY <1>2, <2>2 DEF Migrate, OpenWords, OpenKey, OpenSeal, Rewrap, KeepSeal, KeepKey, WrapBack
    <3> QED BY <1>0, <1>2, <2>0, <2>2, <3>1, MigrateCommon, BareMoves, RandomMigrates, KeptMigrates
  <2>3. CASE \E r \in BOOLEAN : SaveWords(r) \/ SaveSecret(r)
    <3>1. wiping' = "rest"
      BY <1>2, <2>3 DEF SaveWords, SaveSecret
    <3> QED BY <1>0, <1>2, <2>0, <2>3, <3>1, WalletCommon, BareMoves, RandomWallet, KeptWallet
  <2>4. CASE Elsewhere /\ wiping' = "rest"
    BY <1>0, <1>2, <2>0, <2>4, ElsewhereCommon, BareMoves, RandomMoves, KeptMoves
  <2>5. CASE Elsewhere /\ wiping' # "rest"
    <3>1. Wipe /\ LinesUp(line)
      BY <1>2, <2>5 DEF Elsewhere, Begin, WriteRow, Move, Unmove, Forget, Open, Mark, Encrypt, OpenFails,
         Onboard, Recover, NoSecret, CloseForRestore, SeenLands, WipeMemory, WipeUnseen, WipeFiles
    <3> QED BY <1>0, <2>0, <2>5, <3>1, WipeBegins
  <2>6. CASE Kill
    <3>1. wiping' = "rest"
      BY <2>6 DEF Kill
    <3> QED BY <1>0, <1>2, <2>0, <2>6, <3>1, KillCommon, BareMoves, RandomMoves, KeptMoves
  <2>7. CASE \E r \in BOOLEAN : WipeWords(r) \/ WipeRecord(r) \/ WipeAgain(r)
    BY <1>2, <2>7 DEF WipeWords, WipeRecord, WipeAgain
  <2> QED BY <2>1, <2>2, <2>3, <2>4, <2>5, <2>6, <2>7, StepsAre
<1>3. CASE wiping # "rest"
  <2>0. Wiped
    BY <1>0, <1>3 DEF IInv, Sound
  <2>1. ASSUME NEW p \in Proc, NEW r \in BOOLEAN, line # <<>>, LinesUp(Tail(line)), p = Head(line), Resolve(p, r)
        PROVE  Wiped' /\ wiping' # "rest"
    <3>1. wiping' = wiping
      BY <2>1 DEF Resolve, ReadKey, ReadCanary, ReadWords, WriteKey, Seal, Look, Drop
    <3> QED BY <1>0, <1>1, <1>3, <2>0, <2>1, <3>1, OldResolves
  <2>2. ASSUME NEW r \in BOOLEAN, line # <<>>, LinesUp(Tail(line)), "migration" = Head(line), Migrate(r)
        PROVE  Wiped' /\ wiping' # "rest"
    <3>1. wiping' = wiping
      BY <2>2 DEF Migrate, OpenWords, OpenKey, OpenSeal, Rewrap, KeepSeal, KeepKey, WrapBack
    <3> QED BY <1>0, <1>3, <2>0, <2>2, <3>1, MigrateWiped
  <2>3. ASSUME NEW r \in BOOLEAN, SaveWords(r) \/ SaveSecret(r) PROVE FALSE
    BY <1>0, <1>3, <2>3 DEF SaveWords, SaveSecret, Shape
  <2>4. ASSUME NEW r \in BOOLEAN, line # <<>>, LinesUp(Tail(line)), "wipe" = Head(line),
               WipeWords(r) \/ WipeRecord(r)
        PROVE  Wiped' /\ wiping' # "rest"
    <3>1. wiping' # "rest"
      BY <2>4 DEF WipeWords, WipeRecord, Following
    <3> QED BY <1>0, <1>1, <2>0, <2>4, <3>1, WipesWiped
  <2>5. ASSUME NEW r \in BOOLEAN, line # <<>>, LinesUp(Tail(line)), "wipe" = Head(line), WipeAgain(r)
        PROVE  wiping' = "rest" /\ Common' /\ Bare'
    BY <1>0, <1>1, <2>0, <2>5, WipeEnds
  <2>6. ASSUME Elsewhere PROVE Wiped' /\ wiping' # "rest"
    <3>1. wiping' # "rest"
      BY <1>3, <2>6 DEF Elsewhere, Begin, WriteRow, Move, Unmove, Forget, Open, Mark, Encrypt, OpenFails,
         Onboard, Recover, NoSecret, CloseForRestore, SeenLands, Wipe, WipeMemory, WipeUnseen, WipeFiles
    <3> QED BY <1>0, <1>3, <2>0, <2>6, <3>1, ElsewhereWiped
  <2>7. ASSUME Kill PROVE FALSE
    BY <1>1, <1>3, <2>7 DEF Kill
  <2> QED BY <2>1, <2>2, <2>3, <2>4, <2>5, <2>6, <2>7, StepsAre
<1> QED BY <1>2, <1>3

\* The invariant is about the variables only.
LEMMA Stutters == IInv /\ UNCHANGED vars => IInv'
<1> SUFFICES ASSUME IInv, UNCHANGED vars PROVE IInv'
  OBVIOUS
<1>0. /\ UNCHANGED <<keychain, line, disk, feed, memory, inflight, recall, proc, opening>>
      /\ UNCHANGED <<wallet, wiping, posted, spent, gone, odd>>
  BY DEF vars, data, process
<1>1. Typed' /\ Shape'
  BY <1>0 DEF IInv, Typed, Shape
<1>2. Lined'
  <2>1. \A a \in Actor : Asking(a)' <=> Asking(a)
    BY <1>0, AskingIs, AskingWillBe, Names
  <2> QED BY <1>0, <2>1 DEF IInv, Lined
<1>3. Sound'
  <2>1. (Disturbed' <=> Disturbed) /\ (Common' <=> Common) /\ (Bare' <=> Bare) /\ (AtRandom' <=> AtRandom)
    BY <1>0 DEF Disturbed, Common, Bare, AtRandom
  <2>2. (Kept' <=> Kept) /\ (Wiped' <=> Wiped)
    BY <1>0 DEF Kept, Carried, Wiped, InTime
  <2>3. Living' <=> Living
    BY <1>0 DEF Living, Made, Lacks
  <2> QED BY <1>0, <2>1, <2>2, <2>3 DEF IInv, Sound
<1> QED BY <1>1, <1>2, <1>3 DEF IInv

\* The inductive invariant holds for any callers, accounts, refusals and deaths of the
\* process.
THEOREM Invariance == Spec => []IInv
<1>1. ASSUME IInv, Next PROVE IInv'
  <2>1. Typed' /\ Shape' /\ Lined'
    BY <1>1, StepTyped, StepShape, StepLinedUp DEF IInv
  <2>2. Sound'
    BY <1>1, <2>1, StepLiving, StepPhase DEF Sound
  <2> QED BY <2>1, <2>2 DEF IInv
<1>2. IInv /\ [Next]_vars => IInv'
  BY <1>1, Stutters
<1> QED BY <1>2, Begins, PTL DEF Spec

\* The variables keep their types, and the line for the Keychain holds exactly those
\* who have an operation under way, each once.
THEOREM TypeCorrect == Spec => []TypeOK
<1>1. IInv => TypeOK
  BY DEF IInv, Typed, Lined, TypeOK, Keychain, Disk, ProcState, Stored, Opening, Spent
<1> QED BY <1>1, Invariance, PTL

\* Whatever is refused and wherever the process dies, every row and the secret key can
\* be opened with the stored key or the words (decideDek, resolveDekOnce,
\* migrateDekRandomToDeterministic, persistDek).
THEOREM KeysRecoverable == Spec => []Recoverable
<1>1. IInv => Recoverable
  <2> SUFFICES ASSUME IInv, ~Disturbed, "unsealed" \notin odd
               PROVE  /\ disk.rows \subseteq Available
                      /\ wiping = "rest" => keychain.secret \in Available \cup {None}
                      /\ disk.marked => disk.rows \subseteq {keychain.words}
    BY DEF Recoverable
  <2>1. CASE wiping # "rest"
    BY <2>1 DEF IInv, Sound, Wiped
  <2>2. CASE wiping = "rest"
    <3>1. Bare \/ AtRandom \/ Kept
      BY <2>2 DEF IInv, Sound
    <3>2. CASE Bare
      BY <3>2 DEF Bare
    <3>3. CASE AtRandom
      BY <3>3 DEF AtRandom, Available
    <3>4. CASE Kept
      BY <3>4 DEF Kept, Available
    <3> QED BY <3>1, <3>2, <3>3, <3>4
  <2> QED BY <2>1, <2>2
<1> QED BY <1>1, Invariance, PTL

\* The canary is always sealed with a key there is, so that no later start is refused
\* for ever (persistDek's order, and that of the wipe).
THEOREM StartsPossible == Spec => []StartPossible
<1>1. IInv => StartPossible
  <2> SUFFICES ASSUME IInv, ~Disturbed, wiping = "rest"
               PROVE  keychain.canary \in Available \cup {None}
    BY DEF StartPossible
  <2>1. Bare \/ AtRandom \/ Kept
    BY DEF IInv, Sound
  <2> QED BY <2>1, KeyKinds DEF Bare, AtRandom, Kept, Available
<1> QED BY <1>1, Invariance, PTL

\* Once a wipe is over no key of the old account comes back, whoever was resolving it
\* meanwhile (resolveDekOnce's generation and dropOwnWrite, performLocalWalletWipe).
THEOREM WipeIsFinal == Spec => []WipedStaysWiped
<1>1. IInv => WipedStaysWiped
  <2> SUFFICES ASSUME IInv, ~Disturbed, NEW x \in gone
               PROVE  x \notin Available \cup {memory, keychain.canary, keychain.secret}
    BY DEF WipedStaysWiped
  <2>1. Lacks(x)
    BY DEF IInv, Sound, Living
  <2> QED BY <2>1 DEF Lacks, Available
<1> QED BY <1>1, Invariance, PTL
=============================================================================
