------------------------------- MODULE DataKey -------------------------------
(***************************************************************************)
(* The key under which a device keeps its data: localEncryption.ts with    *)
(* the policy of dekPolicy.ts, the migration of that key in local.ts, and  *)
(* what onboarding (seedPhrase.ts, keyManager.ts) and leaving the account  *)
(* (wipeLocalWallet.ts) do to it.                                          *)
(*                                                                         *)
(* A new device makes up a key. Once there are secret words, the next      *)
(* opening of the database moves everything under the key they derive.     *)
(* The key, its canary (a constant sealed with it), the words and the      *)
(* wrapped secret key are records of the Keychain. Its reads and writes    *)
(* stand in one line (secureStoreQueued.ts) and are answered one by one; a *)
(* locked device refuses them. What follows an answer up to the next wait  *)
(* happens with it, and neighbouring records of one step share its turn.   *)
(*                                                                         *)
(* A key stands for what only it opens: the canary and the secret are      *)
(* represented by the key they are sealed with, the words by the key       *)
(* derived from them. Damaged records are not modelled, nor are a restored *)
(* copy of the database and failures to delete files. A call that outlives *)
(* the database it was made for writes no row and does not open it again.  *)
(***************************************************************************)
EXTENDS Integers, Sequences, SequencesExt, FiniteSets

CONSTANTS
    Caller,         \* whoever encrypts something: kvSetSecret, saveMessage...
    Attempts,       \* DEK_RESOLVE_ATTEMPTS
    MaxAccounts,    \* bound: accounts that are made on the device
    MaxChance,      \* bound: random keys
    MaxRefusals,    \* bound: operations the Keychain refuses
    MaxKills,       \* bound: deaths of the process
    MaxForgets      \* bound: times a service is disposed

ASSUME DataKeyAssumption ==
    /\ {"opening", "wallet", "migration", "onboarding", "wipe", "nobody"} \cap Caller = {}
    /\ Attempts \in Nat \ {0}
    /\ {MaxAccounts, MaxChance, MaxRefusals, MaxKills, MaxForgets} \subseteq Nat

VARIABLES
    keychain,       \* the Keychain's records
    line,           \* who waits for the Keychain: chain
    disk,           \* the main database: keys of its rows, its marks in kv
    feed,           \* keys of the rows in the databases of the feed
    memory,         \* dekMemory
    inflight,       \* whose promise dekInflight is
    recall,         \* cachedMnemonic
    proc,           \* calls of getOrCreateDataEncryptionKey
    opening,        \* the opening of the main database, and its migration
    wallet,         \* onboarding, or the repair of the secret key at the start
    wiping,         \* performLocalWalletWipe
    posted,         \* persistEncryptedMnemonic's kvSet that nobody waits for
    spent,          \* what was used up of the bounds
    gone,           \* keys of the accounts that were wiped
    odd             \* what happened that the properties make exceptions for:
                    \* "unsealed": the stored key is used though the canary's
                    \*    answer or write was refused
                    \* "leftover": the wipe was refused a deletion
                    \* "halfway": the process died during the wipe
                    \* "late": somebody resolves the key anew during the wipe

data == <<disk, feed>>
process == <<memory, inflight, recall, proc, opening, wallet, wiping, posted>>
vars == <<keychain, line, data, process, spent, gone, odd>>

\* Whoever resolves the key; the opening does for its first encryption.
Proc == Caller \cup {"opening", "wallet"}
Actor == Proc \cup {"migration", "onboarding", "wipe"}

None == <<"none", 0>>
Refused == <<"refused", 0>>
Unasked == <<"unasked", 0>>
Derived(a) == <<"derived", a>>
Chance(i) == <<"chance", i>>
Key == {Derived(a) : a \in 1..MaxAccounts} \cup {Chance(i) : i \in 1..MaxChance}

Idle == [pc |-> "idle", attempt |-> 0, stale |-> FALSE, cut |-> FALSE,
         stored |-> None, canary |-> None, key |-> None, with |-> "nobody",
         wrote |-> {}]
Shut == [pc |-> "closed", from |-> None, to |-> None, moved |-> FALSE]
NewDisk == [rows |-> {}, marked |-> FALSE, seen |-> "unknown", encrypted |-> FALSE]

Init ==
    /\ keychain = [key |-> None, canary |-> None, sealer |-> "nobody",
                   secret |-> None, words |-> None]
    /\ line = <<>>
    /\ disk = NewDisk /\ feed = {}
    /\ memory = None /\ inflight = "nobody" /\ recall = Unasked
    /\ proc = [p \in Proc |-> Idle]
    /\ opening = Shut /\ wallet = "rest" /\ wiping = "rest" /\ posted = FALSE
    /\ spent = [accounts |-> 0, chance |-> 0, refusals |-> 0, kills |-> 0, forgets |-> 0]
    /\ gone = {} /\ odd = {}

-----------------------------------------------------------------------------
(* The line for the Keychain: secureStoreQueued.ts.                        *)

\* The words are asked for unless the stored key is going to be used anyway.
Irrelevant(stored, canary) ==
    stored \notin {None, Refused} /\ canary \in {None, Refused, stored}

\* Who has an operation of the Keychain under way.
Asking(a) ==
    CASE a \in Proc -> proc[a].pc \in {"key", "canary", "words", "write", "seal", "look", "drop"}
      [] a = "migration" -> opening.pc \in {"words", "key", "seal", "rewrap",
                                            "keepseal", "keepkey", "wrapback"}
      [] a = "onboarding" -> \/ wallet = "words"
                             \/ wallet \in {"secret", "repair"} /\ proc["wallet"].pc = "have"
      [] OTHER -> wiping \in {"words", "secret", "canary", "key", "again"}

\* Who has just made an operation goes to the end.
LinesUp(rest) ==
    LET new == {a \in Actor : Asking(a)'} \ ToSet(rest)
    IN  line' = IF new = {} THEN rest ELSE Append(rest, CHOOSE a \in new : TRUE)

\* One answer of the Keychain.
Answers(refused) ==
    /\ refused => spent.refusals < MaxRefusals
    /\ spent' = IF refused THEN [spent EXCEPT !.refusals = @ + 1] ELSE spent

-----------------------------------------------------------------------------
(* Resolving the key: getOrCreateDataEncryptionKey.                        *)

Become(p, me) == proc' = [proc EXCEPT ![p] = me]

Resolving == {"key", "canary", "words", "write", "seal", "look", "drop"}

\* setDekMemory and clearDekMemory: whoever resolves has an old generation.
Outdated == [p \in Proc |-> IF proc[p].pc \in Resolving
                            THEN [proc[p] EXCEPT !.stale = TRUE] ELSE proc[p]]
SetMemory(k) == memory' = k /\ inflight' = "nobody"

\* getOrCreateDataEncryptionKey: from memory, or along with who asked before.
Calls(p) ==
    /\ Become(p, CASE memory # None -> [Idle EXCEPT !.pc = "have", !.key = memory]
                   [] memory = None /\ inflight # "nobody" ->
                         [Idle EXCEPT !.pc = "joined", !.with = inflight]
                   [] OTHER -> [Idle EXCEPT !.pc = "key", !.attempt = 1])
    /\ inflight' = IF memory = None /\ inflight = "nobody" THEN p ELSE inflight

\* A row is to be encrypted, by somebody who has the database open.
Begin(c) ==
    /\ proc[c].pc = "idle"
    /\ opening.pc = "open" /\ wiping = "rest"
    /\ Calls(c)
    /\ UNCHANGED <<keychain, data, memory, recall, opening, wallet, wiping,
                   posted, spent, odd, gone>>

\* The promise is settled for all who wait for it, and no longer shared.
Settles(p, k) ==
    LET waits(q) == q = p \/ (proc[q].pc = "joined" /\ proc[q].with = p)
        after(q) == IF proc[q].cut THEN Idle
                    ELSE IF k # None THEN [Idle EXCEPT !.pc = "have", !.key = k]
                    ELSE IF q \in Caller THEN Idle ELSE [Idle EXCEPT !.pc = "failed"]
    IN  /\ proc' = [q \in Proc |-> IF waits(q) THEN after(q) ELSE proc[q]]
        /\ inflight' = IF inflight = p THEN "nobody" ELSE inflight

GoesWithout(p) == Settles(p, None) /\ UNCHANGED <<memory, odd>>
Gets(p, k) == Settles(p, k) /\ memory' = k /\ UNCHANGED odd
Goes(p, me) == Become(p, me) /\ UNCHANGED <<memory, inflight, odd>>

\* dek_resolve_restarted: the key of the one who came between, or once more.
Restarts(p) ==
    /\ IF proc[p].attempt = Attempts THEN Settles(p, None)
       ELSE IF memory # None THEN Settles(p, memory)
       ELSE /\ Become(p, [Idle EXCEPT !.pc = "key", !.attempt = proc[p].attempt + 1,
                                      !.cut = proc[p].cut])
            /\ UNCHANGED inflight
    /\ odd' = IF wiping # "rest" THEN odd \cup {"late"} ELSE odd
    /\ UNCHANGED memory

\* decideDek: a new key only where there is nothing to lose. Empty: refuse.
Chosen(stored, canary, words) ==
    IF canary \in Key THEN {stored, words} \cap {canary}
    ELSE IF stored \in Key THEN {stored}
    ELSE IF stored = None /\ canary = None
         THEN {IF words = None THEN Chance(spent.chance + 1) ELSE words} \cap Key
    ELSE {}

\* The rest of resolveDekOnce's reading, with what the words are (if asked).
Decides(p, me, words) ==
    LET found == Chosen(me.stored, me.canary, words)
        k == CHOOSE f \in found : TRUE
    IN  CASE found = {} -> GoesWithout(p)
          [] found # {} /\ me.stale -> Restarts(p)
          [] found # {} /\ ~me.stale /\ k # me.stored ->
                Goes(p, [me EXCEPT !.pc = "write", !.key = k])
          [] found # {} /\ ~me.stale /\ k = me.stored /\ me.canary = None ->
                Goes(p, [me EXCEPT !.pc = "seal", !.key = k])
          [] OTHER -> /\ Settles(p, k)
                      /\ memory' = k
                      /\ odd' = IF me.canary = Refused THEN odd \cup {"unsealed"} ELSE odd

\* observeStoredDek.
ReadKey(p, refused) ==
    /\ proc[p].pc = "key"
    /\ Answers(refused)
    /\ Goes(p, [proc[p] EXCEPT !.pc = "canary",
                               !.stored = IF refused THEN Refused ELSE keychain.key])
    /\ UNCHANGED <<keychain, data, recall, opening, wallet, wiping, posted, gone>>

\* readCanary.
ReadCanary(p, refused) ==
    LET me == [proc[p] EXCEPT !.canary = IF refused THEN Refused ELSE keychain.canary]
    IN  /\ me.pc = "canary"
        /\ Answers(refused)
        /\ IF Irrelevant(me.stored, me.canary) THEN Decides(p, me, None)
           ELSE Goes(p, [me EXCEPT !.pc = "words"])
        /\ UNCHANGED <<keychain, data, recall, opening, wallet, wiping, posted, gone>>

\* getStoredMnemonic. A refusal of the phrase is thrown; one of the key that
\* wraps it looks like no phrase, and is remembered as that.
Words(refused) ==
    IF recall # Unasked THEN {recall}
    ELSE IF ~refused THEN {keychain.words}
    ELSE {Refused} \cup (IF keychain.words = None THEN {} ELSE {None})
Remembered(words) == IF words = Refused THEN recall ELSE words

\* probeSeedDek; where the words are remembered nothing is read.
ReadWords(p, refused) ==
    LET me == proc[p]
    IN  /\ me.pc = "words"
        /\ refused => recall = Unasked
        /\ \E words \in Words(refused) :
              LET random == Chosen(me.stored, me.canary, words) \cap {Chance(spent.chance + 1)} # {}
              IN  /\ recall' = Remembered(words)
                  /\ refused => spent.refusals < MaxRefusals
                  /\ spent' = [spent EXCEPT !.refusals = IF refused THEN @ + 1 ELSE @,
                                            !.chance = IF random THEN @ + 1 ELSE @]
                  /\ Decides(p, me, words)
        /\ UNCHANGED <<keychain, data, opening, wallet, wiping, posted, gone>>

\* Broken on purpose: an old generation keeps what it wrote.
ConcludedAnyway(p, me) == Gets(p, me.key)

\* What follows a write: an old generation takes its writes back.
Concluded(p, me) ==
    CASE ~me.stale -> Gets(p, me.key)
      [] me.stale /\ me.wrote # {} -> Goes(p, [me EXCEPT !.pc = "look"])
      [] OTHER -> Restarts(p)

WriteKey(p, refused) ==
    LET me == [proc[p] EXCEPT !.wrote = {"key"}]
    IN  /\ proc[p].pc = "write"
        /\ Answers(refused)
        /\ IF refused THEN GoesWithout(p) /\ UNCHANGED keychain
           ELSE /\ keychain' = [keychain EXCEPT !.key = me.key]
                /\ IF me.canary = None /\ ~me.stale
                   THEN Goes(p, [me EXCEPT !.pc = "seal"])
                   ELSE Concluded(p, me)
        /\ UNCHANGED <<data, recall, opening, wallet, wiping, posted, gone>>

\* writeCanary, whose refusal does not matter here.
Seal(p, refused) ==
    LET me == [proc[p] EXCEPT !.wrote = IF refused THEN @ ELSE @ \cup {"canary"}]
    IN  /\ proc[p].pc = "seal"
        /\ Answers(refused)
        /\ keychain' = IF refused THEN keychain
                       ELSE [keychain EXCEPT !.canary = me.key, !.sealer = p]
        /\ Concluded(p, me)
        /\ UNCHANGED <<data, recall, opening, wallet, wiping, posted, gone>>

\* dropOwnWrite, of the canary and then of the key: a key is one's own if it
\* is the same, a canary (sealed anew each time) if nobody wrote it since.
Item(me) == IF "canary" \in me.wrote THEN "canary" ELSE "key"
Own(p) == IF Item(proc[p]) = "key" THEN keychain.key = proc[p].key
          ELSE keychain.sealer = p
Looked(p) == LET me == [proc[p] EXCEPT !.wrote = @ \ {Item(proc[p])}]
             IN  IF me.wrote = {} THEN Restarts(p) ELSE Goes(p, [me EXCEPT !.pc = "look"])

Look(p, refused) ==
    /\ proc[p].pc = "look"
    /\ Answers(refused)
    /\ IF ~refused /\ Own(p) THEN Goes(p, [proc[p] EXCEPT !.pc = "drop"]) ELSE Looked(p)
    /\ UNCHANGED <<keychain, data, recall, opening, wallet, wiping, posted, gone>>

Without(records, item) ==
    IF item = "canary" THEN [records EXCEPT !.canary = None, !.sealer = "nobody"]
    ELSE [records EXCEPT ![item] = None]

Drop(p, refused) ==
    /\ proc[p].pc = "drop"
    /\ Answers(refused)
    /\ keychain' = IF refused THEN keychain ELSE Without(keychain, Item(proc[p]))
    /\ Looked(p)
    /\ UNCHANGED <<data, recall, opening, wallet, wiping, posted, gone>>

\* The caller's row is written, into the main database or the feed's.
WriteRow(c) ==
    /\ proc[c].pc = "have"
    /\ opening.pc = "open" /\ wiping = "rest"
    /\ \/ disk' = [disk EXCEPT !.rows = @ \cup {proc[c].key}] /\ UNCHANGED feed
       \/ /\ keychain.secret # None
          /\ feed' = feed \cup {proc[c].key} /\ UNCHANGED disk
    /\ Become(c, Idle)
    /\ UNCHANGED <<keychain, memory, inflight, recall, opening, wallet, wiping,
                   posted, spent, odd, gone>>

\* dispose of a service: at a switch of the profile, or to listen anew.
Forget ==
    /\ keychain.secret # None /\ opening.pc = "open" /\ wallet = "rest" /\ wiping = "rest"
    /\ spent.forgets < MaxForgets
    /\ spent' = [spent EXCEPT !.forgets = @ + 1]
    /\ SetMemory(None)
    /\ proc' = Outdated
    /\ UNCHANGED <<keychain, data, recall, opening, wallet, wiping, posted, odd, gone>>

-----------------------------------------------------------------------------
(* Opening the database: migrateDekRandomToDeterministic, and the passes   *)
(* that encrypt what is not encrypted yet.                                 *)

\* The connection is closed: who was about to write a row fails.
Cut(procs) == [p \in Proc |-> IF procs[p].pc \in Resolving
                               THEN [procs[p] EXCEPT !.cut = TRUE] ELSE Idle]

Opens(pc) == opening' = [opening EXCEPT !.pc = pc]

\* Somebody needs the database: the start of the app, or a call under way.
Open ==
    /\ opening.pc = "closed"
    /\ wiping \in {"rest", "unseen"}
    /\ wallet = "rest"
    /\ opening' = [Shut EXCEPT !.pc = IF disk.marked \/ disk.seen = "no"
                                      THEN "encrypt" ELSE "words"]
    /\ UNCHANGED <<keychain, data, memory, inflight, recall, proc, wallet,
                   wiping, posted, spent, odd, gone>>

\* The records of the words are looked for themselves; getStoredMnemonic is only asked
\* where there is one.
Found(refused) ==
    CASE refused /\ recall # Unasked -> {Refused}
      [] ~refused /\ keychain.words = None -> {None}
      [] OTHER -> Words(refused)

\* Broken on purpose: where there is no wallet yet, the migration is done.
OpenWordsMarks(refused) ==
    /\ opening.pc = "words"
    /\ Answers(refused)
    /\ \E words \in Found(refused) :
          /\ recall' = IF keychain.words = None THEN recall ELSE Remembered(words)
          /\ opening' = CASE words = Refused -> [opening EXCEPT !.pc = "failing"]
                          [] words = None -> [opening EXCEPT !.pc = "mark"]
                          [] OTHER -> [opening EXCEPT !.pc = "key", !.to = words]
    /\ UNCHANGED <<keychain, data, memory, inflight, proc, wallet, wiping, posted, odd, gone>>

OpenWords(refused) ==
    /\ opening.pc = "words"
    /\ Answers(refused)
    /\ \E words \in Found(refused) :
          /\ recall' = IF keychain.words = None THEN recall ELSE Remembered(words)
          /\ opening' = CASE words = Refused -> [opening EXCEPT !.pc = "failing"]
                          [] words = None -> [opening EXCEPT !.pc = "encrypt"]
                          [] OTHER -> [opening EXCEPT !.pc = "key", !.to = words]
    /\ UNCHANGED <<keychain, data, memory, inflight, proc, wallet, wiping, posted, odd, gone>>

OpenKey(refused) ==
    /\ opening.pc = "key"
    /\ Answers(refused)
    /\ opening' = IF refused THEN [opening EXCEPT !.pc = "failing"]
                  ELSE [opening EXCEPT !.from = keychain.key,
                           !.pc = IF keychain.key = opening.to THEN "keepseal" ELSE "seal"]
    /\ UNCHANGED <<keychain, data, memory, inflight, recall, proc, wallet,
                   wiping, posted, odd, gone>>

\* canaryOpensWith: the rows are to be under the key that is thought of.
OpenSeal(refused) ==
    LET under == keychain.canary
    IN  /\ opening.pc = "seal"
        /\ Answers(refused)
        /\ Opens(IF refused THEN "failing"
                 ELSE IF under = opening.to \/ (under = None /\ opening.from = None)
                      THEN "keepseal"
                 ELSE IF under \in {None, opening.from} THEN "rewrap"
                 ELSE "failing")
        /\ UNCHANGED <<keychain, data, memory, inflight, recall, proc, wallet,
                       wiping, posted, odd, gone>>

\* rewrapSecretKeyWithDek.
Rewrap(refused) ==
    LET fits == keychain.secret \in {None, opening.from, opening.to}
    IN  /\ opening.pc = "rewrap"
        /\ Answers(refused)
        /\ keychain' = IF keychain.secret = opening.from /\ ~refused
                       THEN [keychain EXCEPT !.secret = opening.to] ELSE keychain
        /\ Opens(IF fits /\ ~refused THEN "move" ELSE "failing")
        /\ UNCHANGED <<data, memory, inflight, recall, proc, wallet, wiping, posted, odd, gone>>

\* reencryptAtRest, in a transaction; a row that does not open is left alone.
Moved(rows, from, to) == {IF k = from THEN to ELSE k : k \in rows}
Move(ok) ==
    /\ opening.pc = "move"
    /\ disk' = IF ok THEN [disk EXCEPT !.rows = Moved(@, opening.from, opening.to)] ELSE disk
    /\ opening' = IF ok THEN [opening EXCEPT !.pc = "keepseal", !.moved = TRUE]
                  ELSE [opening EXCEPT !.pc = "failing"]
    /\ UNCHANGED <<keychain, feed, memory, inflight, recall, proc, wallet, wiping,
                   posted, spent, odd, gone>>

\* Broken on purpose: the key is written although the canary was not.
KeepSealAnyway(refused) ==
    /\ opening.pc = "keepseal"
    /\ Answers(refused)
    /\ keychain' = IF refused THEN keychain
                   ELSE [keychain EXCEPT !.canary = opening.to, !.sealer = "nobody"]
    /\ Opens("keepkey")
    /\ UNCHANGED <<data, memory, inflight, recall, proc, wallet, wiping, posted, odd, gone>>

\* persistDek: the canary, then the key, then the memory. Without the canary
\* nothing is kept, and rows that were moved go back.
KeepSeal(refused) ==
    /\ opening.pc = "keepseal"
    /\ Answers(refused)
    /\ keychain' = IF refused THEN keychain
                   ELSE [keychain EXCEPT !.canary = opening.to, !.sealer = "nobody"]
    /\ Opens(IF ~refused THEN "keepkey" ELSE IF opening.moved THEN "unmove" ELSE "encrypt")
    /\ odd' = IF refused /\ ~opening.moved /\ memory # None THEN odd \cup {"unsealed"} ELSE odd
    /\ UNCHANGED <<data, memory, inflight, recall, proc, wallet, wiping, posted, gone>>

KeepKey(refused) ==
    /\ opening.pc = "keepkey"
    /\ Answers(refused)
    /\ IF refused
       THEN Opens("failing") /\ UNCHANGED <<keychain, memory, inflight, proc>>
       ELSE /\ keychain' = [keychain EXCEPT !.key = opening.to]
            /\ SetMemory(opening.to)
            /\ proc' = Outdated
            /\ Opens("mark")
    /\ UNCHANGED <<data, recall, wallet, wiping, posted, odd, gone>>

Mark ==
    /\ opening.pc = "mark"
    /\ disk' = [disk EXCEPT !.marked = TRUE]
    /\ Opens("encrypt")
    /\ UNCHANGED <<keychain, feed, memory, inflight, recall, proc, wallet, wiping,
                   posted, spent, odd, gone>>

\* rollbackDekMigration.
Unmove(ok) ==
    /\ opening.pc = "unmove"
    /\ disk' = IF ok THEN [disk EXCEPT !.rows = Moved(@, opening.to, opening.from)] ELSE disk
    /\ Opens(IF ok THEN "wrapback" ELSE "failing")
    /\ UNCHANGED <<keychain, feed, memory, inflight, recall, proc, wallet, wiping,
                   posted, spent, odd, gone>>

WrapBack(refused) ==
    /\ opening.pc = "wrapback"
    /\ Answers(refused)
    /\ keychain' = IF keychain.secret = opening.to /\ ~refused
                   THEN [keychain EXCEPT !.secret = opening.from] ELSE keychain
    /\ SetMemory(opening.from)
    /\ proc' = Outdated
    /\ Opens("failing")
    /\ UNCHANGED <<data, recall, wallet, wiping, posted, odd, gone>>

Opened ==
    /\ opening' = [Shut EXCEPT !.pc = "open"]
    /\ Become("opening", Idle)

Encrypt ==
    /\ opening.pc = "encrypt"
    /\ \/ /\ disk.encrypted
          /\ Opened /\ UNCHANGED <<disk, inflight>>
       \/ /\ ~disk.encrypted /\ proc["opening"].pc = "idle"
          /\ Calls("opening")
          /\ UNCHANGED <<opening, disk>>
       \/ /\ ~disk.encrypted /\ proc["opening"].pc = "have"
          /\ disk' = [disk EXCEPT !.encrypted = TRUE]
          /\ Opened /\ UNCHANGED inflight
       \/ /\ proc["opening"].pc = "failed"
          /\ Become("opening", Idle)
          /\ Opens("failing")
          /\ UNCHANGED <<disk, inflight>>
    /\ UNCHANGED <<keychain, feed, memory, recall, wallet, wiping,
                   posted, spent, odd, gone>>

\* The opening is rejected; the next use of the database tries again.
OpenFails ==
    /\ opening.pc = "failing"
    /\ opening' = Shut
    /\ UNCHANGED <<keychain, data, memory, inflight, recall, proc, wallet,
                   wiping, posted, spent, odd, gone>>

-----------------------------------------------------------------------------
(* Making an account, and leaving it.                                      *)

\* generateMnemonicAndStore, restoreFromMnemonic: no wallet is on the device.
Onboard ==
    /\ opening.pc = "open" /\ wallet = "rest" /\ wiping = "rest"
    /\ keychain.words = None /\ keychain.secret = None
    /\ spent.accounts < MaxAccounts
    /\ wallet' = "words"
    /\ recall' = Unasked
    /\ UNCHANGED <<keychain, data, memory, inflight, proc, opening, wiping,
                   posted, spent, odd, gone>>

\* persistEncryptedMnemonic.
SaveWords(refused) ==
    /\ wallet = "words"
    /\ IF refused
       THEN /\ Answers(TRUE)
            /\ wallet' = "rest"
            /\ UNCHANGED <<keychain, recall, posted, proc, inflight>>
       ELSE LET mine == Derived(spent.accounts + 1)
            IN  /\ keychain' = [keychain EXCEPT !.words = mine]
                /\ recall' = mine
                /\ posted' = TRUE
                /\ spent' = [spent EXCEPT !.accounts = @ + 1]
                /\ wallet' = "secret"
                /\ Calls("wallet")
    /\ UNCHANGED <<data, memory, opening, wiping, odd, gone>>

\* The start of the app finds words and no secret key it can read.
Recover ==
    /\ opening.pc = "open" /\ wallet = "rest" /\ wiping = "rest"
    /\ keychain.words # None /\ keychain.secret # keychain.key
    /\ disk.seen # "no"
    /\ wallet' = "repair"
    /\ Calls("wallet")
    /\ UNCHANGED <<keychain, data, memory, recall, opening, wiping,
                   posted, spent, odd, gone>>

\* persistKeyPair; who restores an account closes the database next.
SaveSecret(refused) ==
    /\ wallet \in {"secret", "repair"} /\ proc["wallet"].pc = "have"
    /\ Answers(refused)
    /\ keychain' = IF refused THEN keychain
                   ELSE [keychain EXCEPT !.secret = proc["wallet"].key]
    /\ wallet' \in IF refused \/ wallet = "repair" THEN {"rest"} ELSE {"rest", "close"}
    /\ Become("wallet", Idle)
    /\ UNCHANGED <<data, memory, inflight, recall, opening, wiping, posted, odd, gone>>

NoSecret ==
    /\ wallet \in {"secret", "repair"} /\ proc["wallet"].pc = "failed"
    /\ wallet' = "rest"
    /\ Become("wallet", Idle)
    /\ UNCHANGED <<keychain, data, memory, inflight, recall, opening, wiping,
                   posted, spent, odd, gone>>

CloseForRestore ==
    /\ wallet = "close"
    /\ opening' = Shut
    /\ proc' = Cut(proc)
    /\ wallet' = "rest"
    /\ UNCHANGED <<keychain, data, memory, inflight, recall, wiping,
                   posted, spent, odd, gone>>

\* The kvSet of persistEncryptedMnemonic; hasStoredMnemonic fills in the mark.
SeenLands ==
    /\ opening.pc = "open"
    /\ \/ posted /\ posted' = FALSE /\ disk' = [disk EXCEPT !.seen = "yes"]
       \/ /\ disk.seen = "unknown" /\ wiping = "rest" /\ UNCHANGED posted
          /\ disk' = [disk EXCEPT !.seen = IF keychain.words = None THEN "no" ELSE "yes"]
    /\ UNCHANGED <<keychain, feed, memory, inflight, recall, proc, opening,
                   wallet, wiping, spent, odd, gone>>

\* performLocalWalletWipe: services are disposed of, the database is closed;
\* from here on nobody is owed the rows.
Wipe ==
    /\ opening.pc = "open" /\ wallet = "rest" /\ wiping = "rest"
    /\ keychain.secret # None /\ spent.accounts < MaxAccounts
    /\ SetMemory(None)
    /\ proc' = Cut(Outdated)
    /\ opening' = Shut
    /\ disk' = [disk EXCEPT !.rows = {}]
    /\ feed' = {}
    /\ wiping' = "memory"
    /\ UNCHANGED <<keychain, recall, wallet, posted, spent, odd, gone>>

\* clearDekMemory; and, before the deletion of the words is asked for, what was read of
\* them is of an old generation.
WipeMemory ==
    /\ wiping = "memory"
    /\ SetMemory(None)
    /\ proc' = Outdated
    /\ recall' = Unasked
    /\ wiping' = "words"
    /\ UNCHANGED <<keychain, data, opening, wallet, posted, spent, odd, gone>>

\* wipeMnemonicAndSessionFlags: what is read while the deletion is under way is
\* remembered until its end.  Its kvSet opens the database again.
WipeWords(refused) ==
    /\ wiping = "words"
    /\ Answers(refused)
    /\ keychain' = IF refused THEN keychain ELSE [keychain EXCEPT !.words = None]
    /\ wiping' = "unseen"
    /\ odd' = IF refused THEN odd \cup {"leftover"} ELSE odd
    /\ UNCHANGED <<data, memory, inflight, recall, proc, opening, wallet, posted, gone>>

WipeUnseen ==
    /\ wiping = "unseen"
    /\ \/ opening.pc = "open" /\ disk' = [disk EXCEPT !.seen = "no"]
       \/ opening.pc = "closed" /\ UNCHANGED disk
    /\ recall' = Unasked
    /\ wiping' = "secret"
    /\ UNCHANGED <<keychain, feed, memory, inflight, proc, opening, wallet,
                   posted, spent, odd, gone>>

Following(item) == CASE item = "secret" -> "canary" [] item = "canary" -> "key" [] OTHER -> "files"

WipeRecord(refused) ==
    /\ wiping \in {"secret", "canary", "key"}
    /\ Answers(refused)
    /\ keychain' = IF refused THEN keychain ELSE Without(keychain, wiping)
    /\ wiping' = Following(wiping)
    /\ odd' = IF refused THEN odd \cup {"leftover"} ELSE odd
    /\ UNCHANGED <<data, memory, inflight, recall, proc, opening, wallet, posted, gone>>

WipeFiles ==
    /\ wiping = "files"
    /\ opening.pc \in {"open", "closed"}
    /\ opening' = Shut
    /\ disk' = NewDisk /\ feed' = {}
    /\ posted' = FALSE
    /\ wiping' = "again"
    /\ UNCHANGED <<keychain, memory, inflight, recall, proc, wallet, spent, odd, gone>>

\* survivingSecrets are deleted once more; then the app starts over.
WipeAgain(refused) ==
    LET left == {i \in {"words", "secret", "canary", "key"} : keychain[i] # None}
        empty == Without(Without(Without(Without(keychain, "words"), "secret"), "canary"), "key")
    IN  /\ wiping = "again"
        /\ refused => left # {}
        /\ Answers(refused)
        /\ keychain' = IF refused THEN keychain ELSE empty
        /\ wiping' = "rest"
        /\ gone' = {Derived(a) : a \in 1..spent.accounts} \cup {Chance(i) : i \in 1..spent.chance}
        /\ odd' = IF refused THEN odd \cup {"leftover"} ELSE odd
        /\ UNCHANGED <<data, memory, inflight, recall, proc, opening, wallet, posted>>

-----------------------------------------------------------------------------
\* The process dies: what is in the Keychain and on disk stays.
Kill ==
    /\ spent.kills < MaxKills
    /\ spent' = [spent EXCEPT !.kills = @ + 1]
    /\ memory' = None /\ inflight' = "nobody" /\ recall' = Unasked
    /\ proc' = [p \in Proc |-> Idle]
    /\ opening' = Shut /\ wallet' = "rest" /\ wiping' = "rest" /\ posted' = FALSE
    /\ line' = <<>>
    /\ keychain' = [keychain EXCEPT !.sealer = "nobody"]
    /\ odd' = IF wiping # "rest" THEN odd \cup {"halfway"} ELSE odd
    /\ UNCHANGED <<data, gone>>

Resolve(p, refused) ==
    \/ ReadKey(p, refused) \/ ReadCanary(p, refused) \/ ReadWords(p, refused)
    \/ WriteKey(p, refused) \/ Seal(p, refused) \/ Look(p, refused) \/ Drop(p, refused)

Migrate(refused) ==
    \/ OpenWords(refused) \/ OpenKey(refused) \/ OpenSeal(refused) \/ Rewrap(refused)
    \/ KeepSeal(refused) \/ KeepKey(refused) \/ WrapBack(refused)

\* The Keychain answers who stands first.
Answered(refused) ==
    /\ line # <<>>
    /\ LET first == Head(line)
       IN  \/ first \in Proc /\ Resolve(first, refused)
           \/ first = "migration" /\ Migrate(refused)
           \/ first = "onboarding" /\ (SaveWords(refused) \/ SaveSecret(refused))
           \/ first = "wipe" /\ (WipeWords(refused) \/ WipeRecord(refused) \/ WipeAgain(refused))
    /\ LinesUp(Tail(line))

Elsewhere ==
    /\ \/ \E c \in Caller : Begin(c) \/ WriteRow(c)
       \/ \E ok \in BOOLEAN : Move(ok) \/ Unmove(ok)
       \/ Forget \/ Open \/ Mark \/ Encrypt \/ OpenFails
       \/ Onboard \/ Recover \/ NoSecret \/ CloseForRestore \/ SeenLands
       \/ Wipe \/ WipeMemory \/ WipeUnseen \/ WipeFiles
    /\ LinesUp(line)

Next == (\E refused \in BOOLEAN : Answered(refused)) \/ Elsewhere \/ Kill

Spec == Init /\ [][Next]_vars

-----------------------------------------------------------------------------
(* Properties. The code does not keep them after what `odd` has recorded;  *)
(* each case is a run of the code, described with the others.              *)

TypeOK ==
    /\ keychain \in [key : Key \cup {None}, canary : Key \cup {None},
                     sealer : Proc \cup {"nobody"}, secret : Key \cup {None},
                     words : {Derived(a) : a \in 1..MaxAccounts} \cup {None}]
    /\ line \in Seq(Actor) /\ IsInjective(line)
    /\ ToSet(line) = {w \in Actor : Asking(w)}
    /\ disk \in [rows : SUBSET Key, marked : BOOLEAN,
                 seen : {"unknown", "yes", "no"}, encrypted : BOOLEAN]
    /\ feed \subseteq Key
    /\ memory \in Key \cup {None}
    /\ inflight \in Proc \cup {"nobody"}
    /\ recall \in Key \cup {None, Unasked}
    /\ proc \in [Proc -> [pc : {"idle", "joined", "key", "canary", "words", "write",
                                "seal", "look", "drop", "have", "failed"},
                          attempt : 0..Attempts, stale : BOOLEAN, cut : BOOLEAN,
                          stored : Key \cup {None, Refused},
                          canary : Key \cup {None, Refused},
                          key : Key \cup {None}, with : Proc \cup {"nobody"},
                          wrote : SUBSET {"canary", "key"}]]
    /\ opening \in [pc : {"closed", "words", "key", "seal", "rewrap", "move",
                          "keepseal", "keepkey", "mark", "unmove", "wrapback",
                          "encrypt", "failing", "open"},
                    from : Key \cup {None}, to : Key \cup {None}, moved : BOOLEAN]
    /\ wallet \in {"rest", "words", "secret", "repair", "close"}
    /\ wiping \in {"rest", "memory", "words", "unseen", "secret", "canary",
                   "key", "files", "again"}
    /\ posted \in BOOLEAN
    /\ spent \in [accounts : 0..MaxAccounts, chance : 0..MaxChance,
                  refusals : 0..MaxRefusals, kills : 0..MaxKills, forgets : 0..MaxForgets]
    /\ gone \subseteq Key
    /\ odd \subseteq {"unsealed", "late", "leftover", "halfway"}

\* Keys there are after the next start.
Available == {keychain.key, keychain.words} \ {None}

\* A wipe that was cut short, by a refusal or the end of the process, or
\* during which somebody began again to resolve the key.
Disturbed == odd \cap {"late", "leftover", "halfway"} # {}

\* Whatever is refused, and wherever the process dies, every row and the
\* secret key can be opened with the stored key or with the words, and with
\* the words alone once the migration is marked as done: deciding, resolving
\* and moving keys never lets a key go that something is kept under.
Recoverable ==
    ~Disturbed /\ "unsealed" \notin odd =>
        /\ disk.rows \subseteq Available
        /\ wiping = "rest" => keychain.secret \in Available \cup {None}
        /\ disk.marked => disk.rows \subseteq {keychain.words}

\* No start is refused for ever: the canary was sealed with a key there is, or
\* there is none (persistDek's order, and the order of the wipe).
StartPossible ==
    ~Disturbed /\ wiping = "rest" => keychain.canary \in Available \cup {None}

\* Once a wipe is over, no key of the old account is in the Keychain or in
\* memory, whoever was resolving it meanwhile (resolveDekOnce's generation and
\* dropOwnWrite; performLocalWalletWipe).
WipedStaysWiped ==
    ~Disturbed /\ wiping = "rest" =>
        gone \cap (Available \cup {memory, keychain.canary, keychain.secret}) = {}

\* The rows of the feed can be opened after the next start: a comment in
\* feedAtRest.ts says that the one change of the key finds none of them.
FeedFollowsKey == feed \subseteq Available
=============================================================================
