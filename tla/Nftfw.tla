------------------------------- MODULE Nftfw -------------------------------
(***************************************************************************)
(* The agent's firewall over nftables (package agent/nftfw): calls that    *)
(* share one mutex, the kernel's table, and the boot file the table is     *)
(* written to after every change and loaded from at boot. The kernel, the  *)
(* file system and the host's administrator are the environment: netlink   *)
(* calls and file writes may fail, the table may be flushed, the agent may *)
(* die and the host may lose power between any two steps.                  *)
(*                                                                         *)
(* Port and interface are one match class; the source address stands for   *)
(* every condition a rule can have besides its protocol.                   *)
(***************************************************************************)
EXTENDS Naturals, Sequences

CONSTANTS
  Client,     \* requests that may run at once
  From,       \* sources as an operator writes them
  Canon,      \* Canon[f]: the form of f the kernel gives back
  Anywhere,   \* the source of a rule that names none
  Offered,    \* rules an operator may ask for
  AllowToggle,\* allow_toggle of the agent's configuration
  MaxRules,   \* bound on the kernel rules of a table
  MaxNumber,  \* bound on the rule numbers asked for
  MaxCalls    \* bound on the calls of a behaviour

Proto == {"tcp", "udp"}
Rule == [proto : Proto \union {"both"}, from : From, action : {"allow", "deny"}]
Free == "free"

ASSUME ConstantsAssumption ==
  /\ Free \notin Client
  /\ Anywhere \in From
  /\ Canon \in [From -> From]
  /\ \A f \in From : Canon[Canon[f]] = Canon[f]
  /\ Canon[Anywhere] = Anywhere
  /\ Offered \subseteq Rule
  /\ AllowToggle \in BOOLEAN
  /\ MaxRules \in Nat
  /\ MaxNumber \in Nat
  /\ MaxCalls \in Nat

VARIABLES
  table,   \* the gopit table of the kernel: NoTable or a State
  byNft,   \* the table was loaded from the boot file, not applied by the agent
  shadowed,\* a chain of another table would shadow the rules
  conf,    \* what the boot file holds
  disk,    \* what the boot file may hold after a power loss
  tmp,     \* the temporary file, with whether its data are on the disk
  mu,      \* holder of API.mu
  call,    \* the requests
  calls,   \* how many have been started
  saved    \* how far the last change of the table has reached the boot file

fileVars == <<conf, disk, tmp>>
vars == <<table, byNft, shadowed, fileVars, mu, call, calls, saved>>

-----------------------------------------------------------------------------
(* Rules: logical, in the kernel and in the file                            *)

\* A State is the enabled flag with a list of rules for one protocol each.
KernelRules == Seq([proto : Proto, from : From, action : {"allow", "deny"}])
State == [on : BOOLEAN, rules : KernelRules]
NoTable == [none |-> "table"]
Missing == [none |-> "file"]    \* no boot file
Foreign == [none |-> "gopit"]   \* a boot file without the marker
Torn == [none |-> "complete"]   \* a boot file cut off by a power loss
NoTmp == [none |-> "tmp"]

protosOfNoBoth(p) == <<p>>  \* mutant: "both" is kept as it is
protosOf(p) == IF p = "both" THEN <<"tcp", "udp">> ELSE <<p>>

\* One rule per protocol.
Expand(rs) ==
  LET Of(r) == [i \in DOMAIN protosOf(r.proto) |-> [r EXCEPT !.proto = protosOf(r.proto)[i]]]
      f[n \in 0..Len(rs)] == IF n = 0 THEN <<>> ELSE f[n - 1] \o Of(rs[n])
  IN f[Len(rs)]

\* What the kernel gets: the address, not its spelling.
Canonical(ks) == [i \in DOMAIN ks |-> [ks[i] EXCEPT !.from = Canon[ks[i].from]]]

emitRules(rs) == Canonical(Expand(rs))

renderConfEmptyOff(on, rs) ==  \* mutant: no rules, no policy
  [on |-> on /\ rs # <<>>, rules |-> Expand(rs)]

\* The file keeps the source as it was written.
renderConf(on, rs) == [on |-> on, rules |-> Expand(rs)]

TwinsByProto(a, b) == a.proto # b.proto  \* mutant: sameKey is not asked
Twins(a, b) ==
  /\ a.proto = "tcp" /\ b.proto = "udp"
  /\ a.from = b.from /\ a.action = b.action

\* A tcp rule and the udp twin right behind it read back as one rule for both.
\* A rule whose source is hidden is not decoded, and skipped.
Merge(ks, hidden) ==
  LET f[i \in 1..Len(ks) + 2] ==
        IF i > Len(ks) THEN <<>>
        ELSE IF ks[i].from \in hidden THEN f[i + 1]
        ELSE IF i < Len(ks) /\ ks[i + 1].from \notin hidden /\ Twins(ks[i], ks[i + 1])
             THEN <<[ks[i] EXCEPT !.proto = "both"]>> \o f[i + 2]
             ELSE <<ks[i]>> \o f[i + 1]
  IN f[1]

\* The lines of the file are all read.
mergeClumped(ks) == Merge(ks, {})

\* nft puts a match of the address family before that of an address, since the
\* table is one for both; decodeKernelRule knows no such match.
Undecodable == IF byNft THEN From \ {Anywhere} ELSE {}
kernelRulesToLrules(ks) == Merge(ks, Undecodable)

loadConf(file) ==
  IF file \in {Missing, Foreign} THEN [on |-> FALSE, rules |-> <<>>]
  ELSE [on |-> file.on, rules |-> mergeClumped(file.rules)]

\* The nftables service at boot. It refuses a file that names an address in a
\* spelling the family of the rule does not have, and then loads nothing.
Canonically(file) == \A i \in DOMAIN file.rules : file.rules[i].from = Canon[file.rules[i].from]
Boot(file) ==
  IF file \in {Missing, Foreign, Torn} THEN NoTable
  ELSE IF Canonically(file) THEN [on |-> file.on, rules |-> Canonical(file.rules)]
  ELSE NoTable

RemoveAt(s, n) == [i \in 1..Len(s) - 1 |-> IF i < n THEN s[i] ELSE s[i + 1]]

-----------------------------------------------------------------------------
(* Requests                                                                 *)

\* "list" is a status or a preview, which adds a line to its own listing only.
Op == [kind : {"list"}]
      \union [kind : {"add"}, rule : Offered]
      \union [kind : {"delete"}, n : 1..MaxNumber]
      \union [kind : {"toggle"}, to : BOOLEAN]

\* Call and the handlers of the server refuse everything else.
Accepted(op) == op.kind = "toggle" => AllowToggle
Mutates(op) == op.kind \in {"add", "delete", "toggle"}

NoOp == [kind |-> "none"]
Idle == [at |-> "idle", op |-> NoOp, on |-> FALSE, rules |-> <<>>]
Steps == {"idle", "lock", "ensure", "recover", "read", "apply",
          "persist", "sync", "rename", "syncdir"}

\* The list f of addRule, deleteRule and toggle makes of the one that was read.
Changed(op, on, rs) ==
  CASE op.kind = "add" -> [on |-> on, rules |-> Append(rs, op.rule)]
    [] op.kind = "delete" -> [on |-> on, rules |-> RemoveAt(rs, op.n)]
    [] op.kind = "toggle" -> [on |-> op.to, rules |-> rs]

TypeOK ==
  /\ table \in State \union {NoTable}
  /\ byNft \in BOOLEAN
  /\ shadowed \in BOOLEAN
  /\ conf \in State \union {Missing, Foreign}
  /\ disk \subseteq State \union {Missing, Foreign, Torn}
  /\ tmp \in [file : State, synced : BOOLEAN] \union {NoTmp}
  /\ mu \in Client \union {Free}
  /\ call \in [Client -> [at : Steps, op : Op \union {NoOp}, on : BOOLEAN, rules : Seq(Rule)]]
  /\ calls \in 0..MaxCalls
  /\ saved \in {"no", "renamed", "synced"}

Init ==
  /\ table = NoTable
  /\ byNft = FALSE
  /\ shadowed = FALSE
  /\ conf \in {Missing, Foreign}
  /\ disk = {conf}
  /\ tmp = NoTmp
  /\ mu = Free
  /\ call = [c \in Client |-> Idle]
  /\ calls = 0
  /\ saved = "no"

Size == IF table = NoTable THEN 0 ELSE Len(table.rules)

Go(c, at) == call' = [call EXCEPT ![c].at = at]
GoWith(c, at, s) == call' = [call EXCEPT ![c] = [@ EXCEPT !.at = at, !.on = s.on, !.rules = s.rules]]

\* The call returns and its deferred Unlock runs.
Return(c) ==
  /\ mu' = Free
  /\ call' = [call EXCEPT ![c] = Idle]

At(c, step) == call[c].at = step

\* Call: dispatch and validation, up to mu.Lock.
Begin(c) ==
  /\ call[c].at = "idle"
  /\ calls < MaxCalls
  /\ \E op \in Op :
       /\ Accepted(op)
       /\ op.kind = "add" => Size + 2 <= MaxRules
       /\ call' = [call EXCEPT ![c] = [@ EXCEPT !.at = "lock", !.op = op]]
  /\ calls' = calls + 1
  /\ UNCHANGED <<table, byNft, shadowed, fileVars, mu, saved>>

LockUnheld(c) ==  \* mutant: mutate without the mutex
  /\ call[c].at = "lock"
  /\ mu' = c
  /\ Go(c, "ensure")
  /\ UNCHANGED <<table, byNft, shadowed, fileVars, calls, saved>>

Lock(c) ==
  /\ call[c].at = "lock"
  /\ mu = Free
  /\ mu' = c
  /\ Go(c, "ensure")
  /\ UNCHANGED <<table, byNft, shadowed, fileVars, calls, saved>>

\* fwUnavail and a file that cannot be read: the call ends with an error.
Fails(c) ==
  /\ \/ At(c, "ensure") \/ At(c, "recover") \/ At(c, "read") \/ At(c, "apply")
  /\ Return(c)
  /\ UNCHANGED <<table, byNft, shadowed, fileVars, calls, saved>>

\* ensureInitialized, as far as it only reads.
Ensure(c) ==
  /\ At(c, "ensure")
  /\ \/ /\ table # NoTable
        /\ Go(c, "read")
        /\ UNCHANGED mu
     \/ /\ table = NoTable /\ shadowed
        /\ Return(c)
     \/ /\ table = NoTable /\ ~shadowed
        /\ GoWith(c, "recover", loadConf(conf))
        /\ UNCHANGED mu
  /\ UNCHANGED <<table, byNft, shadowed, fileVars, calls, saved>>

\* apply: one netlink batch replaces the table.
Apply(c) ==
  /\ \/ At(c, "recover") \/ At(c, "apply")
  /\ table' = [on |-> call[c].on, rules |-> emitRules(call[c].rules)]
  /\ byNft' = FALSE
  /\ saved' = "no"
  /\ \/ call[c].at = "recover" /\ call' = [call EXCEPT ![c].at = "persist"]
     \/ call[c].at = "apply" /\ call' = [call EXCEPT ![c] = [@ EXCEPT !.at = "persist", !.op = NoOp]]
  /\ UNCHANGED <<shadowed, fileVars, mu, calls>>

\* conflictScan and logicalState: the rules as a listing numbers them.
Seen == kernelRulesToLrules(table.rules)

Refused(c) ==
  /\ At(c, "read")
  /\ \/ table = NoTable
     \/ Mutates(call[c].op) /\ shadowed
     \/ table # NoTable /\ call[c].op.kind = "delete" /\ call[c].op.n > Len(Seen)
  /\ Return(c)
  /\ UNCHANGED <<table, byNft, shadowed, fileVars, calls, saved>>

\* A status or preview ends with the listing it has read.
List(c) ==
  /\ At(c, "read")
  /\ ~Mutates(call[c].op)
  /\ table # NoTable
  /\ Return(c)
  /\ UNCHANGED <<table, byNft, shadowed, fileVars, calls, saved>>

\* mutate: the change of the list that has been read.
Change(c) ==
  LET op == call[c].op IN
  /\ At(c, "read")
  /\ Mutates(op)
  /\ table # NoTable
  /\ ~shadowed
  /\ op.kind = "delete" => op.n <= Len(Seen)
  /\ GoWith(c, "apply", Changed(op, table.on, Seen))
  /\ UNCHANGED <<table, byNft, shadowed, fileVars, mu, calls, saved>>

\* After persistConf: recovery goes on with the call it was for.
Persisted(c) ==
  IF call[c].op = NoOp THEN Return(c)
  ELSE GoWith(c, "read", [on |-> FALSE, rules |-> <<>>]) /\ UNCHANGED mu

confForeign == conf = Foreign

\* persistConf: only a log line tells of a foreign file or a failed step.
PersistEnds(c) ==
  /\ \/ At(c, "persist") \/ At(c, "sync") \/ At(c, "rename") \/ At(c, "syncdir")
  /\ Persisted(c)
  /\ UNCHANGED <<table, byNft, shadowed, fileVars, calls, saved>>

WriteTmp(c) ==
  /\ At(c, "persist")
  /\ ~confForeign
  /\ tmp' = [file |-> renderConf(call[c].on, call[c].rules), synced |-> FALSE]
  /\ Go(c, "sync")
  /\ UNCHANGED <<table, byNft, shadowed, conf, disk, mu, calls, saved>>

SyncTmpSkipped(c) ==  \* mutant: no fsync before the rename
  /\ At(c, "sync")
  /\ Go(c, "rename")
  /\ UNCHANGED <<table, byNft, shadowed, fileVars, mu, calls, saved>>

SyncTmp(c) ==
  /\ At(c, "sync")
  /\ tmp' = [tmp EXCEPT !.synced = TRUE]
  /\ Go(c, "rename")
  /\ UNCHANGED <<table, byNft, shadowed, conf, disk, mu, calls, saved>>

Rename(c) ==
  /\ At(c, "rename")
  /\ conf' = tmp.file
  /\ disk' = disk \union {IF tmp.synced THEN tmp.file ELSE Torn}
  /\ tmp' = NoTmp
  /\ saved' = "renamed"
  /\ Go(c, "syncdir")
  /\ UNCHANGED <<table, byNft, shadowed, mu, calls>>

SyncDirSkipped(c) ==  \* mutant: the directory is not synced
  /\ At(c, "syncdir")
  /\ saved' = "synced"
  /\ Persisted(c)
  /\ UNCHANGED <<table, byNft, shadowed, fileVars, calls>>

SyncDir(c) ==
  /\ At(c, "syncdir")
  /\ disk' = {conf}
  /\ saved' = "synced"
  /\ Persisted(c)
  /\ UNCHANGED <<table, byNft, shadowed, conf, tmp, calls>>

-----------------------------------------------------------------------------
(* Environment                                                              *)

\* nft flush ruleset; another firewall comes or goes.
Flush ==
  /\ table # NoTable
  /\ table' = NoTable
  /\ byNft' = FALSE
  /\ shadowed' = FALSE
  /\ UNCHANGED <<fileVars, mu, call, calls, saved>>

Shadow ==
  /\ shadowed' = ~shadowed
  /\ UNCHANGED <<table, byNft, fileVars, mu, call, calls, saved>>

\* The agent's process dies: the kernel and the files keep what they have.
Killed ==
  /\ \E c \in Client : call[c] # Idle
  /\ call' = [c \in Client |-> Idle]
  /\ mu' = Free
  /\ UNCHANGED <<table, byNft, shadowed, fileVars, calls, saved>>

PowerLoss ==
  /\ \E file \in disk :
       /\ conf' = IF file = Torn THEN Missing ELSE file
       /\ disk' = {file}
       /\ table' = Boot(file)
  /\ byNft' = (table' # NoTable)
  /\ tmp' = NoTmp
  /\ shadowed' = FALSE
  /\ call' = [c \in Client |-> Idle]
  /\ mu' = Free
  /\ saved' = IF table' = NoTable THEN "no" ELSE "synced"
  /\ UNCHANGED calls

Step(c) ==
  \/ Lock(c) \/ Ensure(c) \/ Apply(c) \/ Refused(c) \/ List(c) \/ Change(c)
  \/ Fails(c)
  \/ WriteTmp(c) \/ SyncTmp(c) \/ Rename(c) \/ SyncDir(c) \/ PersistEnds(c)

Next ==
  \/ \E c \in Client : Begin(c) \/ Step(c)
  \/ Flush \/ Shadow \/ Killed \/ PowerLoss

Spec == Init /\ [][Next]_vars

-----------------------------------------------------------------------------
(* Properties                                                               *)

\* The rules as a listing reads them are those of the kernel.
ListedInFull == emitRules(Seen) = table.rules

\* What a status lists is what the kernel applies ("status, numbering and the enabled
\* flag are read back from netfilter"): fails for rules loaded at boot, which
\* decodeKernelRule does not know (logicalState).
ListShowsTheTable == table # NoTable => ListedInFull

\* A table the agent has applied reads back rule for rule: the twins merged into
\* one rule are the two that a rule for both protocols is written as, and no
\* rule next to another is taken for its twin (kernelRulesToLrules).
AppliedTableIsListed == table # NoTable /\ ~byNft => ListedInFull

\* Whatever a power loss may leave is a complete boot file (writeConf: "fsync'd so a
\* power loss can't leave a partial file"). Once a change is written to it, file and
\* table say the same until the next change, whoever asked for it and whatever failed
\* before (mutate).
BootFileIsTable ==
  /\ Torn \notin disk
  /\ saved # "no" /\ table # NoTable =>
       /\ conf \notin {Missing, Foreign}
       /\ table = [on |-> conf.on, rules |-> Canonical(conf.rules)]

\* A change that has been written to the end comes back after a power loss, unless
\* an address in it is spelled in a way the boot loader refuses.
SavedChangeSurvives ==
  [][PowerLoss /\ saved = "synced" /\ table # NoTable /\ Canonically(conf)
       => table' = table]_vars

\* Concurrent calls lose no update: what apply writes is the list of the table it
\* replaces, as it reads back at that moment, with the one change of its own call.
NoLostUpdate ==
  [][\A c \in Client :
       call[c].at = "apply" /\ Apply(c) /\ table # NoTable =>
         LET new == Changed(call[c].op, table.on, Seen) IN
         table' = [on |-> new.on, rules |-> emitRules(new.rules)]]_vars

\* A toggle keeps the rules ("rules survive a disable/enable cycle"): fails for
\* rules loaded at boot, which it has not read and does not write again (apply).
ToggleKeepsTheRules ==
  [][\A c \in Client :
       call[c].at = "apply" /\ Apply(c) /\ table # NoTable /\ call[c].op.kind = "toggle"
         => table'.rules = table.rules]_vars
=============================================================================
