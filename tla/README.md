# PIGA-Linux: TLA+ models and proofs

PIGA is a small monitor inside SELinux (here in Linux 2.6.39-hardened-r8).
SELinux decides one access at a time; PIGA remembers.  A PIGA policy is a list
of *signatures*, forbidden chains of accesses; every signature has a *token*
that moves on when the access it waits for is made, and the access that would
complete the chain is refused.

The repository is a whole kernel tree.  PIGA's own code is
`security/selinux/piga/` (called `piga/` below), its call in
`security/selinux/avc.c`, and the policy parser in `ppp/`.

## 1. Inventory

### Components, their state and operations

| component | source | state | operations |
|---|---|---|---|
| decision hook | `avc.c: avc_has_perm_flags`, `piga/piga.c: piga_has_perm` | the tokens (`current_position`) of the loaded sequences | one call per access check, by any task, without a lock |
| policy tables | `piga/piga.c: piga_set_pol`, `piga/syscalls.c` | `seq`, `link`, `s_len`, `l_len` and the memory behind them | `sys_piga_add_sequence`: check, allocate, copy, install |
| switches | `piga/procfs.c` | `piga_status`, `piga_audit_only_mode` | reads and writes of `/proc/piga/status` and `/proc/piga/mode` |
| getsid | `piga/procfs.c` | the global `sid` | a write looks a context up, a read prints the SID and clears it |
| policy file | `piga/procfs.c`, `piga_list_sequence` | none | a read prints the tables to the kernel log |
| procfs set-up | `piga/procfs.c: init_piga_procfs` | the entries of `/proc/piga` | once at boot |
| parser | `ppp/` | tables `s`, `l`; `curr_seq`, `curr_link`; `request_list`; `invalid_context`; the SID cache; two counters | the reductions of the grammar, `string_to_sid`, `set_sequence` |
| AVC | `avc.c`, `selinuxfs.c: sel_write_enforce` | a hash table of decisions under RCU, `active_nodes`, `latest_notif` | lookup, insert, grant, reclaim, flush, audit |
| security server | `ss/services.c`, `ss/sidtab.c` | the SELinux policy, `latest_granting`, the SID table | contexts to SIDs, decisions, policy loads |

### Interactions

* Every SELinux check calls `avc_has_perm_flags`.  It asks the AVC, then, unless
  SELinux refuses, `piga_has_perm`, then `avc_audit`.
* In an rcu-walk `avc_audit` answers `-ECHILD` instead of auditing; `fs/namei.c`
  repeats the check in a ref-walk.  `piga_has_perm` runs each time.
* PIGA sees an access only as SIDs and the cached decision: it relies on SIDs
  keeping their contexts (the tables hold SIDs for as long as they are loaded)
  and, in audit-only mode, on the decision being that of the policy in force.
* The parser asks `/proc/piga/getsid` for the SID of every context, builds both
  tables in its own memory and hands them over with one system call.  The
  kernel checks that lengths and pointers are not 0 and trusts the rest.

### What is hard

The monitor has no lock at all: tasks share the tokens, a loader replaces the
tables under them, and getsid clients share one variable.  The retry repeats an
operation that has side effects.  The parser fills fixed tables through global
indices.  Below PIGA, the AVC is read without a lock while reclaim, flush and
grants change it, and the SID table is copied and converted while it is in use.
The list with the line of each of these is under `hazards` in `PROJECT.json`.

### What makes each component correct

* hook: accesses that were let pass never complete a signature; nothing is
  refused that does not; tokens stay inside their sequence and never go back;
  a check ends.
* AVC: a node in use is not freed; one node per key; the count of nodes is
  right; old decisions and grants do not survive a flush.
* security server: a SID above the initial ones stays with its context for
  ever, and no SID is one of the reserved values.
* tables: no use after free, no double free, no leak on any error path.
* getsid: the answer is for the context that was asked for.
* parser: tables mirror the text; what the kernel trusts is true; the printed
  counts are right; overruns only for texts that do not fit.

## 2. Modules

```
PigaTables          the two tables, operators on one sequence, WellFormed
  |-- Piga            the monitor, every operation atomic     MCPiga
  |     |-- PigaProofs
  |-- PigaThreads     the monitor, one memory access per step  MCThreads
  |     |-- PigaThreadsProofs   no block lost, no wild access in turns
  |     |-- PigaSerial  PigaThreads in turns implements Piga   MCSerial
  |           |-- PigaSerialProofs   (extends PigaThreadsProofs too)
  |-- Ppp             the policy parser                        MCPpp
        |-- PppProofs
GetSid              /proc/piga/getsid                          MCGetSid
  |-- GetSidProofs
Avc                 the access vector cache                    MCAvc
  |-- AvcProofs       nodes, keys and the count
        |-- AvcFlushProofs  what a flush achieves
SidMap              what SIDs promise (abstract)
SidTab              the SID table, implements SidMap           MCSidTab
  |-- SidTabProofs
```

Operators whose names end in a description of a mistake (`SetPolKeepsLength`,
`LoopRestarts`, `EndTestStops`, ...) are deliberate mutants of the definition
that follows them; no specification uses them.  They show that each property
notices a plausible bug (`mutants` in `PROJECT.json`).

**PigaTables.**  A permission mask is the set of its permissions, so `&` is an
intersection.  Table indices start at 0.  `WellFormed` says what the kernel
needs of a policy and does not check.

**Piga.**  `avc_has_perm_flags` is one step: SELinux's answer
(`SelinuxDenies`), the early returns of audit-only mode (`AuditOnlySkips`), the
loop over all sequences (`LoopDenies`, `LoopMoves`), and `avc_audit`
(`Audited`).  The loop is a set-wise definition: the sequences do not influence
each other, a sequence at its end refuses and stays, every other one that
matches moves on, also when the access is refused.  `Access` is a check in
either walk, `Retry` the repetition after `-ECHILD`.  The AVC is the constant
`AvdOf`: any decision from a set, a new choice at each call, so that flushes and
policy changes of SELinux between calls are included.  `calls` is a history of
the checks that reached the enabled monitor since the last load.

**PigaThreads.**  The same operations one memory access at a time: the two
switches, the pointer that `piga_get_sequence_at` returns, the loop test on the
global `s_len`, the four getters (each reads the sequence and the global `link`
again), `piga_seq_end`, and the load, store, test and decrement of
`piga_seq_next`.  Where the compiler may use the register or read memory again,
both happen.  The four assignments of `piga_set_pol` happen in any order.
`vfree`d blocks are never reused; touching one, or a cell outside a block, sets
`oops` and ends the behaviour.  `overlap` and `raced` record that calls did not
take turns.

**PigaSerial.**  The behaviours of PigaThreads in which one check or one load
runs at a time and no switch is written meanwhile: at most one member of `Busy`
after every step.  The refinement mapping shows Piga the tables as they were
when nothing was under way (`settled`).

**Ppp.**  One action per reduction.  The text is not fixed: every reduction
takes a word, class or context from a set.  `request` is the value that yacc
carries for the nonterminal of the same name, the first word of the vector by
the default `$$ = $1`; the action of the longer rule (`RequestMore`) pushes that
value and not the word it has just read, so that permissions after the first are
lost.  `Answers` gives the answers that getsid may have for each context: its
SID, the error 0 also for a context SELinux knows (no memory, the SID table shut
down), or what another client left there.  `item`, `line` and `text` remember
what was read, for the properties.  Fresh memory of this size comes from `mmap`
and is zero, which the code relies on (`length` is never initialised).  A write
outside a table ends the behaviour in `overrun`.

A line that is reported as skipped (`ppp.y:62`) and counted as ignored
(`main.cpp:103`) keeps its cells in both tables and goes to the kernel with the
rest.  The model does the same; `CountsExact` says that such a line has a link
no access can match.

**GetSid.**  Clients run `string_to_sid`'s write and read.  The write handler
copies the context, which may fail and then leaves `sid` alone (`CopyFails`);
its lookup is two stores to the global (`*sid = SECSID_NULL` first); the read
handler is a read and a store.  A client reads whether its write went through or
not, as the code does, and one whose write failed gets whatever is there: that
is a defect of the code that needs a failing copy.  The properties are about the
clients whose question reached the handler (`taken`), with the others beside
them.

**Avc.**  Each task runs `avc_has_perm_noaudit`: a lookup, on a miss
`security_compute_av` outside the read section (`Compute`), the test of `latest_notif` and the allocation (`Admit`),
the insertion under the slot's lock (`avc_insert`), the decision, and for a
denial that is let through the allocation (`Decide`) and `avc_update_node`.
What happens under one slot's lock is one step, and so is the reclaim, which may
pick any few nodes: which ones depends on `lru_hint` and on `spin_trylock`.
`avc_flush` is one step per slot, and `avc_ss_reset` raises `latest_notif`
(`Notify`) after the last.  RCU frees a node as soon as every task that was in a
read section when the node was unlinked has left it: the earliest moment RCU
allows, hence the worst.  `reset` has one frame for loads (they hold `sel_mutex`)
and one for writes of `enforce`.

`CacheFresh` and `GrantsFlushed` have an exception, the history `crossed`.  It
is needed.  `avc_insert` tests `latest_notif` before it takes the slot's lock,
and `avc_ss_reset` flushes before it raises it, so a decision of the old policy
can be linked after the flush of its slot and stay until it is reclaimed or
flushed again; a grant made just before the switch to enforcing can do the same.
The properties say that these are the only ways.

**SidTab** and **SidMap.**  `SidMap` is the promise: a context without a SID
gets a new one, nothing else changes between loads, and a load leaves every SID
above the initial ones in the table, with its context rewritten at most as
`Becomes` says.  `SidTab` is the table with the search without and the search
with its lock, the copy that `security_load_policy` makes node by node beside
the clients, the conversion of the copy, and every way that load can fail.

A context is a name (its user, role and type), an MLS range or none, and a form:
mapped to the values of the policy, or a string the policy does not know.  A
policy has the names and ranges it knows, with aliases resolved, its valid
contexts, and its own initial SIDs; it may give two of them one context, and
list fewer than `SECINITSID_NUM`.  `convert_context` maps a string that has
become valid, turns what the new policy does not know or admit into a string,
looks the range up, takes it from the unlabeled SID when MLS is switched on, and
drops it when MLS is switched off (`Forms`).  So two SIDs can end with the same
context, and a search may then find either; `SidMap` does not exclude it.  Of
SIDs up to `SECINITSID_NUM` it promises nothing: a load gives them the contexts
of the new policy, and drops those that the table gave out itself because the
old policy listed too few.

Only `security_context_to_sid` is a client here, not its `_force` variant, which
also gives SIDs to contexts the policy does not know; strings come from loads.
A load that fails after `sidtab_shutdown` leaves the table shut down: known SIDs
stay right and no new ones are given out until another load succeeds; the code
and the model agree in that.

## 3. Runs

| run | checks | result |
|---|---|---|
| `monitor` | `TypeOK`, `TokenInSequence`, `NoSignatureCompleted`, `DenialJustified`, `TokensMoveForward`, `LookupCompletes` | hold |
| `parser` | `TableMirrorsFile`, `CountsExact`, `HandedWellFormed`, `OverrunOnlyWhenFull` | hold |
| `getsid` | `AnswerNotStale` | holds |
| `threads` | `MemorySafeInTurns`, `NoLeak` | hold |
| `serial` | `NoSignaturePassed`, `ImplementsMonitor` (refinement) | hold |
| `avc` | `HitStaysReadable`, `ActiveNodesExact`, `OneNodePerKey`, `GrantsFlushed`, `CacheFresh` | hold |
| `sidtab` | `SidsInRange`, `ImplementsSidMap` (refinement) | hold |
| `retry` | `RetryIsJustLater` | violated: the repeated check counts twice |
| `policy_file` | `PolicyFileShowsSignatures` | violated: links of other sequences and beyond the table |
| `lost_words` | `AllPermissionsRequested` | violated: only the first permission of a vector counts |
| `getsid_race` | `AnswerIsMine` | violated: two clients share the answer |
| `token_race` | `NoSignaturePassed` | violated: a race on the token lets a signature pass |

The violated properties state what a comment, a message or the report says of
the code; `findings` in `PROJECT.json` quotes them.

`MemorySafeInTurns` deserves a word.  It says that a wild access needs two
users of the tables at once.  The condition is needed twice over: a load under
a running loop is a use after free, and two tasks alone are enough to carry a
token of a sequence at offset 0 in front of the table (both see the end, both
take back; the second decrement of a token already back at 0 wraps).

### Bounds

* `MCPiga`: two tasks, four kinds of access (one asks for two permissions, one
  differs only in its class), two policies with two signatures each that share
  links, repeat a link, or have one link; four recorded checks per policy.  The
  longest signature has three links, so there is room for a completed one and
  an access in between, and loads start over.  The decisions include permissive
  denials and silent ones.
* `MCPpp`: texts of up to three lines of up to two transitions, vectors of one
  or two permissions, one context SELinux knows, answered with its SID or 0, and
  one it does not know, `l` with five cells: both tables can overrun, and the
  doubled offsets reach beyond `l`.  `lost_words` needs two lines.
* `MCGetSid`: three clients, three contexts, one unknown and one found under two
  SIDs (a load may come between two questions); no bound on questions.
* `MCThreads`: two tasks and a loader; two recorded checks and four blocks, that
  is a load and a reload, or loads that fail; tasks are symmetric.  No system
  call begins, and `vmalloc` returns nothing, once all blocks have been used; a
  call that is under way then fails.  The race
  needs a chain of three links and four checks.
* `MCAvc`: two tasks, three nodes and one key, in the second of two slots, so
  that a flush has a step before and a step at it; a threshold of one node, so
  that every second allocation reclaims; two loads, of policies that differ in
  the permissive flag; one permission allowed and one denied.  Two tasks are
  enough for a hit beside a removal, two misses at once, and a grant beside an
  insertion.  Tasks and nodes are symmetric.
* `MCSidTab`: two clients, two initial SIDs, three to give out and more contexts
  than that, so that the counter reaches its end; one policy that gives both
  initial SIDs the same context, one with MLS that does not know one of the
  names, and one with an alias that lists a single initial SID; no bound on
  loads.
* `MCSerial`: one task (they take turns anyway), the retry, two policies of two
  sequences, a reload.

Runs of `Ppp`, `PigaThreads` and `PigaSerial` do not check for deadlock: the
parser ends, and the bounds on blocks and checks stop the others.

### Fairness

`Piga!FairSpec` assumes that a task that got `-ECHILD` repeats its check, which
is the next thing `may_lookup` or `do_path_lookup` does.  Nothing is assumed of
new accesses, loads or switches.

## 4. Proofs

TLAPS proves, for all values of the constants that satisfy the assumptions:

| theorem | states | inductive invariant |
|---|---|---|
| `TypeCorrect`, `TokensStayInSequence` | `TypeOK`, `TokenInSequence` | `TablesInv`: types, the tables are those of a loaded policy up to tokens, tokens in range |
| `TokensForward` | `TokensMoveForward` | `TablesInv` |
| `SignaturesNeverComplete` | `NoSignatureCompleted` | `BoundInv` = `TablesInv` and `ProgressBounded` |
| `DenialsAreJustified` | `DenialJustified` | `EarnedInv` = `TablesInv`, `ProgressEarned` and the property |
| `ParserDeliversWellFormed` | `HandedWellFormed` | `LayoutInv`: where the stretches of the sequences lie |
| `TablesMirrorText` | `TableMirrorsFile` | `MirrorInv`: also for the line and vector being read, whose request list holds the first word and nothing of the vector before |
| `CountsAreExact` | `CountsExact` | `CountInv` = `MirrorInv`, the property, and `invalid_context` says whether the line being read is broken |
| `OverrunNeedsFullTables` | `OverrunOnlyWhenFull` | `FillInv` = `MirrorInv`, the property, and `link_offset` is twice the number of transitions of the lines before |
| `BlocksAreNotLost` | `NoLeak` | `LeakInv`: as long as loads do not overlap, `Ownership` |
| `SafeInTurns` | `MemorySafeInTurns` | `TurnsInv`: as long as calls take turns, no wild access and `Turns` |
| `TurnsImplementMonitor` | `ImplementsMonitor` | `SerialInv` = `Turns`, `Alone` and `Progress` |
| `TurnsKeepSignatures` | `NoSignaturePassed` | `SerialInv` and `Starts`: a check is recorded after those that were complete when it began |
| `AnswersNeverStale` | `AnswerNotStale` | `FreshInv`: once `sid` was cleared for a client whose question was taken, it is 0 or the SID of a lookup in that client's `around`, and all lookups under way are in there |
| `SidsStayInRange` | `SidsInRange` | `TabInv`: SIDs are unique and lie below the counter, in the table in use and in the new one; the new one has its policy's initial SIDs and, above them, SIDs of the table in use, all of them once the copy is complete |
| `SidsAreForever` | `ImplementsSidMap` | `TabInv` |
| `HitsStayReadable`, `KeysStayUnique` | `HitStaysReadable`, `OneNodePerKey` | `CacheInv`: a node that a task found is cached, or dead with the task among its readers; only dead nodes have readers; new nodes belong to one task each |
| `CountStaysExact` | `ActiveNodesExact` | `CountInv` = `CacheInv` and the property |
| `CacheStaysFresh`, `GrantsAreFlushed` | `CacheFresh`, `GrantsFlushed` | `FlushInv` = `CacheInv` and where decisions and grants may be: in slots the flush has yet to reach, or crossed |

`NoSignatureCompleted` is not inductive: it speaks of whole signatures only.
`ProgressBounded` says that the accesses let pass contain no more of a
signature than its token shows; `ProgressEarned` is the converse, that what the
token shows was really checked, in order.

Assumptions: accesses and decisions are well typed; loaded policies are
`WellFormed`, which is what `ParserDeliversWellFormed` proves of the parser; and
`AuditRulesAssumption`, the rule that a comment in `piga_has_perm` asks of the
SELinux policy for audit-only mode: everything a signature mentions is audited.
The parser's theorems assume that no answer of getsid is 0xffffffff
(`NoAnswerIsBadSid`), which is what `SidsStayInRange` proves of the SID table.
The theorems about the SID table assume of a policy that its initial SIDs have
numbers of the kernel's list, each once, and valid contexts
(`PolicyAssumption`); `policydb_load_isids` refuses a SID that is there already,
and `policydb_read` a context that is not valid.  Nothing is assumed of the
contexts of different initial SIDs or of different policies.

`CacheFresh` and `GrantsFlushed` speak of the time between flushes only.
`FlushInv` says during a flush, for every cached decision and for every one that
a task is about to write, that it is of the policy in force, or its slot is
still ahead (`Pending`), or its key is in `crossed`; and that `latest_notif` is
behind only while a load is under way, which is what keeps later insertions out.

`ImplementsSidMap` needs `TabInv` for one step: the installation of the copy.
That it loses no SID above the initial ones holds because none is given out
after `sidtab_shutdown`, so that what `clone_sid` has copied is all there is; and
because `convert_context` visits every node once, and what it makes of a context
keeps the name or resolves an alias (`Carried`).

`TableMirrorsFile` compares old links with the SID cache as it is now.  That is
sound because the cache only grows: no answer in it is ever replaced, so a
context that occurs in several lines stands for one SID in all of them.

`NoLeak` speaks of the moments without a load.  `Ownership` says what holds
during one: every live block belongs to exactly one loader that has yet to free
or publish it, or to one of the two pointers; between the `vfree` of a table and
the assignment to its pointer the pointer owns nothing (`SeqGone`, `LinkGone`).
It needs no more than that loaders do not overlap; how many tasks race on the
tokens does not matter.

`Turns` adds to `Ownership` what the tables and the frames hold: outside
`piga_set_pol` every token is on a link of its own sequence and every stretch
inside the link table; a loader's copies are those of its policy; a task in the
loop still has the pointer in force and an index below `s_len`; and between
`piga_seq_end` and the end of `piga_seq_next` the register and the token differ
as they should (`PlaceGood`).  The last part is why the decrement of
`piga_seq_next` is never reached by calls in turns.

The refinement needs to know how far a check has come.  `Progress` says it in
terms of the settled tables: the loop has moved the tokens of the sequences
below its index (`LoopProgress`), the getters that have returned agreed with the
link there (`Tested`), `denied` holds if one of the sequences done was at its end
(`Refuses`), and after the loop the tokens and the answer are those of the
atomic operation (`Answered`); meanwhile the guard of that operation stays true
(`Asked`).  Every step but three leaves the atomic monitor as it is: `Return` is
`Access` or `Retry`, the last assignment of `Publish` is
`sys_piga_add_sequence`, and a write to a switch is itself.  A load that fails
is none of them: it changes nothing.

These proofs use no bound of the runs: tasks, loaders, blocks, checks and
policies are arbitrary.  They assume that policies are `WellFormed`
(`PolicyAssumption`), that the switches get Booleans (`SwitchAssumption`), and
that no task is also a loader (`UserAssumption`; a process that loads a policy
makes its accesses before and after).

The theorems about `Piga` are about atomic operations.  `TurnsKeepSignatures`
carries the most important one over to the code when it takes turns:
`PigaSerialProofs` instantiates `PigaProofs` under the refinement mapping, so
that `TurnsImplementMonitor` and `SignaturesNeverComplete` together keep
signatures out of the record (`MonitorNeverCompletes`); a chain of accesses in
`NoSignaturePassed` would be one (`ChainIsEmbedding`), because an access that
began after another was complete has a higher number (`Starts`).  For this
`PigaSerial` repeats what `Piga` assumes of accesses, decisions and audit rules
(`VectorAssumption`, `AvdAssumption`, `AuditRulesAssumption`).  The run
`token_race` violates the same property without the turns.

## 5. Only model-checked

The liveness property `LookupCompletes`: fairness is out of the prover's reach.
The five violated properties are refuted on their instances, which is all a
refutation needs.  Every other property of a run is a theorem.

## 6. Not modelled

* `init_piga_procfs`, a straight line of code at boot; the unused
  `load_sequence` and `load_link` files.
* `print_vector` (formatting, and a `vmalloc` that may sleep), the printing of
  the policy in the system call and in the policy file; the lexer; the parser's
  statistics.
* How SELinux reads a policy and computes a decision from its rules; the hash
  chains and the cache of the SID table; the `_force` lookups; the levels and
  categories inside an MLS range; the first policy load.
* The AVC's statistics and the order of its slots; the callbacks that
  `avc_ss_reset` calls (network caches); a second flush for a switch to enforcing
  while the first is under way.
* In `Retry`, the earlier components of a path, whose checks `do_path_lookup`
  repeats as well.
* The `AVC_STRICT` flag of `avc_has_perm_noaudit` and the callers that skip
  `avc_has_perm_flags`; PIGA never sees them.
* Overflow of `sizeof(...) * s_len` in the system call; the parser's lengths are
  far below it.
* That the loop of `piga_has_perm` ends: its counter only grows and `s_len` is
  finite whatever loads do to it.

## 7. Plan

Done: the inventory; `PigaTables`, `Piga`, `Ppp`, `PigaThreads`, `PigaSerial`,
`GetSid`, `Avc` and `SidTab`, with proofs of all their safety properties and of
both refinements.

Next, in this order:

1. `DenialsAreJustified` for `PigaSerial`, the way `TurnsKeepSignatures` carries
   `SignaturesNeverComplete` over.
2. `Piga` over `Avc` in place of `AvdOf`, and `Ppp` over `GetSid`: a parser run
   with a second client.
