---- MODULE JoinToken ----
(***************************************************************************)
(* scripts/revoke_m4j_spire_join_token.py, the helper that runs on the trust *)
(* host, with the SPIRE server's join tokens, agent records and role aliases *)
(* as it uses them (external).  Each call is a process of its own: the one   *)
(* the deployment waits for, and one an interrupted deployment left running. *)
(* The attempt file of a role is an inode: it is created exclusively, locked *)
(* with flock, truncated before it is written and unlinked when it is done,  *)
(* so a process can hold a lock on a file that no path leads to any more.    *)
(***************************************************************************)
EXTENDS Naturals, FiniteSets

CONSTANTS
    Roles,         \* the roles whose SPIRE agents are bootstrapped
    NoToken,       \* the absence of a token
    MaxAttempts,   \* bound on attempt files created
    MaxTokens,     \* bound on tokens issued
    StableReads    \* STABLE_ABSENCE_READS

ASSUME TokenAssumption ==
    /\ MaxAttempts \in Nat /\ MaxTokens \in Nat /\ StableReads \in Nat \ {0}
    /\ NoToken \notin 1 .. MaxTokens /\ NoToken \notin Roles

Tokens == 1 .. MaxTokens
Slots == {"run", "orphan"}

VARIABLES
    attempts,   \* role -> the inode at its path: number, state and token
    inodes,     \* attempt files created so far
    live,       \* the server's unconsumed tokens
    issued,     \* tokens issued so far
    aliases,    \* role -> the token whose agent its alias entry names
    nodes,      \* tokens whose agent record the server has
    attesting,  \* the attestation the server has accepted and not finished
    audited,    \* tokens whose agent and alias were found exact
    helper      \* slot -> the helper process in it

tokenVars == <<attempts, inodes, live, issued, aliases, nodes, attesting, audited, helper>>

NoAttempt == [ino |-> 0, state |-> "absent", token |-> NoToken]
NoProcess == [op |-> "none", role |-> NoToken, pc |-> "idle", ino |-> 0,
              verified |-> FALSE, token |-> NoToken, reads |-> 0]
NoAttestation == [role |-> NoToken, token |-> NoToken, delay |-> 0]

TokenTypeOK ==
    /\ \A r \in Roles : attempts[r].state \in {"absent", "empty", "armed", "generated"}
    /\ live \subseteq Tokens /\ nodes \subseteq Tokens /\ audited \subseteq Tokens
    /\ issued \in 0 .. MaxTokens /\ inodes \in 0 .. MaxAttempts
    /\ aliases \in [Roles -> Tokens \cup {NoToken}]
    /\ \A s \in Slots : helper[s].op \in {"none", "arm", "generate", "cleanup"}

TokenInit ==
    /\ attempts = [r \in Roles |-> NoAttempt]
    /\ inodes = 0 /\ live = {} /\ issued = 0
    /\ aliases = [r \in Roles |-> NoToken]
    /\ nodes = {} /\ attesting = NoAttestation /\ audited = {}
    /\ helper = [s \in Slots |-> NoProcess]

----
(* What a process sees. *)

Holds(s, role, ino) ==
    helper[s].role = role /\ helper[s].ino = ino
        /\ helper[s].pc \in {"issue", "truncate", "write", "revoke", "kept", "absent", "clear", "unlink"}

\* _lock_attempt: flock on the inode, retried for a bounded time.
LockFree(s) == \A o \in Slots \ {s} : ~Holds(o, helper[s].role, helper[s].ino)

\* _read_attempt under the lock: an inode whose path is gone was truncated
\* before it was unlinked, so it reads as empty.
ReadAttempt(s) ==
    LET a == attempts[helper[s].role]
    IN IF a.ino = helper[s].ino THEN a ELSE [a EXCEPT !.state = "empty"]

\* _read_exact_agent and _read_exact_alias.
AgentPresent(t) == t \in nodes
AliasPresent(role, t) == aliases[role] = t

Step(s, pc) == helper' = [helper EXCEPT ![s].pc = pc]

\* The process exits with its result; nobody reads an orphan's.
Exit(s) ==
    helper' = [helper EXCEPT ![s] =
        IF s = "orphan" THEN NoProcess
        ELSE [NoProcess EXCEPT !.pc = "done", !.token = helper[s].token]]

----
(* Calling the helper, and what can happen to it. *)

\* main: the playbook runs one operation and waits for it.
CallHelper(op, role, verified) ==
    /\ helper["run"] = NoProcess
    /\ helper' = [helper EXCEPT !["run"] = [NoProcess EXCEPT !.op = op, !.role = role, !.pc = "open",
                                            !.verified = verified]]

\* The answer is read: nothing of the process is left.
ReapHelper == helper' = [helper EXCEPT !["run"] = NoProcess]

\* Any CLI call, read or write can fail, and the process can be killed: its
\* descriptor closes, the lock is released and the state stays as it is.
EndHelper(s) ==
    /\ helper[s].pc \notin {"idle", "done", "failed"}
    /\ helper' = [helper EXCEPT ![s] = IF s = "orphan" THEN NoProcess ELSE [NoProcess EXCEPT !.pc = "failed"]]
    /\ UNCHANGED <<attempts, inodes, live, issued, aliases, nodes, attesting, audited>>

\* The deployment dies and its remote command goes on without it.
OrphanHelper ==
    /\ helper["orphan"] = NoProcess
    /\ helper' = IF helper["run"].pc \in {"idle", "done", "failed"}
                 THEN [helper EXCEPT !["run"] = NoProcess]
                 ELSE [s \in Slots |-> IF s = "run" THEN NoProcess ELSE helper["run"]]

----
(* arm_attempt. *)

\* No file at the path, no alias on the server, then an exclusive create.
ArmCreate(s) ==
    /\ helper[s].op = "arm" /\ helper[s].pc = "open" /\ inodes < MaxAttempts
    /\ attempts[helper[s].role].state = "absent"
    /\ aliases[helper[s].role] = NoToken
    /\ inodes' = inodes + 1
    /\ attempts' = [attempts EXCEPT ![helper[s].role] =
                        [ino |-> inodes + 1, state |-> "empty", token |-> NoToken]]
    /\ helper' = [helper EXCEPT ![s].pc = "write", ![s].ino = inodes + 1]
    /\ UNCHANGED <<live, issued, aliases, nodes, attesting, audited>>

ArmWrite(s) ==
    /\ helper[s].op = "arm" /\ helper[s].pc = "write"
    /\ attempts' = [attempts EXCEPT ![helper[s].role].state = "armed"]
    /\ Exit(s)
    /\ UNCHANGED <<inodes, live, issued, aliases, nodes, attesting, audited>>

----
(* generate_attempt and the first steps of cleanup_attempt. *)

\* _open_attempt: a file that is not empty; the lock comes later.
OpenAttempt(s) ==
    /\ helper[s].op \in {"generate", "cleanup"} /\ helper[s].pc = "open"
    /\ attempts[helper[s].role].state \in {"armed", "generated"}
    /\ helper' = [helper EXCEPT ![s].pc = "lock", ![s].ino = attempts[helper[s].role].ino]
    /\ UNCHANGED <<attempts, inodes, live, issued, aliases, nodes, attesting, audited>>

\* The attempt must be armed, under the lock, and no alias may have appeared.
MayIssue(s) == ReadAttempt(s).state = "armed" /\ aliases[helper[s].role] = NoToken

LockToGenerate(s) ==
    /\ helper[s].op = "generate" /\ helper[s].pc = "lock"
    /\ LockFree(s) /\ MayIssue(s)
    /\ Step(s, "issue")
    /\ UNCHANGED <<attempts, inodes, live, issued, aliases, nodes, attesting, audited>>

\* token generate: the server stores the token and registers the alias it is for.
IssueToken(s) ==
    /\ helper[s].op = "generate" /\ helper[s].pc = "issue" /\ issued < MaxTokens
    /\ issued' = issued + 1
    /\ live' = live \cup {issued + 1}
    /\ aliases' = [aliases EXCEPT ![helper[s].role] = issued + 1]
    /\ helper' = [helper EXCEPT ![s].pc = "truncate", ![s].token = issued + 1]
    /\ UNCHANGED <<attempts, inodes, nodes, attesting, audited>>

\* _write_attempt: truncate first, then write and fsync.
TruncateEscrow(s) ==
    /\ helper[s].op = "generate" /\ helper[s].pc = "truncate"
    /\ attempts' = [attempts EXCEPT ![helper[s].role].state = "empty"]
    /\ Step(s, "write")
    /\ UNCHANGED <<inodes, live, issued, aliases, nodes, attesting, audited>>

WriteEscrow(s) ==
    /\ helper[s].op = "generate" /\ helper[s].pc = "write"
    /\ attempts' = [attempts EXCEPT ![helper[s].role].state = "generated",
                                    ![helper[s].role].token = helper[s].token]
    /\ Exit(s)
    /\ UNCHANGED <<inodes, live, issued, aliases, nodes, attesting, audited>>

----
(* cleanup_attempt. *)

\* No file: there is nothing of this attempt to reconcile.
CleanupNoAttempt(s) ==
    /\ helper[s].op = "cleanup" /\ helper[s].pc = "open"
    /\ attempts[helper[s].role].state = "absent"
    /\ Exit(s)
    /\ UNCHANGED <<attempts, inodes, live, issued, aliases, nodes, attesting, audited>>

\* Where the cleanup of a generated attempt starts.
CleanupStart == "revoke"

LockToCleanup(s) ==
    /\ helper[s].op = "cleanup" /\ helper[s].pc = "lock"
    /\ LockFree(s)
    /\ ReadAttempt(s).state \in {"armed", "generated"}
    /\ helper' = [helper EXCEPT ![s].pc = IF ReadAttempt(s).state = "armed" THEN "clear" ELSE CleanupStart,
                                ![s].token = ReadAttempt(s).token]
    /\ UNCHANGED <<attempts, inodes, live, issued, aliases, nodes, attesting, audited>>

\* revoke: one immediate transaction deletes the token, consumed or not.
RevokeToken(s) ==
    /\ helper[s].op = "cleanup" /\ helper[s].pc = "revoke"
    /\ live' = live \ {helper[s].token}
    /\ Step(s, IF helper[s].verified THEN "kept" ELSE "absent")
    /\ UNCHANGED <<attempts, inodes, issued, aliases, nodes, attesting, audited>>

\* cleanup of a verified bootstrap: agent and alias are there, twice.
KeepVerified(s) ==
    /\ helper[s].op = "cleanup" /\ helper[s].pc = "kept"
    /\ AgentPresent(helper[s].token) /\ AliasPresent(helper[s].role, helper[s].token)
    /\ audited' = audited \cup {helper[s].token}
    /\ Step(s, "clear")
    /\ UNCHANGED <<attempts, inodes, live, issued, aliases, nodes, attesting>>

\* FAULTY: one pass that deletes what it finds ends the wait.
OneReadIsEnough(s) == StableReads

\* One read of _reconcile_unverified_absence: what is found is deleted, and
\* only consecutive reads that find nothing count.  An attestation the server
\* had accepted before the revocation ends within StableReads reads.
ReadsAfter(s) ==
    IF AgentPresent(helper[s].token) \/ AliasPresent(helper[s].role, helper[s].token)
    THEN 0 ELSE helper[s].reads + 1

ReconcileAbsence(s) ==
    /\ helper[s].op = "cleanup" /\ helper[s].pc = "absent"
    /\ attesting.token = helper[s].token => attesting.delay > 0
    /\ nodes' = nodes \ {helper[s].token}
    /\ aliases' = [aliases EXCEPT ![helper[s].role] = IF @ = helper[s].token THEN NoToken ELSE @]
    /\ attesting' = IF attesting.token = helper[s].token
                    THEN [attesting EXCEPT !.delay = @ - 1] ELSE attesting
    /\ helper' = [helper EXCEPT ![s].reads = ReadsAfter(s),
                                ![s].pc = IF ReadsAfter(s) >= StableReads THEN "clear" ELSE "absent"]
    /\ UNCHANGED <<attempts, inodes, live, issued, audited>>

\* The attempt is truncated, then its path is removed.
ClearAttempt(s) ==
    /\ helper[s].op = "cleanup" /\ helper[s].pc = "clear"
    /\ attempts' = [attempts EXCEPT ![helper[s].role].state = "empty"]
    /\ Step(s, "unlink")
    /\ UNCHANGED <<inodes, live, issued, aliases, nodes, attesting, audited>>

UnlinkAttempt(s) ==
    /\ helper[s].op = "cleanup" /\ helper[s].pc = "unlink"
    /\ attempts' = [attempts EXCEPT ![helper[s].role] = NoAttempt]
    /\ Exit(s)
    /\ UNCHANGED <<inodes, live, issued, aliases, nodes, attesting, audited>>

HelperStep(s) ==
    \/ ArmCreate(s) \/ ArmWrite(s)
    \/ OpenAttempt(s) \/ LockToGenerate(s) \/ IssueToken(s) \/ TruncateEscrow(s) \/ WriteEscrow(s)
    \/ CleanupNoAttempt(s) \/ LockToCleanup(s) \/ RevokeToken(s) \/ KeepVerified(s)
    \/ ReconcileAbsence(s) \/ ClearAttempt(s) \/ UnlinkAttempt(s)
    \/ EndHelper(s)

----
(* The SPIRE server, external: an agent presents a token. *)

\* The token is consumed before the agent's record exists.
AcceptToken(role, t) ==
    /\ attesting = NoAttestation
    /\ t \in live
    /\ live' = live \ {t}
    /\ attesting' = [role |-> role, token |-> t, delay |-> StableReads - 1]
    /\ UNCHANGED <<attempts, inodes, issued, aliases, nodes, audited, helper>>

RecordAgent ==
    /\ attesting # NoAttestation
    /\ nodes' = nodes \cup {attesting.token}
    /\ attesting' = NoAttestation
    /\ UNCHANGED <<attempts, inodes, live, issued, aliases, audited, helper>>
====
