-------------------------------- MODULE Env --------------------------------
(***************************************************************************)
(* The environment-variable layer, env/env.c, over the system-environment  *)
(* layer of module Sysenv: named variables kept in RAM and mirrored, one   *)
(* flash index each, with attributes RO, RW (system variables, attached at *)
(* start-up by env_init) and USER.                                         *)
(*                                                                         *)
(* The shell, env_init and env_remove call access_var and remove_var,      *)
(* which call SYSENV_write and go on when it returns: frame is the call    *)
(* waiting for SYSENV_write, task the operation above it.                  *)
(***************************************************************************)
EXTENDS Sysenv, Sequences

CONSTANTS
    Names, Values,   \* variable names and values; Payloads, of Sysenv, are
                     \* the <<name, value>> pairs somebody may set
    TooLong,         \* a value that does not fit
    SystemVars,      \* what env_init sets up, in order: sequence of
                     \* [name, attr : "RO" | "RW" | "NONE", default];
                     \* "NONE": a variable this board does not have
    ValidValues      \* <<name, value>> pairs the variable's decoder accepts

\* What the constants have to be.
EnvAssumption ==
    /\ Payloads \subseteq Names \X Values
    /\ TooLong \notin Values
    /\ SystemVars \in Seq([name : Names, attr : {"RO", "RW", "NONE"}, default : Values])
    /\ \A k \in 1 .. Len(SystemVars) :
          <<SystemVars[k].name, SystemVars[k].default>> \in ValidValues \cap Payloads
    /\ \A j, k \in 1 .. Len(SystemVars) :
          j # k => SystemVars[j].name # SystemVars[k].name

VARIABLES
    env,              \* env_vars/env_var_info[0 .. env_var_count-1], as a sequence
    ext_priviliges,   \* TRUE while env_init may write RO variables
    env_corrupted,
    frame,            \* the access_var/remove_var waiting for SYSENV_write
    task,             \* the operation it works for
    orphaned          \* history: a variable was created, acknowledged, and
                      \* left out of env (access_var, index INDEX_REARRANGED)

envOnly == <<env, ext_priviliges, env_corrupted, frame, task, orphaned>>
evars   == <<vars, envOnly>>

NoDefault == TooLong     \* a NULL default_value

Entry == [name : Names, val : Values, index : Ids,
          attr : {"RO", "RW", "USER"}, default : Values \cup {NoDefault}]

NoFrame == [kind |-> "none"]
NoTask  == [kind |-> "none"]
Shell   == [kind |-> "shell"]
InitTask(s, k) == [kind |-> "init", default_switch |-> s, k |-> k]
RemoveTask(k, u, s) == [kind |-> "remove", k |-> k, user |-> u, system |-> s]

EnvInit ==
    /\ Init
    /\ env = << >>
    /\ ext_priviliges = FALSE
    /\ env_corrupted = FALSE
    /\ frame = NoFrame
    /\ task = NoTask
    /\ orphaned = FALSE

-----------------------------------------------------------------------------
\* Position of the first variable called n, 0 if there is none.
lookup_env(n) ==
    LET hits == {k \in 1 .. Len(env) : env[k].name = n}
    IN  IF hits = {} THEN 0 ELSE CHOOSE k \in hits : \A j \in hits : k <= j

\* env_to_flash: the lowest flash index no counted variable uses.
UsedIndices == {env[k].index : k \in 1 .. Len(env)}
FreeIndex   == CHOOSE i \in Ids \ UsedIndices : \A j \in Ids \ UsedIndices : i <= j

\* re_init: every variable found in flash sets the index of its namesake.
re_init(e) ==
    [k \in 1 .. Len(e) |->
        LET found == {i \in Ids : Readable(i) # Empty /\ Readable(i)[1] = e[k].name
                                  /\ lookup_env(e[k].name) = k}
        IN  IF found = {} THEN e[k]
            ELSE [e[k] EXCEPT !.index = CHOOSE i \in found : \A j \in found : j <= i]]

\* A USER variable that env_init names becomes a system variable.
Adopt(e, k, attr, default) ==
    IF e[k].attr = "USER"
    THEN [e EXCEPT ![k].attr = attr, ![k].default = default]
    ELSE e

\* remove_var: the last entry takes the place of the removed one.
DropEntry_KeepsRemoved(e, k) == SubSeq(e, 1, Len(e) - 1)
DropEntry(e, k) == SubSeq([e EXCEPT ![k] = e[Len(e)]], 1, Len(e) - 1)

\* env_remove's loop: the slot to look at next, e being the new env.
NextSlot_AlwaysSteps(t, e) == t.k + 1
NextSlot_NeverSteps(t, e) == t.k
NextSlot(t, e) == IF Len(e) = Len(env) THEN t.k + 1 ELSE t.k

\* access_var or remove_var, run for task t, returns r and leaves env = e:
\* env_init goes on whatever r is, env_remove while r is OK.
Return(t, e, r) ==
    /\ env' = e
    /\ frame' = NoFrame
    /\ env_corrupted' = (env_corrupted \/ (t.kind = "init" /\ r # "OK"))
    /\ task' = CASE t.kind = "init" -> [t EXCEPT !.k = @ + 1]
                 [] t.kind = "remove" /\ r # "OK" -> NoTask
                 [] t.kind = "remove" /\ r = "OK" -> [t EXCEPT !.k = NextSlot(t, e)]
                 [] OTHER -> NoTask
    /\ UNCHANGED ext_priviliges

\* It calls SYSENV_write instead, and waits in frame f.
Await(t, e, f) ==
    /\ env' = e
    /\ frame' = f
    /\ task' = t
    /\ UNCHANGED <<env_corrupted, ext_priviliges>>

Writable_NoGuard(k) == TRUE
Writable(k) == env[k].attr # "RO" \/ ext_priviliges

access_var(t, n, v, attr, default) ==
    LET k == lookup_env(n)
    IN  /\ \/ /\ v = TooLong
              /\ Return(t, env, "VAL_LEN")
              /\ UNCHANGED vars
           \/ /\ v # TooLong /\ k # 0 /\ ~Writable(k)
              /\ Return(t, env, "VAR_RO")
              /\ UNCHANGED vars
           \/ /\ v # TooLong /\ k # 0 /\ Writable(k) /\ env[k].val = v
              /\ Return(t, Adopt(env, k, attr, default), "OK")
              /\ UNCHANGED vars
           \/ /\ v # TooLong /\ k # 0 /\ Writable(k) /\ env[k].val # v
              /\ env[k].attr # "USER" /\ <<n, v>> \notin ValidValues
              /\ Return(t, env, "VAR_VALUE")
              /\ UNCHANGED vars
           \/ /\ v # TooLong /\ k # 0 /\ Writable(k) /\ env[k].val # v
              /\ env[k].attr = "USER" \/ <<n, v>> \in ValidValues
              /\ SYSENV_write(env[k].index, <<n, v>>)
              /\ Await(t, [env EXCEPT ![k].val = v],
                       [kind |-> "update", slot |-> k, old |-> env[k].val,
                        attr |-> attr, default |-> default])
           \/ /\ v # TooLong /\ k = 0
              /\ Len(env) = MaxIndex + 1 \/ Ids \subseteq UsedIndices
              /\ Return(t, env, "OVERFLOW")
              /\ UNCHANGED vars
           \/ /\ v # TooLong /\ k = 0
              /\ Len(env) < MaxIndex + 1 /\ ~(Ids \subseteq UsedIndices)
              /\ SYSENV_write(FreeIndex, <<n, v>>)
              /\ Await(t, env,
                       [kind |-> "create",
                        entry |-> [name |-> n, val |-> v, index |-> FreeIndex,
                                   attr |-> attr, default |-> default]])
        /\ UNCHANGED orphaned

\* SYSENV_write returned to access_var or remove_var.
FlashReturned ==
    /\ frame.kind # "none"
    /\ pc = "idle"
    /\ LET written   == rc \in {"OK", "UPDATE_READ_REFS"}
           rearranged == rc = "UPDATE_READ_REFS"
           fresh     == IF rearranged THEN re_init(env) ELSE env
       IN  \/ /\ frame.kind = "update" /\ written
              /\ Return(task, Adopt(fresh, frame.slot, frame.attr, frame.default), "OK")
              /\ UNCHANGED orphaned
           \/ /\ frame.kind = "update" /\ ~written
              /\ Return(task, [env EXCEPT ![frame.slot].val = frame.old], rc)
              /\ UNCHANGED orphaned
           \/ /\ frame.kind = "create" /\ written
              /\ Return(task, IF rearranged THEN fresh ELSE Append(env, frame.entry), "OK")
              /\ orphaned' = (orphaned \/ rearranged)
           \/ /\ frame.kind = "create" /\ ~written
              /\ Return(task, env, rc)
              /\ UNCHANGED orphaned
           \/ /\ frame.kind = "unset"             \* the return code is ignored
              /\ Return(task, DropEntry(env, frame.slot), "OK")
              /\ UNCHANGED orphaned
    /\ UNCHANGED vars

remove_var(t, k, user, system, error_on_ro) ==
    \/ /\ env[k].attr = "RW" /\ system
       /\ access_var(t, env[k].name, env[k].default, "RW", env[k].default)
    \/ /\ env[k].attr = "USER" /\ user
       /\ SYSENV_write(env[k].index, Empty)
       /\ Await(t, env, [kind |-> "unset", slot |-> k])
       /\ UNCHANGED orphaned
    \/ /\ \/ env[k].attr = "RW" /\ ~system
          \/ env[k].attr = "USER" /\ ~user
          \/ env[k].attr = "RO"
       /\ Return(t, env, IF env[k].attr = "RO" /\ error_on_ro THEN "VAR_RO" ELSE "OK")
       /\ UNCHANGED <<vars, orphaned>>

Quiet == pc = "idle" /\ frame = NoFrame

-----------------------------------------------------------------------------
\* Start-up: SYSENV_init, then env_init.
Boot ==
    \E s \in BOOLEAN :
        /\ SYSENV_init(s)
        /\ task' = [kind |-> "load", default_switch |-> s]
        /\ UNCHANGED <<env, ext_priviliges, env_corrupted, frame, orphaned>>

\* env_init, first half: take every variable SYSENV_read can deliver as USER.
\* A record that fails its check turns the layer off for the indices after it.
LoadEnvironment ==
    /\ Quiet
    /\ task.kind = "load"
    /\ LET broken == {i \in Ids : lookup[i] # NULL /\ ~CheckInuse(lookup[i], i)}
           usable == {i \in Ids : /\ SYSENV_state = "OK"
                                  /\ Readable(i) # Empty
                                  /\ \A j \in broken : i < j}
           nth(m) == CHOOSE i \in usable : Cardinality({j \in usable : j < i}) = m - 1
       IN  /\ env' = [m \in 1 .. Cardinality(usable) |->
                        [name |-> Readable(nth(m))[1], val |-> Readable(nth(m))[2],
                         index |-> nth(m), attr |-> "USER",
                         default |-> NoDefault]]
           /\ SYSENV_state' = IF broken # {} THEN "ERROR" ELSE SYSENV_state
    /\ ext_priviliges' = TRUE
    /\ env_corrupted' = FALSE
    /\ task' = InitTask(task.default_switch, 1)
    /\ UNCHANGED <<flash, lookup, ram_cache, next_free, pc, call, gc_index, rc, faults,
                   frame, orphaned>>

\* env_init, second half: attach the k-th system variable.
AttachSystemVar ==
    /\ Quiet
    /\ task.kind = "init"
    /\ task.k <= Len(SystemVars)
    /\ LET sv == SystemVars[task.k]
           k  == lookup_env(sv.name)
           keep == /\ sv.attr = "RW" /\ ~task.default_switch
                   /\ k # 0
                   /\ <<sv.name, env[k].val>> \in ValidValues
       IN  \/ /\ sv.attr # "NONE"
              /\ access_var(task, sv.name, IF keep THEN env[k].val ELSE sv.default,
                            sv.attr, sv.default)
           \/ /\ sv.attr = "NONE" /\ k # 0
              /\ remove_var(task, k, TRUE, TRUE, TRUE)
           \/ /\ sv.attr = "NONE" /\ k = 0
              /\ Return(task, env, "OK")
              /\ UNCHANGED <<vars, orphaned>>

EnvReady ==
    /\ Quiet
    /\ task.kind = "init"
    /\ task.k > Len(SystemVars)
    /\ ext_priviliges' = FALSE
    /\ task' = NoTask
    /\ UNCHANGED <<vars, env, env_corrupted, frame, orphaned>>

-----------------------------------------------------------------------------
\* Shell commands: setenv, unsetenv <name>, unsetenv -u / -s, erase.
setenv(n, v) ==
    /\ Quiet /\ task = NoTask
    /\ access_var(Shell, n, v, "USER", NoDefault)

unsetenv(n) ==
    /\ Quiet /\ task = NoTask
    /\ lookup_env(n) # 0
    /\ remove_var(Shell, lookup_env(n), TRUE, TRUE, TRUE)

env_remove(u, s) ==
    /\ Quiet /\ task = NoTask
    /\ task' = RemoveTask(1, u, s)
    /\ UNCHANGED <<vars, env, ext_priviliges, env_corrupted, frame, orphaned>>

RemoveNext ==
    /\ Quiet
    /\ task.kind = "remove"
    /\ task.k <= Len(env)
    /\ remove_var(task, task.k, task.user, task.system, FALSE)

RemoveDone ==
    /\ Quiet
    /\ task.kind = "remove"
    /\ task.k > Len(env)
    /\ task' = NoTask
    /\ UNCHANGED <<vars, env, ext_priviliges, env_corrupted, frame, orphaned>>

\* "erase -e" starts over on an empty area, unless the driver fails.
EraseAndReload ==
    /\ Quiet /\ task = NoTask
    /\ EraseEnvironment
    /\ task' = IF faults' # faults THEN NoTask
               ELSE [kind |-> "load", default_switch |-> FALSE]
    /\ UNCHANGED <<env, ext_priviliges, env_corrupted, frame, orphaned>>

\* Erasing the system flash also ends in env_init.
Reload ==
    /\ Quiet /\ task = NoTask
    /\ task' = [kind |-> "load", default_switch |-> FALSE]
    /\ UNCHANGED <<vars, env, ext_priviliges, env_corrupted, frame, orphaned>>

EnvReset ==
    /\ Reset \/ PowerCut
    /\ env' = << >>
    /\ ext_priviliges' = FALSE
    /\ env_corrupted' = FALSE
    /\ frame' = NoFrame
    /\ task' = NoTask
    /\ UNCHANGED orphaned

SysenvStep == (CollectErase \/ CollectCopy \/ StoreRecord) /\ UNCHANGED envOnly

EnvInternal ==
    \/ SysenvStep \/ FlashReturned
    \/ Boot \/ LoadEnvironment \/ AttachSystemVar \/ EnvReady
    \/ RemoveNext \/ RemoveDone

EnvNext ==
    \/ EnvInternal
    \/ \E p \in Payloads : setenv(p[1], p[2])
    \/ \E n \in Names : setenv(n, TooLong)
    \/ \E n \in Names : unsetenv(n)
    \/ \E u, s \in BOOLEAN : env_remove(u, s)
    \/ EraseAndReload
    \/ Reload
    \/ EnvReset

EnvSpec == EnvInit /\ [][EnvNext]_evars

\* Each command and the start-up run to completion: the monitor is one thread.
EnvFairSpec == EnvSpec /\ WF_evars(EnvInternal)

-----------------------------------------------------------------------------
\* The variables have their types.
EnvTypeOK ==
    /\ TypeOK
    /\ env \in Seq(Entry) /\ Len(env) <= MaxIndex + 1
    /\ ext_priviliges \in BOOLEAN /\ env_corrupted \in BOOLEAN /\ orphaned \in BOOLEAN
    /\ frame.kind \in {"none", "update", "create", "unset"}
    /\ frame.kind = "create" => frame.entry \in Entry
    /\ frame.kind \in {"update", "unset"} => frame.slot \in 1 .. Len(env)
    /\ task.kind \in {"none", "shell", "load", "init", "remove"}

\* Between commands the variables in RAM and the variables in flash are the
\* same, each under the index its entry holds, wherever power was cut - as
\* long as no operation of the flash driver has failed and no creation has
\* run into a collection (orphaned: the variable then is in flash and not in
\* RAM until the next start-up).
EnvMirrorsFlash ==
    (Quiet /\ DriverWorks /\ SYSENV_state = "OK" /\ task.kind # "load" /\ ~orphaned) =>
        /\ \A k \in 1 .. Len(env) : Readable(env[k].index) = <<env[k].name, env[k].val>>
        /\ \A i \in Ids : Readable(i) # Empty => i \in UsedIndices
        /\ \A j, k \in 1 .. Len(env) :
              j # k => env[j].index # env[k].index /\ env[j].name # env[k].name

\* The variables in RAM have their types and are those in flash.
TableMirrorsLog == EnvTypeOK /\ EnvMirrorsFlash

\* Once start-up is over and reported no trouble, every system variable is
\* there with its attribute, an RO variable has the value env_init gave it
\* and an RW variable one its decoder accepts, whatever the shell does and
\* whatever the flash does under it.
SystemVarsInForce ==
    (pc # "off" /\ task.kind \in {"none", "shell", "remove"} /\ ~env_corrupted /\ ~orphaned) =>
        \A s \in 1 .. Len(SystemVars) :
            SystemVars[s].attr # "NONE" =>
                \E k \in 1 .. Len(env) :
                    /\ env[k].name = SystemVars[s].name
                    /\ env[k].attr = SystemVars[s].attr
                    /\ env[k].attr = "RO" => env[k].val = SystemVars[s].default
                    /\ <<env[k].name, env[k].val>> \in ValidValues

\* unsetenv -u / -s that runs through leaves no USER variable, and every RW
\* variable at its default, although removal moves the last entry into the
\* slot the loop stands on.
RemovalIsComplete ==
    (/\ task.kind = "remove" /\ task.k > Len(env) /\ task' = NoTask /\ pc' # "off"
     /\ DriverWorks /\ ~orphaned) =>
        \A k \in 1 .. Len(env) :
            /\ task.user => env[k].attr # "USER"
            /\ (task.system /\ env[k].attr = "RW") => env[k].val = env[k].default
AllIsRemoved == [][RemovalIsComplete]_evars

\* Every command, and start-up, comes to an end.
CommandsFinish == (task # NoTask) ~> (task = NoTask)
=============================================================================
