------------------------------- MODULE Users --------------------------------
(***************************************************************************)
(* User accounts, kernel/core/users.c, and the programs' system calls on   *)
(* accounts and files together.  The accounts live in memory and in the    *)
(* UFS file .passwd, which persist truncates or creates and then writes as *)
(* a whole; the power may go between its calls of UFS.  A record of the    *)
(* file is one byte of the model, and all records fill one sector, as in   *)
(* the code.                                                               *)
(*                                                                         *)
(* Mixes keeps the instances small: the programs of a behaviour make the   *)
(* calls of one mix, on its file names and with its lengths, and at most   *)
(* its number of them.  A mix removes behaviours and adds none.            *)
(***************************************************************************)
EXTENDS Files

CONSTANTS
    USER_MAX_ACCOUNTS,  \* 16 in the code
    Root, User,         \* the names of the default accounts
    Logins,             \* user names that programs give
    Passwords,          \* passwords that programs give
    hash_password,      \* hash_password[w]: 32-bit FNV-1a; passwords may collide
    UserUid,            \* the uid of the account User, 1000 in the code
    NewUids,            \* uids that SYS_ADDUSER is given
    Mixes,              \* records [kinds, names, lens, max]
    MaxPowerLosses

ASSUME UsersAssumption ==
    /\ USER_MAX_ACCOUNTS \in Nat /\ USER_MAX_ACCOUNTS >= 2
    /\ Root # User /\ {Root, User} \subseteq Logins
    /\ {Root, User} \subseteq Passwords     \* the default passwords are the names
    /\ hash_password \in [Passwords -> Nat]
    /\ UserUid \in Nat \ {0} /\ NewUids \subseteq Nat
    /\ MaxPowerLosses \in Nat
    /\ \A m \in Mixes : m.names \subseteq Names /\ m.lens \subseteq Nat /\ m.max \in Nat

VARIABLES
    accounts,
    pc,         \* where the kernel is: "off", in persist ("open", "chmod",
                \* "write"), or "run", between two system calls
    acked,      \* history: the accounts that a restart must find
    mix, calls, losses

userVars == <<accounts, acked>>
vars == <<fileVars, accounts, pc, acked, mix, calls, losses>>

NoAccount == [user |-> NoName, uid |-> 0, hash |-> 0]
Slots == 0..(USER_MAX_ACCOUNTS - 1)
Blank == [i \in Slots |-> NoAccount]

Account(name, u, password) == [user |-> name, uid |-> u, hash |-> hash_password[password]]

seed_defaults == [Blank EXCEPT ![0] = Account(Root, 0, Root), ![1] = Account(User, UserUid, User)]

-----------------------------------------------------------------------------
(* persist, one call of UFS at a time *)

PersistCreates ==
    /\ pc = "open"
    /\ ufs_create(PASSWD_FILE, 0)
    /\ pc' = "chmod"
    /\ actor' = "kernel"
    /\ UNCHANGED <<entries, fds, uid, leaks, written, userVars, mix, calls, losses>>

PersistTruncates ==
    /\ pc = "open"
    /\ \E s \in ufs_find(PASSWD_FILE) : ufs_truncate(s)
    /\ pc' = "write"
    /\ actor' = "kernel"
    /\ UNCHANGED <<entries, fds, uid, leaks, written, userVars, mix, calls, losses>>

PersistChmods ==
    /\ pc = "chmod"
    /\ \E s \in ufs_find(PASSWD_FILE) : ufs_chmod(s, {})
    /\ pc' = "write"
    /\ actor' = "kernel"
    /\ UNCHANGED <<entries, fds, uid, leaks, written, userVars, mix, calls, losses>>

PersistWrites ==
    /\ pc = "write"
    /\ \E s \in ufs_find(PASSWD_FILE) : ufs_write_at(s, 0, USER_MAX_ACCOUNTS, accounts)
    /\ pc' = "run"
    /\ actor' = "kernel"
    /\ acked' = accounts
    /\ UNCHANGED <<entries, fds, uid, leaks, written, accounts, mix, calls, losses>>

persist == PersistCreates \/ PersistTruncates \/ PersistChmods \/ PersistWrites

-----------------------------------------------------------------------------
(* Power on, and off *)

(* Mutant of PasswdFound: the size of the file is not checked. *)
PasswdFoundAnySize == ufs_find(PASSWD_FILE)

PasswdFound == {s \in ufs_find(PASSWD_FILE) : directory[s].size = USER_MAX_ACCOUNTS}

(* The table after users_init has read the file into a buffer of zeros *)
Loaded(s) ==
    LET got == ufs_read_at(s, 0, USER_MAX_ACCOUNTS)
    IN  [i \in Slots |-> IF i \in DOMAIN got THEN got[i].val ELSE NoAccount]

users_init ==
    /\ pc = "off"
    /\ \/ /\ PasswdFound # {}
          /\ accounts' = Loaded(Lowest(PasswdFound))
          /\ pc' = "run"
       \/ /\ PasswdFound = {}
          /\ accounts' = seed_defaults
          /\ pc' = "open"
    /\ actor' = "kernel"
    /\ UNCHANGED <<entries, ufsVars, fds, uid, inc, incs, stray, leaks, written, acked, mix, calls, losses>>

(* The power goes: memory is lost, and with it the accounts that were being *)
(* written.                                                                 *)
PowerLoss ==
    /\ pc # "off" /\ losses < MaxPowerLosses
    /\ losses' = losses + 1
    /\ pc' = "off"
    /\ entries' = kmalloc(0)
    /\ written' = [n \in Names |-> <<>>]
    /\ fds' = [p \in Procs |-> [f \in Fds |-> Unused]]
    /\ uid' = [p \in Procs |-> 0]
    /\ accounts' = Blank
    /\ acked' = IF pc \in {"chmod", "write"} THEN seed_defaults ELSE acked
    /\ actor' = "kernel"
    /\ UNCHANGED <<ufsVars, inc, incs, stray, leaks, mix, calls>>

-----------------------------------------------------------------------------
(* System calls on accounts *)

(* The account that users_authenticate finds, if the password is right *)
users_authenticate(name, password) ==
    LET named == {i \in Slots : accounts[i].user = name}
    IN  {i \in named : i = Lowest(named) /\ accounts[i].hash = hash_password[password]}

SYS_LOGIN(p) == \E name \in Logins, password \in Passwords :
    \E i \in users_authenticate(name, password) :
        /\ uid' = [uid EXCEPT ![p] = accounts[i].uid]
        /\ UNCHANGED <<entries, ufsVars, fds, inc, incs, stray, leaks, written, userVars, pc>>

users_add(name, password, u) ==
    LET free == {i \in Slots : accounts[i].user = NoName}
    IN  /\ \A i \in Slots : accounts[i].user # name
        /\ free # {}
        /\ accounts' = [accounts EXCEPT ![Lowest(free)] = Account(name, u, password)]
        /\ pc' = "open"

SYS_ADDUSER(p) ==
    /\ uid[p] = 0
    /\ \E name \in Logins, password \in Passwords, u \in NewUids : users_add(name, password, u)
    /\ UNCHANGED <<entries, ufsVars, fds, uid, inc, incs, stray, leaks, written, acked>>

-----------------------------------------------------------------------------
Stays == UNCHANGED <<userVars, pc>>

(* fd_open, fd_read and fd_write by file system, and the calls by name *)
UfsOpen(p) == \E name \in mix.names :
    \/ OpenCreates(p, name) /\ Stays
    \/ OpenFinds(p, name) /\ Stays
    \/ OpenTruncates(p, name) /\ Stays

MemOpen(p) == \E name \in mix.names :
    \/ MemOpenFinds(p, name) /\ Stays
    \/ MemOpenCreates(p, name) /\ Stays
    \/ MemOpenFails(p, name) /\ Stays

Call(p, kind) ==
    \/ kind = "ufs" /\ UfsOpen(p)
    \/ kind = "ufs" /\ \E f \in Fds, len \in mix.lens : UfsRead(p, f, len) /\ Stays
    \/ kind = "ufs" /\ \E f \in Fds, len \in mix.lens : UfsWrite(p, f, len) /\ Stays
    \/ kind = "memfs" /\ MemOpen(p)
    \/ kind = "memfs" /\ \E f \in Fds, len \in mix.lens : MemRead(p, f, len) /\ Stays
    \/ kind = "memfs" /\ \E f \in Fds, len \in mix.lens : MemWrite(p, f, len) /\ Stays
    \/ kind = "close" /\ \E f \in Fds : fd_close(p, f) /\ Stays
    \/ kind = "remove" /\ \E name \in mix.names : SYS_REMOVE(p, name) /\ Stays
    \/ kind = "chmod" /\ \E name \in mix.names, perm \in Perms : SYS_CHMOD(p, name, perm) /\ Stays
    \/ kind = "login" /\ SYS_LOGIN(p)
    \/ kind = "adduser" /\ SYS_ADDUSER(p)

syscall_handler(p) ==
    /\ pc = "run" /\ calls < mix.max
    /\ \E kind \in mix.kinds : Call(p, kind)
    /\ calls' = calls + 1
    /\ actor' = p
    /\ UNCHANGED <<mix, losses>>

Init ==
    /\ entries = kmalloc(0)
    /\ directory = [s \in UfsSlots |-> NoEntry]
    /\ next_free_lba = UFS_DATA_LBA
    /\ data = [a \in DataBytes |-> Nobody]
    /\ fds = [p \in Procs |-> [f \in Fds |-> Unused]]
    /\ uid = [p \in Procs |-> 0]
    /\ inc = [s \in UfsSlots |-> 0]
    /\ incs = 0
    /\ stray = NoStray /\ leaks = {}
    /\ written = [n \in Names |-> <<>>]
    /\ actor = "kernel"
    /\ accounts = Blank
    /\ pc = "off"
    /\ acked = seed_defaults
    /\ mix \in Mixes /\ calls = 0 /\ losses = 0

Next == persist \/ users_init \/ PowerLoss \/ \E p \in Procs : syscall_handler(p)

Spec == Init /\ [][Next]_vars

-----------------------------------------------------------------------------
(* Types of the whole state *)
TypeOK ==
    /\ FilesTypeOK
    /\ accounts \in [Slots -> [user : Logins \cup {NoName}, uid : Nat, hash : Nat]]
    /\ pc \in {"off", "open", "chmod", "write", "run"}
    /\ calls \in 0..mix.max /\ losses \in 0..MaxPowerLosses

(* Whenever the kernel runs programs, the accounts are the ones it         *)
(* acknowledged last, in memory and in .passwd, across restarts; when the  *)
(* power went while persist was writing they are the two defaults and      *)
(* nothing else (users.c:89, 119): no partial table, no account of an      *)
(* earlier table, nothing a program wrote through a descriptor it opened   *)
(* as another user.                                                        *)
AccountsSurvive ==
    /\ TypeOK
    /\ pc = "run" => /\ accounts = acked
                     /\ PasswdFound # {} /\ Loaded(Lowest(PasswdFound)) = acked

=============================================================================
