---------------------------- MODULE DaemonProof -----------------------------
(* What holds of the daemon however many of them share a host-key file,    *)
(* however many connections share a signer, and wherever any of them is    *)
(* killed; and of the SFTP server and client that its sessions run,        *)
(* whatever other sessions do to the files in the middle of a transfer:    *)
(* theorems about modules Daemon and Sftp for every value of their         *)
(* constants.                                                              *)
EXTENDS Daemon, Sftp, SequenceTheorems, FiniteSetTheorems, TLAPS

-----------------------------------------------------------------------------
(* The inductive invariant, part by part.                                  *)

\* The credentials a process can have, and what a connection's record holds.
UserNames == Users \cup {"root", "nobody", "shhd"}
Creds == [uid : UserNames, gid : UserNames, groups : UserNames]
Hashes == [conn : Conns, n : Nat]
Replies == [hash : Hashes, key : Nat \cup {None}]
Points ==
    {"none", "closed", "sign", "locked", "waiting", "signed", "auth", "session"}
ConnRecord ==
    [at : Points, of : Daemons \cup {None}, signs : Nat,
     sig : [hash : Hashes \cup {None}, key : Nat \cup {None}] \cup {None},
     login : Users \cup {None}, account : Creds \cup {None}]

MainPoints ==
    {"off", "exists", "read", "create", "write", "bind", "fork", "drop", "serve"}

KeyFiles ==
    [state : {"absent", "empty", "written", "torn"}, key : Nat \cup {None}]

TypeOK ==
    /\ args \in Configs
    /\ starts \in Nat
    /\ pc \in [Daemons -> MainPoints]
    /\ key \in [Daemons -> Nat \cup {None}]
    /\ public \in [Daemons -> Nat \cup {None}]
    /\ file \in KeyFiles
    /\ cred \in [Daemons -> Creds]
    /\ signer \in [Daemons -> {"none", "up", "gone"}]
    /\ lock \in [Daemons -> Conns \cup {None}]
    /\ busy \in [Daemons -> SUBSET Hashes]
    /\ toSigner \in [Daemons -> Seq(Hashes)]
    /\ fromSigner \in [Daemons -> Seq(Replies)]
    /\ conn \in [Conns -> ConnRecord]

\* Where the key of a start comes from: one start writes the file, a start
\* past it has the file's key, and nothing else was ever shown to a client.
Written(k) == file = [state |-> "written", key |-> k]
KeyInv ==
    /\ \A d \in Daemons :
          /\ pc[d] = "write" => file.state = "empty"
          /\ pc[d] = "bind" => Written(key[d])
          /\ pc[d] \in {"fork", "drop", "serve"} => Written(public[d])
    /\ \A d, e \in Daemons : pc[d] = "write" /\ pc[e] = "write" => d = e
    /\ \A k \in served : Written(k)

\* A daemon's own privileges, and where its key is.
StartCred(d) == IF args[d].root THEN Root ELSE As("shhd")
CredInv ==
    \A d \in Daemons :
        /\ pc[d] \notin {"off", "serve"} => cred[d] = StartCred(d)
        /\ pc[d] = "serve" =>
              cred[d] = IF MustDrop(d) THEN As(Nobody) ELSE StartCred(d)
        /\ pc[d] \in {"drop", "serve"} /\ Privsep(d) => key[d] = None
        /\ pc[d] \in {"fork", "drop", "serve"} /\ ~Privsep(d) => key[d] = public[d]

\* The account of a session, which a rekey takes along.
AccountOk(c) ==
    LET a == conn[c].account
    IN  "root" \in {a.uid, a.gid, a.groups} =>
           \/ conn[c].login = "root"
           \/ args[Of(c)].no_privilege_drop /\ ~args[Of(c)].sandbox
AccountInv ==
    \A c \in Conns : Of(c) # None =>
        /\ pc[Of(c)] = "serve"
        /\ conn[c].at = "session" => AccountOk(c)
        /\ conn[c].signs # 1 => AccountOk(c)

\* One round trip at a time: whatever is on the socket of a signer that
\* answers is for the connection that holds the lock.
Waiting(d) ==
    lock[d] \in Conns /\ conn[lock[d]].at = "waiting" /\ conn[lock[d]].of = d
Socket(d) ==
    /\ fromSigner[d] # <<>> =>
          /\ Waiting(d)
          /\ fromSigner[d] = <<Signature(Hash(lock[d]), public[d])>>
          /\ busy[d] = {}
          /\ signer[d] = "up" => toSigner[d] = <<>>
    /\ busy[d] # {} =>
          /\ signer[d] = "up" /\ Waiting(d)
          /\ busy[d] = {Hash(lock[d])}
          /\ toSigner[d] = <<>> /\ fromSigner[d] = <<>>
    /\ toSigner[d] # <<>> /\ signer[d] = "up" =>
          /\ Waiting(d)
          /\ toSigner[d] = <<Hash(lock[d])>>
          /\ busy[d] = {} /\ fromSigner[d] = <<>>
SocketInv == \A d \in Daemons : pc[d] \in {"drop", "serve"} => Socket(d)
LockInv ==
    \A c \in Conns : Of(c) # None /\ conn[c].at \in {"locked", "waiting"} =>
        lock[Of(c)] = c
SignedInv ==
    \A c \in Conns : Of(c) # None /\ conn[c].at = "signed" =>
        conn[c].sig = Empty \/ Verifies(c)

-----------------------------------------------------------------------------
(* Types.                                                                  *)

\* All three calls together leave nothing of the credentials before.
LEMMA DroppedIsAs ==
    ASSUME NEW x, NEW a PROVE Dropped(x, a) = As(a)
  BY DEF Dropped, setgid, initgroups, setuid, As

\* Every variable starts with its type.
LEMMA InitType == ASSUME Init PROVE TypeOK
<1>1. Root \in Creds
  BY DEF Root, As, Creds, UserNames
<1>2. Unused \in ConnRecord
  BY DEF Unused, ConnRecord, Points
<1>3. /\ args \in Configs /\ starts \in Nat /\ file \in KeyFiles
      /\ pc \in [Daemons -> MainPoints] /\ signer \in [Daemons -> {"none", "up", "gone"}]
  BY DEF Init, MainPoints, KeyFiles
<1>4. /\ key \in [Daemons -> Nat \cup {None}] /\ public \in [Daemons -> Nat \cup {None}]
      /\ lock \in [Daemons -> Conns \cup {None}]
  BY DEF Init
<1>5. busy \in [Daemons -> SUBSET Hashes]
  BY DEF Init
<1>6. toSigner \in [Daemons -> Seq(Hashes)]
  BY DEF Init
<1>7. fromSigner \in [Daemons -> Seq(Replies)]
  BY DEF Init
<1>8. cred \in [Daemons -> Creds] /\ conn \in [Conns -> ConnRecord]
  BY <1>1, <1>2 DEF Init
<1>. QED
  BY <1>3, <1>4, <1>5, <1>6, <1>7, <1>8 DEF TypeOK

\* The end of a daemon keeps all types.
LEMMA ExitType ==
    ASSUME TypeOK, NEW d \in Daemons, Exit(d),
           starts' = starts, file' \in KeyFiles
    PROVE  TypeOK'
<1>1. Closed \in ConnRecord
  BY DEF Closed, Unused, ConnRecord, Points
<1>2. conn' \in [Conns -> ConnRecord]
  BY <1>1 DEF Exit, TypeOK
<1>. QED
  BY <1>2 DEF Exit, Goto, TypeOK, MainPoints

\* The steps of a daemon that goes on.
LEMMA MainType ==
    ASSUME TypeOK, NEW d \in Daemons,
           \/ Start(d) \/ KeyExists(d) \/ ReadKey(d) \/ CreateKey(d) \/ WriteKey(d)
           \/ Bind(d) \/ Fork(d) \/ DropPrivileges(d)
    PROVE  TypeOK'
<1>. USE DEF TypeOK, Goto, startVars, signerVars, keyVars, MainPoints
<1>1. CASE Start(d)
  <2>1. Root \in Creds /\ As("shhd") \in Creds
    BY DEF Root, As, Creds, UserNames
  <2>2. starts' \in Nat
    BY <1>1 DEF Start
  <2>3. cred' \in [Daemons -> Creds] /\ pc' \in [Daemons -> MainPoints]
    BY <1>1, <2>1 DEF Start
  <2>. QED
    BY <1>1, <2>2, <2>3 DEF Start
<1>2. CASE KeyExists(d)
  BY <1>2 DEF KeyExists
<1>3. CASE ReadKey(d)
  BY <1>3 DEF ReadKey, KeyFiles
<1>4. CASE CreateKey(d)
  BY <1>4 DEF CreateKey, KeyFiles
<1>5. CASE WriteKey(d)
  BY <1>5 DEF WriteKey, KeyFiles
<1>6. CASE Bind(d)
  BY <1>6 DEF Bind
<1>7. CASE Fork(d)
  <2>1. busy' \in [Daemons -> SUBSET Hashes]
    BY <1>7 DEF Fork
  <2>2. toSigner' \in [Daemons -> Seq(Hashes)]
    BY <1>7 DEF Fork
  <2>3. fromSigner' \in [Daemons -> Seq(Replies)]
    BY <1>7 DEF Fork
  <2>. QED
    BY <1>7, <2>1, <2>2, <2>3 DEF Fork
<1>8. CASE DropPrivileges(d)
  <2>1. Dropped(cred[d], Nobody) \in Creds
    BY DroppedIsAs DEF As, Nobody, Creds, UserNames
  <2>. QED
    BY <1>8, <2>1 DEF DropPrivileges
<1>. QED
  BY <1>1, <1>2, <1>3, <1>4, <1>5, <1>6, <1>7, <1>8

\* The steps that end a daemon.
Ends(d) ==
    BadKey(d) \/ CreateLost(d) \/ WriteFails(d) \/ BindFails(d) \/ DropFails(d) \/ Killed(d)

\* A daemon that ends leaves the file alone, unless it was writing it.
LEMMA EndsExit ==
    ASSUME NEW d \in Daemons, Ends(d)
    PROVE  /\ Exit(d) /\ UNCHANGED <<starts, served>>
           /\ \/ UNCHANGED file
              \/ pc[d] = "write" /\ file' = [state |-> "torn", key |-> None]
  BY DEF Ends, BadKey, CreateLost, WriteFails, BindFails, DropFails, Killed, keyVars

\* The steps of a signer.
LEMMA SignerType ==
    ASSUME TypeOK, NEW d \in Daemons, Signer(d) \/ SignerDies(d)
    PROVE  TypeOK'
<1>. USE DEF TypeOK, signerRest, keyVars, mainVars
<1>1. CASE Serve(d)
  <2>1. Head(toSigner[d]) \in Hashes /\ Tail(toSigner[d]) \in Seq(Hashes)
    BY <1>1 DEF Serve
  <2>. QED
    BY <1>1, <2>1 DEF Serve
<1>2. CASE Respond(d)
  <2>1. PICK h \in busy[d] :
          fromSigner' = [fromSigner EXCEPT ![d] = Append(@, Signature(h, public[d]))]
    BY <1>2 DEF Respond
  <2>2. Signature(h, public[d]) \in Replies
    BY <2>1 DEF Signature, Replies
  <2>3. Append(fromSigner[d], Signature(h, public[d])) \in Seq(Replies)
    BY <2>2
  <2>4. fromSigner' \in [Daemons -> Seq(Replies)]
    BY <2>1, <2>3
  <2>. QED
    BY <1>2, <2>4 DEF Respond
<1>3. CASE SignerEnds(d)
  BY <1>3 DEF SignerEnds
<1>4. CASE SignerDies(d)
  BY <1>4 DEF SignerDies
<1>. QED
  BY <1>1, <1>2, <1>3, <1>4 DEF Signer

\* The steps of a connection: it changes its own record, and of the rest only
\* the lock and the socket.
LEMMA ConnType ==
    ASSUME TypeOK, NEW c \in Conns,
           Connection(c) \/ Rekey(c) \/ \E u \in Users : Authenticated(c, u)
    PROVE  TypeOK'
<1>. USE DEF TypeOK, connRest, signerVars, keyVars, mainVars
<1>a. conn[c] \in ConnRecord
  OBVIOUS
<1>b. ASSUME NEW p \in Points PROVE [conn[c] EXCEPT !.at = p] \in ConnRecord
  BY <1>a DEF ConnRecord
<1>c. ASSUME NEW x \in [hash : Hashes \cup {None}, key : Nat \cup {None}]
      PROVE  [conn[c] EXCEPT !.at = "signed", !.sig = x] \in ConnRecord
  BY <1>a DEF ConnRecord, Points
<1>d. Of(c) # None => Of(c) \in Daemons
  BY <1>a DEF Of, ConnRecord
<1>e. Hash(c) \in Hashes
  BY <1>a DEF Hash, Hashes, ConnRecord
<1>f. ASSUME NEW n \in Nat
      PROVE  [conn[c] EXCEPT !.at = "sign", !.signs = n] \in ConnRecord
  BY <1>a DEF ConnRecord, Points
<1>1. CASE SignHere(c)
  <2>1. Signature(Hash(c), key[Of(c)]) \in [hash : Hashes \cup {None}, key : Nat \cup {None}]
    BY <1>1, <1>d, <1>e DEF SignHere, In, Signature
  <2>2. conn' = [conn EXCEPT ![c] = [conn[c] EXCEPT !.at = "signed",
                                        !.sig = Signature(Hash(c), key[Of(c)])]]
    BY <1>1 DEF SignHere, Signed
  <2>. QED
    BY <1>1, <1>c, <2>1, <2>2 DEF SignHere
<1>2. CASE TakeLock(c)
  <2>1. conn' = [conn EXCEPT ![c] = [conn[c] EXCEPT !.at = "locked"]]
    BY <1>2 DEF TakeLock, ConnAt
  <2>. QED
    BY <1>2, <1>b, <1>d, <2>1 DEF TakeLock, In, Points
<1>3. CASE RequestFrame(c)
  <2>1. conn' = [conn EXCEPT ![c] = [conn[c] EXCEPT !.at = "waiting"]]
    BY <1>3 DEF RequestFrame, ConnAt
  <2>2. Append(toSigner[Of(c)], Hash(c)) \in Seq(Hashes)
    BY <1>3, <1>d, <1>e DEF RequestFrame, In
  <2>3. toSigner' \in [Daemons -> Seq(Hashes)]
    BY <1>3, <1>d, <2>2 DEF RequestFrame, In
  <2>. QED
    BY <1>3, <1>b, <2>1, <2>3 DEF RequestFrame, Points
<1>4. CASE ReplyFrame(c)
  <2>1. Head(fromSigner[Of(c)]) \in Replies /\ Tail(fromSigner[Of(c)]) \in Seq(Replies)
    BY <1>4, <1>d DEF ReplyFrame, In
  <2>2. conn' = [conn EXCEPT ![c] = [conn[c] EXCEPT !.at = "signed",
                                        !.sig = Head(fromSigner[Of(c)])]]
    BY <1>4 DEF ReplyFrame, Signed
  <2>3. fromSigner' \in [Daemons -> Seq(Replies)] /\ lock' \in [Daemons -> Conns \cup {None}]
    BY <1>4, <1>d, <2>1 DEF ReplyFrame, In
  <2>4. conn' \in [Conns -> ConnRecord]
    BY <1>c, <2>1, <2>2 DEF Replies
  <2>. QED
    BY <1>4, <2>3, <2>4 DEF ReplyFrame
<1>5. CASE RequestFails(c)
  <2>1. Empty \in [hash : Hashes \cup {None}, key : Nat \cup {None}]
    BY DEF Empty
  <2>2. conn' = [conn EXCEPT ![c] = [conn[c] EXCEPT !.at = "signed", !.sig = Empty]]
    BY <1>5 DEF RequestFails, Signed
  <2>. QED
    BY <1>5, <1>c, <1>d, <2>1, <2>2 DEF RequestFails, NoSigner, In
<1>6. CASE Checked(c)
  <2>1. Closed \in ConnRecord
    BY DEF Closed, Unused, ConnRecord, Points
  <2>2. \A p \in Points : [conn[c] EXCEPT !.at = p, !.sig = None] \in ConnRecord
    BY <1>a DEF ConnRecord
  <2>3. \/ conn' = [conn EXCEPT ![c] = Closed]
        \/ \E p \in Points : conn' = [conn EXCEPT ![c] = [conn[c] EXCEPT !.at = p, !.sig = None]]
    BY <1>6 DEF Checked, Points
  <2>. QED
    BY <1>6, <2>1, <2>2, <2>3 DEF Checked
<1>7. CASE Rekey(c)
  <2>1. [conn[c] EXCEPT !.at = "sign", !.signs = @ + 1] \in ConnRecord
    <3>1. conn[c].signs + 1 \in Nat
      BY <1>a DEF ConnRecord
    <3>. QED
      BY <3>1, <1>f
  <2>2. conn' = [conn EXCEPT ![c] = [conn[c] EXCEPT !.at = "sign", !.signs = @ + 1]]
    BY <1>7 DEF Rekey
  <2>. QED
    BY <1>7, <2>1, <2>2 DEF Rekey
<1>8. ASSUME NEW u \in Users, Authenticated(c, u) PROVE TypeOK'
  <2>1. Closed \in ConnRecord
    BY DEF Closed, Unused, ConnRecord, Points
  <2>. DEFINE a == CHOOSE x \in SessionCred(Of(c), u) : TRUE
  <2>2. CASE SessionCred(Of(c), u) = {}
    BY <1>8, <2>1, <2>2 DEF Authenticated
  <2>3. CASE SessionCred(Of(c), u) # {}
    <3>1. a \in SessionCred(Of(c), u)
      BY <2>3
    <3>2. Of(c) \in Daemons
      BY <1>8, <1>d DEF Authenticated, In
    <3>3. SessionCred(Of(c), u) \subseteq Creds
      BY <3>2, DroppedIsAs DEF SessionCred, As, Creds, UserNames
    <3>4. [conn[c] EXCEPT !.at = "session", !.login = u, !.account = a] \in ConnRecord
      <4>1. a \in Creds
        BY <3>1, <3>3
      <4>. HIDE DEF a
      <4>. QED
        BY <1>a, <4>1 DEF ConnRecord, Points
    <3>5. conn' = [conn EXCEPT ![c] =
                      [conn[c] EXCEPT !.at = "session", !.login = u, !.account = a]]
      BY <1>8, <2>3 DEF Authenticated
    <3>6. conn' \in [Conns -> ConnRecord]
      BY <3>4, <3>5
    <3>. QED
      BY <1>8, <3>6 DEF Authenticated
  <2>. QED
    BY <2>2, <2>3
<1>. QED
  BY <1>1, <1>2, <1>3, <1>4, <1>5, <1>6, <1>7, <1>8 DEF Connection

\* Every step keeps all types.
LEMMA TypeKept == ASSUME TypeOK, [Next]_vars PROVE TypeOK'
<1>1. ASSUME NEW d \in Daemons, Ends(d) PROVE TypeOK'
  <2>1. file' \in KeyFiles
    BY <1>1, EndsExit DEF TypeOK, KeyFiles
  <2>. QED
    BY <1>1, <2>1, EndsExit, ExitType
<1>2. ASSUME NEW d \in Daemons, NEW c \in Conns, Accept(d, c) PROVE TypeOK'
  <2>1. [conn[c] EXCEPT !.at = "sign", !.of = d, !.signs = 1] \in ConnRecord
    BY ZenonT(60) DEF TypeOK, ConnRecord, Points
  <2>2. conn' = [conn EXCEPT ![c] = [conn[c] EXCEPT !.at = "sign", !.of = d, !.signs = 1]]
    BY <1>2 DEF Accept
  <2>. QED
    BY <1>2, <2>1, <2>2 DEF Accept, TypeOK, mainVars, signerVars
<1>3. CASE UNCHANGED vars
  BY <1>3 DEF vars, keyVars, mainVars, signerVars, TypeOK
<1>. QED
  BY <1>1, <1>2, <1>3, MainType, SignerType, ConnType DEF Next, Main, Ends

-----------------------------------------------------------------------------
(* The host key.                                                           *)

\* What connections and signers leave alone.
LEMMA ConnFrame ==
    ASSUME NEW c \in Conns,
           Connection(c) \/ Rekey(c) \/ \E u \in Users : Authenticated(c, u)
    PROVE  UNCHANGED <<args, file, starts, served, pc, key, cred, public>>
  BY DEF Connection, SignHere, TakeLock, RequestFrame, ReplyFrame, RequestFails, Checked,
         Rekey, Authenticated, connRest, keyVars, mainVars

\* The signer's steps touch nothing of the daemons and their connections.
LEMMA SignerFrame ==
    ASSUME NEW d \in Daemons, Signer(d) \/ SignerDies(d)
    PROVE  UNCHANGED <<args, file, starts, served, pc, key, cred, public, conn, lock>>
  BY DEF Signer, Serve, Respond, SignerEnds, SignerDies, signerRest, keyVars, mainVars

\* Every step keeps what is known of the key file and of the keys in memory.
LEMMA KeyKept == ASSUME TypeOK, KeyInv, [Next]_vars PROVE KeyInv'
<1>. USE DEF KeyInv, Written
<1>1. ASSUME NEW d \in Daemons, Ends(d) PROVE KeyInv'
  <2>1. /\ Exit(d) /\ served' = served
        /\ \/ file' = file
           \/ pc[d] = "write" /\ file' = [state |-> "torn", key |-> None]
    BY <1>1, EndsExit
  <2>. QED
    BY <2>1 DEF TypeOK, Exit, Goto
<1>2. ASSUME NEW d \in Daemons, NEW c \in Conns, Accept(d, c) PROVE KeyInv'
  BY <1>2 DEF Accept, mainVars
<1>3. CASE UNCHANGED vars
  BY <1>3 DEF vars, keyVars, mainVars
<1>4. ASSUME NEW d \in Daemons,
             Start(d) \/ KeyExists(d) \/ Fork(d) \/ DropPrivileges(d)
      PROVE KeyInv'
  BY <1>4, ZenonT(60) DEF TypeOK, Start, KeyExists, Fork, DropPrivileges, Goto, keyVars
<1>5. ASSUME NEW d \in Daemons, ReadKey(d) PROVE KeyInv'
  <2>1. file = [state |-> "written", key |-> file.key]
    BY <1>5 DEF TypeOK, KeyFiles, ReadKey
  <2>. QED
    BY <1>5, <2>1 DEF TypeOK, ReadKey, Goto, keyVars
<1>6. ASSUME NEW d \in Daemons, CreateKey(d) PROVE KeyInv'
  BY <1>6 DEF TypeOK, CreateKey, Goto
<1>7. ASSUME NEW d \in Daemons, WriteKey(d) PROVE KeyInv'
  BY <1>7 DEF TypeOK, WriteKey, Goto
<1>8. ASSUME NEW d \in Daemons, Bind(d) PROVE KeyInv'
  BY <1>8 DEF TypeOK, Bind, Goto, keyVars
<1>9. ASSUME NEW c \in Conns,
             Connection(c) \/ Rekey(c) \/ \E u \in Users : Authenticated(c, u)
      PROVE KeyInv'
  BY <1>9, ConnFrame
<1>10. ASSUME NEW d \in Daemons, Signer(d) \/ SignerDies(d) PROVE KeyInv'
  BY <1>10, SignerFrame
<1>. QED
  BY <1>1, <1>2, <1>3, <1>4, <1>5, <1>6, <1>7, <1>8, <1>9, <1>10 DEF Next, Main, Ends

-----------------------------------------------------------------------------
(* Privileges.                                                             *)

\* Every step keeps what each place in main says about credentials.
LEMMA CredKept == ASSUME TypeOK, CredInv, [Next]_vars PROVE CredInv'
<1>. USE DEF CredInv, StartCred, Privsep, MustDrop
<1>1. ASSUME NEW d \in Daemons, Ends(d) PROVE CredInv'
  <2>1. /\ pc' = [pc EXCEPT ![d] = "off"]
        /\ key' = [key EXCEPT ![d] = None]
        /\ public' = [public EXCEPT ![d] = None]
        /\ args' = args /\ cred' = cred
    BY <1>1, EndsExit DEF Exit, Goto
  <2>. QED
    BY <2>1 DEF TypeOK
<1>2. ASSUME NEW d \in Daemons, NEW c \in Conns, Accept(d, c) PROVE CredInv'
  BY <1>2 DEF Accept, mainVars
<1>3. CASE UNCHANGED vars
  BY <1>3 DEF vars, keyVars, mainVars
<1>4. ASSUME NEW d \in Daemons,
             Start(d) \/ KeyExists(d) \/ ReadKey(d) \/ CreateKey(d) \/ WriteKey(d) \/ Bind(d)
      PROVE CredInv'
  BY <1>4 DEF TypeOK, Start, KeyExists, ReadKey, CreateKey, WriteKey, Bind, Goto, startVars
<1>5. ASSUME NEW d \in Daemons, Fork(d) PROVE CredInv'
  BY <1>5 DEF TypeOK, Fork, Goto
<1>6. ASSUME NEW d \in Daemons, DropPrivileges(d) PROVE CredInv'
  <2>1. Dropped(cred[d], Nobody) = As(Nobody)
    BY DroppedIsAs
  <2>. QED
    BY <1>6, <2>1 DEF TypeOK, DropPrivileges, Goto, startVars
<1>7. ASSUME NEW c \in Conns,
             Connection(c) \/ Rekey(c) \/ \E u \in Users : Authenticated(c, u)
      PROVE CredInv'
  BY <1>7, ConnFrame
<1>8. ASSUME NEW d \in Daemons, Signer(d) \/ SignerDies(d) PROVE CredInv'
  BY <1>8, SignerFrame
<1>. QED
  BY <1>1, <1>2, <1>3, <1>4, <1>5, <1>6, <1>7, <1>8 DEF Next, Main, Ends

\* What asking for a signature leaves alone in a connection.
Signing(c) ==
    SignHere(c) \/ TakeLock(c) \/ RequestFrame(c) \/ ReplyFrame(c) \/ RequestFails(c)

\* A step of one connection's signing leaves the other connections alone.
LEMMA SigningKeeps ==
    ASSUME TypeOK, NEW c \in Conns, Signing(c)
    PROVE  /\ Of(c) \in Daemons /\ pc[Of(c)] = "serve"
           /\ \A x \in Conns \ {c} : conn'[x] = conn[x]
           /\ conn'[c].of = conn[c].of /\ conn'[c].signs = conn[c].signs
           /\ conn'[c].login = conn[c].login /\ conn'[c].account = conn[c].account
           /\ conn'[c].at \in {"locked", "waiting", "signed"}
<1>1. conn[c] \in ConnRecord
  BY DEF TypeOK
<1>2. Of(c) \in Daemons /\ pc[Of(c)] = "serve"
  BY <1>1 DEF Signing, SignHere, TakeLock, RequestFrame, ReplyFrame, RequestFails,
              NoSigner, In, Of, ConnRecord
<1>3. \/ \E p \in {"locked", "waiting"} : conn' = [conn EXCEPT ![c].at = p]
      \/ \E x : conn' = [conn EXCEPT ![c].at = "signed", ![c].sig = x]
  BY DEF Signing, SignHere, TakeLock, RequestFrame, ReplyFrame, RequestFails, ConnAt, Signed
<1>4. CASE \E p \in {"locked", "waiting"} : conn' = [conn EXCEPT ![c].at = p]
  BY <1>1, <1>2, <1>4 DEF TypeOK, ConnRecord
<1>5. CASE \E x : conn' = [conn EXCEPT ![c].at = "signed", ![c].sig = x]
  <2>1. PICK x : conn' = [conn EXCEPT ![c] = [conn[c] EXCEPT !.at = "signed", !.sig = x]]
    BY <1>5
  <2>2. conn'[c] = [conn[c] EXCEPT !.at = "signed", !.sig = x]
    BY <2>1 DEF TypeOK
  <2>. QED
    BY <1>1, <1>2, <2>1, <2>2 DEF TypeOK, ConnRecord
<1>. QED
  BY <1>3, <1>4, <1>5

\* The steps of main that go on: none of them is of a daemon that serves.
Goes(d) ==
    \/ Start(d) \/ KeyExists(d) \/ ReadKey(d) \/ CreateKey(d) \/ WriteKey(d)
    \/ Bind(d) \/ Fork(d) \/ DropPrivileges(d)

\* A step of main before it serves leaves the connections alone.
LEMMA GoesKeeps ==
    ASSUME TypeOK, NEW d \in Daemons, Goes(d)
    PROVE  /\ pc[d] # "serve" /\ UNCHANGED <<args, conn, lock>>
           /\ \A e \in Daemons \ {d} : pc'[e] = pc[e] /\ public'[e] = public[e]
  BY DEF TypeOK, Goes, Start, KeyExists, ReadKey, CreateKey, WriteKey, Bind, Fork,
         DropPrivileges, Goto, startVars, signerVars

\* An account that a daemon gives to a session is its user's, unless the
\* daemon's own is all there is.
LEMMA AccountGiven ==
    ASSUME TypeOK, CredInv, NEW d \in Daemons, pc[d] = "serve", NEW u \in Users,
           NEW a \in SessionCred(d, u), "root" \in {a.uid, a.gid, a.groups}
    PROVE  u = "root" \/ (args[d].no_privilege_drop /\ ~args[d].sandbox)
<1>1. args[d] \in [root : BOOLEAN, privsep : BOOLEAN, sandbox : BOOLEAN,
                   no_privilege_drop : BOOLEAN, user_exists : BOOLEAN]
  BY DaemonAssumption DEF TypeOK
<1>2. cred[d] = IF MustDrop(d) THEN As(Nobody) ELSE StartCred(d)
  BY DEF CredInv
<1>3. CASE PerUser(d) /\ cred[d].uid = "root"
  BY <1>3, DroppedIsAs DEF SessionCred, As
<1>4. CASE ~(PerUser(d) /\ cred[d].uid = "root")
  <2>1. a = cred[d]
    BY <1>4 DEF SessionCred
  <2>2. cred[d] = Root /\ ~MustDrop(d)
    BY <1>2, <2>1 DEF As, Nobody, StartCred, Root
  <2>3. args[d].root
    BY <1>2, <2>2 DEF StartCred, As, Root
  <2>. QED
    BY <1>1, <1>4, <2>2, <2>3 DEF MustDrop, PerUser, Root, As
<1>. QED
  BY <1>3, <1>4

\* Every step keeps what a session runs as.
LEMMA AccountKept ==
    ASSUME TypeOK, CredInv, AccountInv, [Next]_vars PROVE AccountInv'
<1>. USE DEF AccountInv, AccountOk, Of
<1>0. \A c \in Conns : conn[c] \in ConnRecord
  BY DEF TypeOK
<1>1. ASSUME NEW d \in Daemons, Ends(d) PROVE AccountInv'
  <2>1. /\ pc' = [pc EXCEPT ![d] = "off"] /\ args' = args
        /\ conn' = [c \in Conns |-> IF conn[c].of = d THEN Closed ELSE conn[c]]
    BY <1>1, EndsExit DEF Exit, Goto
  <2>2. Closed.of = None
    BY DEF Closed, Unused
  <2>3. \A c \in Conns : conn'[c].of # None => conn'[c] = conn[c] /\ conn[c].of # d
    BY <2>1, <2>2
  <2>4. \A c \in Conns : conn[c].of # None => conn[c].of \in Daemons
    BY <1>0 DEF ConnRecord
  <2>. QED
    BY <2>1, <2>3, <2>4 DEF TypeOK
<1>2. ASSUME NEW d \in Daemons, NEW c \in Conns, Accept(d, c) PROVE AccountInv'
  <2>1. /\ conn'[c].of = d /\ conn'[c].at = "sign" /\ conn'[c].signs = 1
        /\ \A x \in Conns \ {c} : conn'[x] = conn[x]
    BY <1>0, <1>2 DEF Accept, TypeOK, ConnRecord
  <2>2. pc' = pc /\ args' = args /\ pc[d] = "serve"
    BY <1>2 DEF Accept, mainVars
  <2>3. ASSUME NEW x \in Conns, conn'[x].of # None
        PROVE  /\ pc'[conn'[x].of] = "serve"
               /\ conn'[x].at = "session" => AccountOk(x)'
               /\ conn'[x].signs # 1 => AccountOk(x)'
    <3>1. CASE x = c
      BY <2>1, <2>2, <3>1
    <3>2. CASE x # c
      BY <2>1, <2>2, <2>3, <3>2
    <3>. QED
      BY <3>1, <3>2
  <2>. QED
    BY <2>3
<1>3. CASE UNCHANGED vars
  BY <1>3 DEF vars, mainVars
<1>4. ASSUME NEW d \in Daemons, Goes(d) PROVE AccountInv'
  <2>1. \A c \in Conns : conn[c].of # None => conn[c].of \in Daemons \ {d}
    BY <1>0, <1>4, GoesKeeps DEF ConnRecord
  <2>. QED
    BY <1>4, <2>1, GoesKeeps
<1>5. ASSUME NEW d \in Daemons, Signer(d) \/ SignerDies(d) PROVE AccountInv'
  BY <1>5, SignerFrame
<1>6. ASSUME NEW c \in Conns, Signing(c) PROVE AccountInv'
  <2>1. pc' = pc /\ args' = args
    BY <1>6, ConnFrame DEF Connection, Signing
  <2>2. ASSUME NEW x \in Conns, conn'[x].of # None
        PROVE  /\ pc'[conn'[x].of] = "serve"
               /\ conn'[x].at = "session" => AccountOk(x)'
               /\ conn'[x].signs # 1 => AccountOk(x)'
    BY <1>6, <2>1, <2>2, SigningKeeps
  <2>. QED
    BY <2>2
<1>7. ASSUME NEW c \in Conns, Checked(c) PROVE AccountInv'
  <2>1. pc' = pc /\ args' = args
    BY <1>7, ConnFrame DEF Connection
  <2>2. Closed.of = None
    BY DEF Closed, Unused
  <2>3. \A x \in Conns \ {c} : conn'[x] = conn[x]
    BY <1>7 DEF Checked, TypeOK
  <2>4. CASE conn' = [conn EXCEPT ![c] = Closed]
    <3>1. conn'[c] = Closed
      BY <2>4 DEF TypeOK
    <3>. QED
      BY <2>1, <2>2, <2>3, <3>1
  <2>5. CASE conn' = [conn EXCEPT ![c].at = IF conn[c].signs = 1 THEN "auth" ELSE "session",
                                  ![c].sig = None]
    <3>. DEFINE p == IF conn[c].signs = 1 THEN "auth" ELSE "session"
    <3>1. conn'[c] = [conn[c] EXCEPT !.at = p, !.sig = None]
      BY <2>5 DEF TypeOK
    <3>2. /\ conn'[c].of = conn[c].of /\ conn'[c].signs = conn[c].signs
          /\ conn'[c].login = conn[c].login /\ conn'[c].account = conn[c].account
          /\ conn'[c].at = p
      BY <1>0, <3>1 DEF ConnRecord
    <3>. QED
      BY <2>1, <2>3, <3>2
  <2>. QED
    BY <1>7, <2>4, <2>5 DEF Checked
<1>8. ASSUME NEW c \in Conns, Rekey(c) PROVE AccountInv'
  <2>1. pc' = pc /\ args' = args
    BY <1>8, ConnFrame
  <2>2. \A x \in Conns \ {c} : conn'[x] = conn[x]
    BY <1>8 DEF Rekey, TypeOK
  <2>3. /\ conn'[c].of = conn[c].of /\ conn'[c].at = "sign"
        /\ conn'[c].login = conn[c].login /\ conn'[c].account = conn[c].account
    BY <1>0, <1>8 DEF Rekey, TypeOK, ConnRecord
  <2>4. conn[c].at = "session"
    BY <1>8 DEF Rekey, In
  <2>. QED
    BY <2>1, <2>2, <2>3, <2>4
<1>9. ASSUME NEW c \in Conns, NEW u \in Users, Authenticated(c, u) PROVE AccountInv'
  <2>. DEFINE a == CHOOSE x \in SessionCred(Of(c), u) : TRUE
  <2>1. pc' = pc /\ args' = args
    BY <1>9, ConnFrame
  <2>2. Closed.of = None
    BY DEF Closed, Unused
  <2>3. \A x \in Conns \ {c} : conn'[x] = conn[x]
    BY <1>9 DEF Authenticated, TypeOK
  <2>4. CASE SessionCred(Of(c), u) = {}
    <3>1. conn'[c] = Closed
      BY <1>9, <2>4 DEF Authenticated, TypeOK
    <3>. QED
      BY <2>1, <2>2, <2>3, <3>1
  <2>5. CASE SessionCred(Of(c), u) # {}
    <3>1. conn'[c] = [conn[c] EXCEPT !.at = "session", !.login = u, !.account = a]
      BY <1>9, <2>5 DEF Authenticated, TypeOK
    <3>2. conn'[c].of = conn[c].of /\ conn'[c].login = u /\ conn'[c].account = a
      <4>. HIDE DEF a
      <4>. QED
        BY <1>0, <3>1 DEF ConnRecord
    <3>3. a \in SessionCred(conn[c].of, u)
      BY <2>5
    <3>4. conn[c].of \in Daemons /\ pc[conn[c].of] = "serve"
      BY <1>0, <1>9 DEF Authenticated, In, ConnRecord
    <3>. HIDE DEF a
    <3>5. AccountOk(c)'
      BY <2>1, <3>2, <3>3, <3>4, AccountGiven
    <3>. QED
      BY <2>1, <2>3, <3>2, <3>4, <3>5
  <2>. QED
    BY <2>4, <2>5
<1>. QED
  BY <1>1, <1>2, <1>3, <1>4, <1>5, <1>6, <1>7, <1>8, <1>9
     DEF Next, Main, Ends, Goes, Connection, Signing

-----------------------------------------------------------------------------
(* The signer's socket.                                                    *)

\* The other steps of a connection: it is not waiting for the signer, before
\* or after, and has nothing to do with the socket.
Talks(c) == Checked(c) \/ Rekey(c) \/ \E u \in Users : Authenticated(c, u)

\* A connection outside its signing leaves mutex and socket alone.
LEMMA TalksKeeps ==
    ASSUME TypeOK, NEW c \in Conns, Talks(c)
    PROVE  /\ UNCHANGED <<pc, public, lock, signer, busy, toSigner, fromSigner>>
           /\ \A x \in Conns \ {c} : conn'[x] = conn[x]
           /\ conn[c].at \in {"signed", "auth", "session"}
           /\ conn'[c].at \in {"closed", "sign", "auth", "session"}
<1>. USE DEF TypeOK, Talks, connRest, signerVars, mainVars
<1>0. conn[c] \in ConnRecord
  OBVIOUS
<1>1. Closed.at = "closed"
  BY DEF Closed, Unused
<1>2. UNCHANGED <<pc, public, lock, signer, busy, toSigner, fromSigner>>
  BY DEF Checked, Rekey, Authenticated
<1>3. \A x \in Conns \ {c} : conn'[x] = conn[x]
  BY DEF Checked, Rekey, Authenticated
<1>4. conn[c].at \in {"signed", "auth", "session"}
  BY DEF Checked, Rekey, Authenticated, In
<1>5. conn'[c].at \in {"closed", "sign", "auth", "session"}
  <2>1. CASE Checked(c)
    BY <1>0, <1>1, <2>1 DEF Checked, ConnRecord
  <2>2. CASE Rekey(c)
    BY <1>0, <2>2 DEF Rekey, ConnRecord
  <2>3. ASSUME NEW u \in Users, Authenticated(c, u)
        PROVE  conn'[c].at \in {"closed", "sign", "auth", "session"}
    BY <1>0, <1>1, <2>3 DEF Authenticated, ConnRecord
  <2>. QED
    BY <2>1, <2>2, <2>3
<1>. QED
  BY <1>2, <1>3, <1>4, <1>5

\* A connection comes and goes without being on a socket.
LEMMA AcceptKeeps ==
    ASSUME TypeOK, NEW c \in Conns, NEW d \in Daemons, Accept(d, c)
    PROVE  /\ UNCHANGED <<pc, public, lock, signer, busy, toSigner, fromSigner>>
           /\ \A x \in Conns \ {c} : conn'[x] = conn[x]
           /\ conn[c].at = "none" /\ conn'[c].at = "sign"
  BY DEF TypeOK, ConnRecord, Accept, mainVars, signerVars

\* A daemon that ends takes its mutex and its connections with it.
LEMMA EndsKeeps ==
    ASSUME TypeOK, NEW d \in Daemons, Ends(d)
    PROVE  /\ pc' = [pc EXCEPT ![d] = "off"] /\ lock' = [lock EXCEPT ![d] = None]
           /\ public' = [public EXCEPT ![d] = None]
           /\ UNCHANGED <<signer, busy, toSigner, fromSigner>>
           /\ \A c \in Conns : conn[c].of = d => conn'[c].of = None /\ conn'[c].at = "closed"
           /\ \A c \in Conns : conn[c].of # d => conn'[c] = conn[c]
  BY EndsExit DEF Exit, Goto, Closed, Unused

\* A connection's daemon is one of the daemons.
LEMMA OfDaemon ==
    ASSUME TypeOK, NEW c \in Conns, Of(c) # None PROVE Of(c) \in Daemons
  BY DEF TypeOK, Of, ConnRecord

\* Every step keeps the mutex with the one connection in a round trip.
LEMMA LockKept == ASSUME TypeOK, LockInv, [Next]_vars PROVE LockInv'
<1>. USE DEF LockInv, Of
<1>1. ASSUME NEW d \in Daemons, Ends(d) PROVE LockInv'
  <2>1. ASSUME NEW x \in Conns, conn'[x].of # None, conn'[x].at \in {"locked", "waiting"}
        PROVE  lock'[conn'[x].of] = x
    <3>1. conn[x].of # d /\ conn'[x] = conn[x]
      BY <1>1, <2>1, EndsKeeps
    <3>2. conn[x].of \in Daemons \ {d} /\ lock[conn[x].of] = x
      BY <2>1, <3>1, OfDaemon
    <3>. QED
      BY <1>1, <3>1, <3>2, EndsKeeps DEF TypeOK
  <2>. QED
    BY <2>1
<1>2. ASSUME NEW d \in Daemons, NEW c \in Conns, Accept(d, c) PROVE LockInv'
  BY <1>2, AcceptKeeps
<1>3. CASE UNCHANGED vars
  BY <1>3 DEF vars, signerVars
<1>4. ASSUME NEW d \in Daemons, Goes(d) PROVE LockInv'
  BY <1>4, GoesKeeps
<1>5. ASSUME NEW d \in Daemons, Signer(d) \/ SignerDies(d) PROVE LockInv'
  BY <1>5, SignerFrame
<1>6. ASSUME NEW c \in Conns, Talks(c) PROVE LockInv'
  BY <1>6, TalksKeeps
<1>7. ASSUME NEW c \in Conns, SignHere(c) PROVE LockInv'
  <2>1. conn'[c].at = "signed" /\ lock' = lock
    BY <1>7 DEF SignHere, Signed, signerVars, TypeOK, ConnRecord
  <2>. QED
    BY <1>7, <2>1, SigningKeeps DEF Signing
<1>8. ASSUME NEW c \in Conns, TakeLock(c) PROVE LockInv'
  <2>1. lock[Of(c)] = None /\ lock' = [lock EXCEPT ![Of(c)] = c]
    BY <1>8 DEF TakeLock
  <2>2. \A x \in Conns : x # None
    BY DaemonAssumption
  <2>. QED
    <3>1. /\ Of(c) \in Daemons /\ conn'[c].of = conn[c].of
          /\ \A x \in Conns \ {c} : conn'[x] = conn[x]
      BY <1>8, SigningKeeps DEF Signing
    <3>2. ASSUME NEW x \in Conns, conn'[x].of # None, conn'[x].at \in {"locked", "waiting"}
          PROVE  lock'[conn'[x].of] = x
      <4>1. CASE x = c
        BY <2>1, <3>1, <4>1 DEF TypeOK
      <4>2. CASE x # c
        <5>1. conn[x].of \in Daemons /\ lock[conn[x].of] = x /\ conn'[x] = conn[x]
          BY <3>1, <3>2, <4>2, OfDaemon
        <5>. QED
          BY <2>1, <2>2, <3>1, <5>1 DEF TypeOK
      <4>. QED
        BY <4>1, <4>2
    <3>. QED
      BY <3>2
<1>9. ASSUME NEW c \in Conns, RequestFrame(c) PROVE LockInv'
  <2>1. lock' = lock /\ conn[c].at = "locked"
    BY <1>9 DEF RequestFrame, In
  <2>. QED
    BY <1>9, <2>1, SigningKeeps DEF Signing
<1>10. ASSUME NEW c \in Conns, ReplyFrame(c) \/ RequestFails(c) PROVE LockInv'
  <2>1. lock' = [lock EXCEPT ![Of(c)] = None] /\ conn[c].at \in {"locked", "waiting"}
    BY <1>10 DEF ReplyFrame, RequestFails, NoSigner, In
  <2>2. conn'[c].at = "signed"
    BY <1>10 DEF ReplyFrame, RequestFails, Signed, TypeOK, ConnRecord
  <2>3. /\ Of(c) \in Daemons /\ conn'[c].of = conn[c].of
        /\ \A x \in Conns \ {c} : conn'[x] = conn[x]
    BY <1>10, SigningKeeps DEF Signing
  <2>4. lock[Of(c)] = c
    BY <2>1, <2>3, DaemonAssumption
  <2>. QED
    <3>1. ASSUME NEW x \in Conns, conn'[x].of # None, conn'[x].at \in {"locked", "waiting"}
          PROVE  lock'[conn'[x].of] = x
      <4>1. x # c /\ conn'[x] = conn[x]
        BY <2>2, <2>3, <3>1
      <4>2. conn[x].of \in Daemons /\ lock[conn[x].of] = x
        BY <3>1, <4>1, OfDaemon
      <4>. QED
        BY <2>1, <2>3, <2>4, <4>1, <4>2 DEF TypeOK
    <3>. QED
      BY <3>1
<1>. QED
  BY <1>1, <1>2, <1>3, <1>4, <1>5, <1>6, <1>7, <1>8, <1>9, <1>10
     DEF Next, Main, Ends, Goes, Connection, Talks

\* A queue of one frame is empty once the frame is taken.
LEMMA OneFrame == ASSUME NEW x PROVE Tail(<<x>>) = <<>> /\ Head(<<x>>) = x
  OBVIOUS

\* A socket is as it was when its own state is, and the one who waits on it.
LEMMA SocketSame ==
    ASSUME NEW d \in Daemons, Socket(d),
           signer'[d] = signer[d], busy'[d] = busy[d], toSigner'[d] = toSigner[d],
           fromSigner'[d] = fromSigner[d], public'[d] = public[d],
           Waiting(d) => lock'[d] = lock[d] /\ conn'[lock[d]] = conn[lock[d]]
    PROVE  Socket(d)'
<1>1. Waiting(d) => Waiting(d)' /\ Hash(lock[d])' = Hash(lock[d])
  BY DEF Waiting, Hash
<1>. QED
  BY <1>1 DEF Socket, Signature

\* Every step keeps a socket with one request, one reply, or nothing.
LEMMA SocketKept == ASSUME TypeOK, LockInv, SocketInv, [Next]_vars PROVE SocketInv'
<1>. SUFFICES ASSUME NEW d \in Daemons, pc'[d] \in {"drop", "serve"} PROVE Socket(d)'
  BY DEF SocketInv
<1>0. pc[d] \in {"drop", "serve"} => Socket(d)
  BY DEF SocketInv
<1>1. ASSUME NEW e \in Daemons, Ends(e) PROVE Socket(d)'
  <2>1. d # e /\ pc[d] \in {"drop", "serve"}
    BY <1>1, EndsKeeps DEF TypeOK
  <2>2. Waiting(d) => lock'[d] = lock[d] /\ conn'[lock[d]] = conn[lock[d]]
    BY <1>1, <2>1, EndsKeeps DEF TypeOK, Waiting
  <2>. QED
    BY <1>0, <1>1, <2>1, <2>2, EndsKeeps, SocketSame DEF TypeOK
<1>2. ASSUME NEW e \in Daemons, NEW c \in Conns, Accept(e, c) PROVE Socket(d)'
  <2>1. Waiting(d) => lock[d] # c
    BY <1>2, AcceptKeeps DEF Waiting
  <2>. QED
    BY <1>0, <1>2, <2>1, AcceptKeeps, SocketSame DEF Waiting
<1>3. CASE UNCHANGED vars
  BY <1>0, <1>3, SocketSame DEF vars, signerVars, mainVars
<1>4. ASSUME NEW e \in Daemons, Goes(e) PROVE Socket(d)'
  <2>1. CASE Fork(e) /\ d = e
    BY <2>1 DEF Fork, Socket, TypeOK
  <2>2. CASE ~(Fork(e) /\ d = e)
    <3>1. /\ signer'[d] = signer[d] /\ busy'[d] = busy[d]
          /\ toSigner'[d] = toSigner[d] /\ fromSigner'[d] = fromSigner[d]
      BY <1>4, <2>2 DEF TypeOK, Goes, Start, KeyExists, ReadKey, CreateKey, WriteKey, Bind,
                        Fork, DropPrivileges, startVars, signerVars
    <3>2. pc[d] \in {"drop", "serve"} /\ public'[d] = public[d]
      BY <1>4, <2>2 DEF TypeOK, Goes, Start, KeyExists, ReadKey, CreateKey, WriteKey, Bind,
                        Fork, DropPrivileges, Goto
    <3>. QED
      BY <1>0, <1>4, <3>1, <3>2, GoesKeeps, SocketSame
  <2>. QED
    BY <2>1, <2>2
<1>5. ASSUME NEW e \in Daemons, Signer(e) \/ SignerDies(e) PROVE Socket(d)'
  <2>1. /\ pc[d] \in {"drop", "serve"}
        /\ public' = public /\ conn' = conn /\ lock' = lock
    BY <1>5, SignerFrame
  <2>2. (Waiting(d) <=> Waiting(d)') /\ Hash(lock[d])' = Hash(lock[d])
    BY <2>1 DEF Waiting, Hash
  <2>3. CASE d # e
    <3>1. /\ signer'[d] = signer[d] /\ busy'[d] = busy[d]
          /\ toSigner'[d] = toSigner[d] /\ fromSigner'[d] = fromSigner[d]
      BY <1>5, <2>3 DEF TypeOK, Signer, Serve, Respond, SignerEnds, SignerDies
    <3>. QED
      BY <1>0, <2>1, <3>1, SocketSame
  <2>4. CASE d = e /\ Serve(e)
    <3>1. /\ Waiting(d) /\ toSigner[d] = <<Hash(lock[d])>> /\ fromSigner[d] = <<>>
          /\ signer[d] = "up"
      BY <1>0, <2>1, <2>4 DEF Serve, Socket
    <3>2. Head(toSigner[d]) = Hash(lock[d]) /\ Tail(toSigner[d]) = <<>>
      BY <3>1
    <3>3. /\ busy'[d] = {Hash(lock[d])} /\ toSigner'[d] = <<>>
          /\ fromSigner'[d] = <<>> /\ signer'[d] = "up"
      BY <2>4, <3>1, <3>2 DEF Serve, TypeOK
    <3>. QED
      BY <2>2, <3>1, <3>3 DEF Socket
  <2>5. CASE d = e /\ Respond(e)
    <3>1. PICK h \in busy[d] :
            fromSigner' = [fromSigner EXCEPT ![d] = Append(@, Signature(h, public[d]))]
      BY <2>5 DEF Respond
    <3>2. /\ Waiting(d) /\ h = Hash(lock[d]) /\ toSigner[d] = <<>> /\ fromSigner[d] = <<>>
      BY <1>0, <2>1, <3>1 DEF Socket
    <3>3. Append(fromSigner[d], Signature(h, public[d])) = <<Signature(h, public[d])>>
      BY <3>2
    <3>4. /\ fromSigner'[d] = <<Signature(Hash(lock[d]), public[d])>>
          /\ busy'[d] = {} /\ toSigner'[d] = <<>>
      BY <2>5, <3>1, <3>2, <3>3 DEF Respond, TypeOK
    <3>5. fromSigner'[d] = <<Signature(Hash(lock[d]), public[d])>>'
      BY <2>1, <2>2, <3>4 DEF Signature
    <3>. QED
      BY <2>2, <3>2, <3>4, <3>5 DEF Socket
  <2>6. CASE d = e /\ SignerEnds(e)
    BY <2>1, <2>6 DEF SignerEnds
  <2>7. CASE d = e /\ SignerDies(e)
    <3>1. /\ signer'[d] = "gone" /\ busy'[d] = {}
          /\ toSigner'[d] = toSigner[d] /\ fromSigner'[d] = fromSigner[d]
      BY <2>7 DEF SignerDies, TypeOK
    <3>. QED
      BY <1>0, <2>1, <2>2, <3>1 DEF Socket, Signature
  <2>. QED
    BY <1>5, <2>3, <2>4, <2>5, <2>6, <2>7 DEF Signer
<1>6. ASSUME NEW c \in Conns, Talks(c) PROVE Socket(d)'
  <2>1. Waiting(d) => lock[d] # c
    BY <1>6, TalksKeeps DEF Waiting
  <2>. QED
    BY <1>0, <1>6, <2>1, TalksKeeps, SocketSame DEF Waiting
<1>7. ASSUME NEW c \in Conns, Signing(c) PROVE Socket(d)'
  <2>1. /\ pc' = pc /\ public' = public
        /\ \A x \in Conns \ {c} : conn'[x] = conn[x]
        /\ Of(c) \in Daemons /\ conn'[c].of = conn[c].of /\ conn'[c].signs = conn[c].signs
    BY <1>7, ConnFrame, SigningKeeps DEF Connection, Signing
  <2>2. Socket(d)
    BY <1>0, <2>1
  <2>3. CASE d # Of(c)
    <3>1. /\ signer'[d] = signer[d] /\ busy'[d] = busy[d] /\ lock'[d] = lock[d]
          /\ toSigner'[d] = toSigner[d] /\ fromSigner'[d] = fromSigner[d]
      BY <1>7, <2>1, <2>3 DEF TypeOK, Signing, SignHere, TakeLock, RequestFrame, ReplyFrame,
                              RequestFails, signerVars
    <3>2. Waiting(d) => lock[d] # c
      BY <2>3 DEF Waiting, Of
    <3>3. Waiting(d) => lock'[d] = lock[d] /\ conn'[lock[d]] = conn[lock[d]]
      BY <2>1, <3>1, <3>2 DEF Waiting
    <3>. QED
      BY <2>1, <2>2, <3>1, <3>3, SocketSame
  <2>4. CASE d = Of(c) /\ SignHere(c)
    <3>1. Waiting(d) => lock[d] # c
      BY <2>4 DEF SignHere, In, Waiting
    <3>2. Waiting(d) => lock'[d] = lock[d] /\ conn'[lock[d]] = conn[lock[d]]
      BY <2>1, <2>4, <3>1 DEF Waiting, SignHere, signerVars
    <3>. QED
      BY <2>1, <2>2, <2>4, <3>2, SocketSame DEF SignHere, signerVars
  <2>5. CASE d = Of(c) /\ TakeLock(c)
    <3>1. ~Waiting(d)
      BY <2>5, DaemonAssumption DEF TakeLock, Waiting
    <3>. QED
      BY <2>1, <2>2, <2>5, <3>1, SocketSame DEF TakeLock
  <2>6. CASE d = Of(c) /\ RequestFrame(c)
    <3>1. conn[c].at = "locked" /\ lock[d] = c /\ signer[d] = "up"
      BY <2>1, <2>6 DEF RequestFrame, In, LockInv
    <3>2. ~Waiting(d)
      BY <3>1 DEF Waiting
    <3>3. fromSigner[d] = <<>> /\ busy[d] = {} /\ toSigner[d] = <<>>
      BY <2>2, <3>1, <3>2 DEF Socket
    <3>4. Append(toSigner[d], Hash(c)) = <<Hash(c)>>
      BY <3>3
    <3>5. /\ toSigner'[d] = <<Hash(c)>> /\ busy'[d] = {} /\ fromSigner'[d] = <<>>
          /\ lock'[d] = c /\ signer'[d] = "up" /\ conn'[c].at = "waiting"
      BY <2>1, <2>6, <3>1, <3>3, <3>4 DEF RequestFrame, ConnAt, TypeOK, ConnRecord
    <3>6. Waiting(d)' /\ toSigner'[d] = <<Hash(lock[d])>>'
      <4>0. conn[c].of = d
        BY <2>6 DEF Of
      <4>1. conn'[c].of = d
        BY <2>1, <4>0
      <4>2. Waiting(d)'
        BY <3>5, <4>1 DEF Waiting
      <4>3. Hash(lock[d])' = Hash(c)
        <5>1. Hash(c)' = Hash(c)
          BY <2>1 DEF Hash
        <5>. QED
          BY <3>5, <5>1 DEF Hash
      <4>. QED
        BY <3>5, <4>2, <4>3
    <3>. QED
      BY <3>5, <3>6 DEF Socket
  <2>7. CASE d = Of(c) /\ ReplyFrame(c)
    <3>1. /\ fromSigner[d] = <<Signature(Hash(lock[d]), public[d])>> /\ busy[d] = {}
          /\ signer[d] # "up" \/ toSigner[d] = <<>>
      BY <2>2, <2>7 DEF ReplyFrame, Socket
    <3>2. Tail(fromSigner[d]) = <<>>
      BY <3>1, OneFrame
    <3>3. fromSigner'[d] = <<>>
      BY <2>1, <2>7, <3>2 DEF ReplyFrame, TypeOK
    <3>4. busy'[d] = {} /\ (signer'[d] # "up" \/ toSigner'[d] = <<>>)
      <4>1. busy' = busy /\ signer' = signer /\ toSigner' = toSigner
        BY <2>7 DEF ReplyFrame
      <4>. QED
        BY <3>1, <4>1
    <3>. QED
      BY <3>3, <3>4 DEF Socket
  <2>8. CASE d = Of(c) /\ RequestFails(c)
    <3>1. /\ fromSigner'[d] = <<>> /\ fromSigner[d] = <<>> /\ busy'[d] = busy[d]
          /\ signer'[d] = signer[d] /\ signer[d] # "up"
      BY <2>8 DEF RequestFails, NoSigner
    <3>2. busy[d] = {}
      BY <2>2, <3>1 DEF Socket
    <3>. QED
      BY <3>1, <3>2 DEF Socket
  <2>. QED
    BY <1>7, <2>3, <2>4, <2>5, <2>6, <2>7, <2>8 DEF Signing
<1>. QED
  BY <1>1, <1>2, <1>3, <1>4, <1>5, <1>6, <1>7
     DEF Next, Main, Ends, Goes, Connection, Talks, Signing

\* What a connection holds as a signature was made for it.
LEMMA SignedKept ==
    ASSUME TypeOK, CredInv, AccountInv, LockInv, SocketInv, SignedInv, [Next]_vars
    PROVE  SignedInv'
<1>. SUFFICES ASSUME NEW x \in Conns, Of(x)' # None, conn'[x].at = "signed"
              PROVE  (conn[x].sig = Empty \/ Verifies(x))'
  BY DEF SignedInv
<1>. USE DEF Of
<1>0. ASSUME conn'[x] = conn[x], public'[conn[x].of] = public[conn[x].of]
      PROVE  (conn[x].sig = Empty \/ Verifies(x))'
  <2>1. conn[x].sig = Empty \/ Verifies(x)
    BY <1>0 DEF SignedInv
  <2>2. Hash(x)' = Hash(x) /\ Empty' = Empty
    BY <1>0 DEF Hash, Empty
  <2>. QED
    BY <1>0, <2>1, <2>2 DEF Verifies, Signature
<1>1. ASSUME NEW d \in Daemons, Ends(d) PROVE (conn[x].sig = Empty \/ Verifies(x))'
  <2>1. conn[x].of # d /\ conn'[x] = conn[x]
    BY <1>1, EndsKeeps
  <2>2. conn[x].of \in Daemons
    BY <2>1, OfDaemon
  <2>. QED
    BY <1>0, <1>1, <2>1, <2>2, EndsKeeps DEF TypeOK
<1>2. ASSUME NEW d \in Daemons, NEW c \in Conns, Accept(d, c)
      PROVE  (conn[x].sig = Empty \/ Verifies(x))'
  BY <1>0, <1>2, AcceptKeeps
<1>3. CASE UNCHANGED vars
  BY <1>0, <1>3 DEF vars, mainVars
<1>4. ASSUME NEW d \in Daemons, Goes(d) PROVE (conn[x].sig = Empty \/ Verifies(x))'
  <2>1. conn'[x] = conn[x]
    BY <1>4, GoesKeeps
  <2>2. conn[x].of \in Daemons \ {d}
    BY <1>4, <2>1, GoesKeeps, OfDaemon DEF AccountInv
  <2>. QED
    BY <1>0, <1>4, <2>1, <2>2, GoesKeeps
<1>5. ASSUME NEW d \in Daemons, Signer(d) \/ SignerDies(d)
      PROVE  (conn[x].sig = Empty \/ Verifies(x))'
  BY <1>0, <1>5, SignerFrame
<1>6. ASSUME NEW c \in Conns, Talks(c) PROVE (conn[x].sig = Empty \/ Verifies(x))'
  BY <1>0, <1>6, TalksKeeps
<1>7. ASSUME NEW c \in Conns, Signing(c) PROVE (conn[x].sig = Empty \/ Verifies(x))'
  <2>1. /\ public' = public
        /\ \A y \in Conns \ {c} : conn'[y] = conn[y]
        /\ Of(c) \in Daemons /\ pc[Of(c)] = "serve"
        /\ conn'[c].of = conn[c].of /\ conn'[c].signs = conn[c].signs
    BY <1>7, ConnFrame, SigningKeeps DEF Connection, Signing
  <2>2. CASE x # c
    BY <1>0, <2>1, <2>2
  <2>3. ASSUME x = c,
               conn'[c].sig = Empty \/ conn'[c].sig = Signature(Hash(c), public[Of(c)])
        PROVE  (conn[x].sig = Empty \/ Verifies(x))'
    <3>1. Hash(c)' = Hash(c) /\ Empty' = Empty
      BY <2>1 DEF Hash, Empty
    <3>. QED
      BY <2>1, <2>3, <3>1 DEF Verifies, Signature
  <2>4. ASSUME NEW v, conn' = [conn EXCEPT ![c].at = "signed", ![c].sig = v]
        PROVE  conn'[c].sig = v
    <3>1. conn' = [conn EXCEPT ![c] = [conn[c] EXCEPT !.at = "signed", !.sig = v]]
      BY <2>4
    <3>2. conn'[c] = [conn[c] EXCEPT !.at = "signed", !.sig = v]
      BY <3>1 DEF TypeOK
    <3>. QED
      BY <3>2 DEF TypeOK, ConnRecord
  <2>5. CASE x = c /\ SignHere(c)
    <3>1. key[Of(c)] = public[Of(c)]
      BY <2>1, <2>5 DEF SignHere, CredInv
    <3>. QED
      BY <2>3, <2>4, <2>5, <3>1 DEF SignHere, Signed
  <2>6. CASE x = c /\ (TakeLock(c) \/ RequestFrame(c))
    BY <2>6 DEF TakeLock, RequestFrame, ConnAt, TypeOK, ConnRecord
  <2>7. CASE x = c /\ ReplyFrame(c)
    <3>1. lock[Of(c)] = c
      BY <2>1, <2>7, DaemonAssumption DEF ReplyFrame, In, LockInv
    <3>2. fromSigner[Of(c)] = <<Signature(Hash(c), public[Of(c)])>>
      BY <2>1, <2>7, <3>1 DEF ReplyFrame, SocketInv, Socket
    <3>3. Head(fromSigner[Of(c)]) = Signature(Hash(c), public[Of(c)])
      BY <3>2, OneFrame
    <3>. QED
      BY <2>3, <2>4, <2>7, <3>3 DEF ReplyFrame, Signed
  <2>8. CASE x = c /\ RequestFails(c)
    BY <2>3, <2>4, <2>8 DEF RequestFails, Signed
  <2>. QED
    BY <1>7, <2>2, <2>5, <2>6, <2>7, <2>8 DEF Signing
<1>. QED
  BY <1>1, <1>2, <1>3, <1>4, <1>5, <1>6, <1>7
     DEF Next, Main, Ends, Goes, Connection, Talks, Signing

-----------------------------------------------------------------------------
(* The theorems.                                                           *)

IInv ==
    TypeOK /\ KeyInv /\ CredInv /\ AccountInv /\ LockInv /\ SocketInv /\ SignedInv

\* The invariant holds before anything is started.
LEMMA InitIInv == ASSUME Init PROVE IInv
<1>1. TypeOK
  BY InitType
<1>2. \A d \in Daemons : pc[d] = "off"
  BY DEF Init
<1>3. \A c \in Conns : Of(c) = None
  BY DEF Init, Of, Unused
<1>4. KeyInv
  BY <1>2 DEF KeyInv, Init
<1>5. CredInv /\ SocketInv
  BY <1>2 DEF CredInv, SocketInv
<1>6. AccountInv /\ LockInv /\ SignedInv
  BY <1>3 DEF AccountInv, LockInv, SignedInv
<1>. QED
  BY <1>1, <1>4, <1>5, <1>6 DEF IInv

\* Every step keeps the invariant.
LEMMA NextIInv == ASSUME IInv, [Next]_vars PROVE IInv'
  BY TypeKept, KeyKept, CredKept, AccountKept, LockKept, SocketKept, SignedKept DEF IInv

\* Whatever starts, connects, signs and dies, the invariant holds.
LEMMA Inductive == Spec => []IInv
<1>1. Init => IInv
  BY InitIInv
<1>2. IInv /\ [Next]_vars => IInv'
  BY NextIInv
<1>. QED
  BY <1>1, <1>2, PTL DEF Spec

\* load_or_create_host_key with create_new: however many starts race for the
\* file and wherever they are killed, clients are only ever shown the key that
\* is in it.
THEOREM HostKeyUnique == Spec => []OneHostKey
<1>1. IInv => OneHostKey
  BY DEF IInv, KeyInv, Written, OneHostKey
<1>. QED
  BY <1>1, Inductive, PTL

\* drop_daemon_privileges and UserContext: a daemon that serves, and every
\* session of it, has no more rights than its command line gives it.
THEOREM PrivilegesConfined == Spec => []Confined
<1>1. ASSUME IInv PROVE Confined
  <2>1. ASSUME NEW d \in Daemons, pc[d] = "serve"
        PROVE  /\ Privsep(d) => key[d] = None
               /\ args[d].sandbox => "root" \notin {cred[d].uid, cred[d].gid, cred[d].groups}
    <3>1. cred[d] = IF MustDrop(d) THEN As(Nobody) ELSE StartCred(d)
      BY <1>1, <2>1 DEF IInv, CredInv
    <3>2. args[d].sandbox => cred[d] = As(Nobody) \/ cred[d] = As("shhd")
      BY <3>1 DEF MustDrop, StartCred
    <3>. QED
      BY <1>1, <2>1, <3>2 DEF IInv, CredInv, As, Nobody
  <2>2. ASSUME NEW c \in Conns, In(c, "session") PROVE AccountOk(c)
    BY <1>1, <2>2 DEF IInv, AccountInv, In
  <2>. QED
    BY <2>1, <2>2 DEF Confined, AccountOk
<1>. QED
  BY <1>1, Inductive, PTL

\* MonitorSigner::sign and serve: the mutex over a round trip keeps apart the
\* signatures of any number of connections, also when a signer dies.
THEOREM SignaturesMatch == Spec => []RightSignature
<1>1. IInv => RightSignature
  BY DEF IInv, SignedInv, RightSignature, In
<1>. QED
  BY <1>1, Inductive, PTL

-----------------------------------------------------------------------------
(* The SFTP server and client: the inductive invariant, part by part.      *)

\* Sequences of any kind, and that p is the first n elements of w.
IsList(q) == Len(q) \in Nat /\ q = [i \in 1..Len(q) |-> q[i]]
Begins(p, w, n) ==
    n \in Nat /\ n <= Len(w) /\ Len(p) = n /\ \A i \in 1..n : p[i] = w[i]

\* The files.
Node == [kind : {"file", "dir"}, data : Seq(Byte)]
Disk == nodes \in Seq(Node) /\ names \in [Names -> 0..Len(nodes)]

\* What a server process has open, and what its client knows of it.
FileObject == [kind : {"file"}, node : 1..Len(nodes), flags : SUBSET Flags]
DirObject == [kind : {"dir"}, entries : Seq(Names), next : Nat]
Table(s) ==
    /\ handles[s] = [h \in DOMAIN handles[s] |-> handles[s][h]]
    /\ IsFiniteSet(DOMAIN handles[s]) /\ IsFiniteSet(held[s])
    /\ Cardinality(DOMAIN handles[s]) <= MaxHandles
    /\ \A h \in DOMAIN handles[s] :
         /\ h \in Nat /\ h < next_handle[s]
         /\ handles[s][h] \in FileObject \cup DirObject
    /\ held[s] = {<<h, Object(handles[s][h])>> : h \in DOMAIN handles[s]}
Tables ==
    /\ handles = [s \in Session |-> handles[s]]
    /\ held = [s \in Session |-> held[s]]
    /\ next_handle \in [Session -> Nat]
    /\ \A s \in Session : Table(s)

\* A request or a reply is under way, not both.
Wire(s) ==
    /\ req[s] = <<>> \/ (req[s] = <<Asked(s)>> /\ Asked(s) \in Request)
    /\ rep[s] = <<>> \/ rep[s] = <<Head(rep[s])>>
    /\ req[s] = <<>> \/ rep[s] = <<>>
Wires ==
    /\ req = [s \in Session |-> req[s]] /\ rep = [s \in Session |-> rep[s]]
    /\ link = [s \in Session |-> link[s]] /\ phase = [s \in Session |-> phase[s]]
    /\ \A s \in Session : Wire(s)
    /\ menu \subseteq Request /\ left \in Nat /\ faults \in Nat

\* The state of our client.
AnyJob == Command \cup {NoJob}
Client1 ==
    /\ todo \in Seq(Command) /\ job \in AnyJob
    /\ offset \in Nat /\ leaked \in Nat /\ target \in 0..Len(nodes)
    /\ dirty \in BOOLEAN
    /\ IsList(got) /\ IsList(base)
    /\ awaits = "version" => job = NoJob
    /\ awaits = "gone" => link["ours"] # "up"

\* A handle is on what our command opened.
Ours == handles["ours"]
Match(h) ==
    /\ h \in DOMAIN Ours
    /\ job.kind = "list" => Ours[h].kind = "dir" /\ Ours[h].entries = base
    /\ job.kind = "download" =>
         /\ Ours[h].kind = "file" /\ Ours[h].node = target /\ Ours[h].flags = {"READ"}
         /\ ~dirty => nodes[target].data = base
    /\ job.kind = "upload" =>
         /\ Ours[h].kind = "file" /\ Ours[h].node = target
         /\ Ours[h].flags = {"WRITE", "CREAT", "TRUNC"}

\* What our command asks for, as long as the server has not handled it.
NamesOf(q) == [i \in 1..Len(q) |-> q[i].name]
Opening(j) ==
    CASE j.kind = "list" -> [op |-> "OPENDIR", path |-> j.path]
      [] j.kind = "download" -> [op |-> "OPEN", path |-> j.path, flags |-> {"READ"}]
      [] j.kind = "upload" ->
           [op |-> "OPEN", path |-> j.path, flags |-> {"WRITE", "CREAT", "TRUNC"}]
Fresh == got = <<>> /\ target = 0 /\ base = <<>> /\ offset = 0
AsksInit(q) ==
    job = NoJob /\ q = INIT /\ phase["ours"] = "init" /\ awaits \in {"version", "gone"}
AsksOpen(q) ==
    /\ job.kind \in Jobs /\ q = Opening(job)
    /\ Fresh /\ result = "err" /\ awaits \in {"open", "gone"}
AsksReaddir(q) ==
    /\ job.kind = "list" /\ q = [op |-> "READDIR", handle |-> handle]
    /\ Match(handle) /\ result = "err" /\ awaits \in {"read", "gone"}
    /\ Begins(NamesOf(got), base, Ours[handle].next)
AsksRead(q) ==
    /\ job.kind = "download"
    /\ q = [op |-> "READ", handle |-> handle, offset |-> offset, len |-> Chunk]
    /\ Match(handle) /\ result = "err" /\ awaits \in {"read", "gone"}
    /\ ~dirty => Begins(got, base, offset)
AsksWrite(q) ==
    /\ job.kind = "upload" /\ q.op = "WRITE"
    /\ sent \in Nat \ {0} /\ offset + sent <= Len(job.source)
    /\ q = [op |-> "WRITE", handle |-> handle, offset |-> offset,
            data |-> SubSeq(job.source, offset + 1, offset + sent)]
    /\ Match(handle) /\ result = "err" /\ awaits \in {"write", "gone"}
    /\ ~dirty => Begins(nodes[target].data, job.source, offset)
AsksClose(q) ==
    /\ job.kind \in Jobs /\ q = [op |-> "CLOSE", handle |-> handle]
    /\ Match(handle) /\ awaits \in {"close", "gone"}
AsksOne(q) ==
    job.kind = "one" /\ q \in OneRequest /\ result = "err" /\ awaits \in {"status", "gone"}
Asks(q) ==
    \/ AsksInit(q) \/ AsksOpen(q) \/ AsksReaddir(q) \/ AsksRead(q) \/ AsksWrite(q)
    \/ AsksClose(q) \/ AsksOne(q)
Pending == req["ours"] # <<>> => Asks(Asked("ours"))

\* What the reply, not read yet, says to a command that has asked.
SaysOpened(r) ==
    /\ job.kind \in Jobs /\ got = <<>> /\ offset = 0 /\ result = "err"
    /\ r.type \in {"HANDLE", "STATUS"}
    /\ r.type = "HANDLE" =>
         /\ Match(r.handle)
         /\ job.kind = "list" => Ours[r.handle].next = 0
         /\ job.kind = "upload" /\ ~dirty => nodes[target].data = <<>>
SaysRead(r) ==
    /\ job.kind \in {"list", "download"} /\ Match(handle) /\ result = "err"
    /\ r.type \in {"NAME", "DATA", "STATUS"}
    /\ r.type = "NAME" =>
         /\ job.kind = "list" /\ IsList(r.entries)
         /\ Begins(NamesOf(got \o r.entries), base, Ours[handle].next)
    /\ r.type = "DATA" =>
         /\ job.kind = "download" /\ IsList(r.data)
         /\ ~dirty => Begins(got \o r.data, base, offset + Len(r.data))
    /\ r.type = "STATUS" /\ r.code = "EOF" =>
         /\ job.kind = "list" => NamesOf(got) = base
         /\ job.kind = "download" /\ ~dirty => got = base
SaysWritten(r) ==
    /\ job.kind = "upload" /\ Match(handle) /\ result = "err"
    /\ sent \in Nat \ {0} /\ offset + sent <= Len(job.source)
    /\ r.type = "STATUS"
    /\ r.code = "OK" /\ ~dirty => Begins(nodes[target].data, job.source, offset + sent)
Says(r) ==
    /\ awaits \notin {"idle", "gone"}
    /\ awaits = "open" => SaysOpened(r)
    /\ awaits = "read" => SaysRead(r)
    /\ awaits = "write" => SaysWritten(r)
    /\ awaits = "status" => job.kind = "one"
Replied == Received => Says(Answer)

\* What the command that runs, or ran last, has to show for it.
Shows ==
    /\ job.kind = "list" =>
         IsPrefix(NamesOf(got), base) /\ (result = "ok" => NamesOf(got) = base)
    /\ job.kind = "download" /\ ~dirty =>
         IsPrefix(got, base) /\ (result = "ok" => got = base)
    /\ job.kind = "upload" /\ target # 0 /\ ~dirty =>
         /\ IsPrefix(nodes[target].data, job.source)
         /\ result = "ok" => nodes[target].data = job.source

\* How many handles our client has to close.
Owes ==
    \/ awaits \in {"read", "write"}
    \/ awaits = "close" /\ req["ours"] # <<>>
    \/ awaits = "open" /\ Got("HANDLE")
Counted ==
    link["ours"] = "up" => Cardinality(held["ours"]) = leaked + (IF Owes THEN 1 ELSE 0)

OursInv == Pending /\ Replied /\ Shows /\ Counted
SftpInv == Disk /\ Tables /\ Wires /\ Client1 /\ OursInv

\* A name for a stretch of a list, and for one list after another.
Stretch(q, a, n) == SubSeq(q, a, n)
Join(p, q) == p \o q

\* Lists are sequences ...
LEMMA ListIsSeq == ASSUME NEW q, IsList(q) PROVE \E S : q \in Seq(S)
<1> DEFINE S == {q[i] : i \in 1..Len(q)}  n == Len(q)
<1>1. n \in Nat /\ q = [i \in 1..n |-> q[i]]
  BY DEF IsList
<1>2. \A i \in 1..n : q[i] \in S
  OBVIOUS
<1> HIDE DEF S, n
<1>3. q \in [1..n -> S]
  BY <1>1, <1>2
<1>4. q \in Seq(S)
  BY <1>1, <1>3, SeqDef
<1> QED  BY <1>4

\* ... and sequences are lists.
LEMMA SeqIsList == ASSUME NEW S, NEW q \in Seq(S) PROVE IsList(q) /\ DOMAIN q = 1..Len(q)
BY LenProperties DEF IsList

\* A list of a length.
LEMMA ListMade ==
    ASSUME NEW n \in Nat, NEW q, q = [i \in 1..n |-> q[i]] PROVE IsList(q) /\ Len(q) = n
<1> DEFINE S == {q[i] : i \in 1..n}
<1>1. \A i \in 1..n : q[i] \in S
  OBVIOUS
<1> HIDE DEF S
<1>2. q \in Seq(S)
  <2>1. q \in [1..n -> S]
    BY <1>1
  <2> QED  BY <2>1, SeqDef
<1>3. DOMAIN q = 1..n
  OBVIOUS
<1>4. Len(q) \in Nat /\ DOMAIN q = 1..Len(q)
  BY <1>2, LenProperties
<1>5. Len(q) = n
  BY <1>3, <1>4
<1> QED  BY <1>5 DEF IsList

\* Lists with the same elements are the same.
LEMMA SameList ==
    ASSUME NEW p, NEW q, IsList(p), IsList(q), Len(p) = Len(q),
           \A i \in 1..Len(p) : p[i] = q[i]
    PROVE  p = q
BY DEF IsList

\* One list after another.
LEMMA Joined ==
    ASSUME NEW p, NEW q, IsList(p), IsList(q), NEW r, r = Join(p, q)
    PROVE  /\ IsList(r) /\ Len(r) = Len(p) + Len(q)
           /\ \A i \in 1..Len(p) : r[i] = p[i]
           /\ \A i \in 1..Len(q) : r[Len(p) + i] = q[i]
<1> DEFINE S == {p[i] : i \in 1..Len(p)} \cup {q[i] : i \in 1..Len(q)}
<1>1. p \in Seq(S) /\ q \in Seq(S)
  <2>1. (\A i \in 1..Len(p) : p[i] \in S) /\ \A i \in 1..Len(q) : q[i] \in S
    OBVIOUS
  <2> HIDE DEF S
  <2>2. p \in [1..Len(p) -> S] /\ q \in [1..Len(q) -> S]
    BY <2>1 DEF IsList
  <2> QED  BY <2>2, SeqDef DEF IsList
<1> HIDE DEF S
<1>2. /\ r \in Seq(S) /\ Len(r) = Len(p) + Len(q)
      /\ \A i \in 1..Len(p) + Len(q) : r[i] = IF i <= Len(p) THEN p[i] ELSE q[i - Len(p)]
  BY <1>1, ConcatProperties DEF Join
<1>3. IsList(r)
  BY <1>2, SeqIsList
<1>4. Len(p) \in Nat /\ Len(q) \in Nat
  BY DEF IsList
<1>5. \A i \in 1..Len(p) : r[i] = p[i]
  BY <1>2, <1>4
<1>6. \A i \in 1..Len(q) : r[Len(p) + i] = q[i]
  <2> TAKE i \in 1..Len(q)
  <2>1. Len(p) + i \in 1..Len(p) + Len(q) /\ ~(Len(p) + i <= Len(p)) /\ (Len(p) + i) - Len(p) = i
    BY <1>4
  <2> QED  BY <1>2, <2>1
<1> QED  BY <1>2, <1>3, <1>5, <1>6

\* A stretch of a list.
Cuts(r, q, m, k) == IsList(r) /\ Len(r) = k /\ \A i \in 1..k : r[i] = q[m + i]
LEMMA Cutting ==
    ASSUME NEW q, IsList(q), NEW m \in Nat, NEW n \in Nat, m <= n, n <= Len(q),
           NEW a, a = m + 1, NEW r, r = Stretch(q, a, n), NEW k, k = n - m
    PROVE  Cuts(r, q, m, k)
<1>1. PICK S : q \in Seq(S)
  BY ListIsSeq
<1>2. \A i \in a..n : q[i] \in S
  BY <1>1, ElementOfSeq DEF IsList
<1>3. /\ r \in Seq(S)
      /\ Len(r) = IF a <= n THEN n - a + 1 ELSE 0
      /\ \A i \in 1..n - a + 1 : r[i] = q[a + i - 1]
  BY <1>2, SubSeqProperties DEF Stretch
<1>4. IsList(r)
  BY <1>3, SeqIsList
<1>5. Len(r) = k
  BY <1>3
<1>6. \A i \in 1..k : r[i] = q[m + i]
  <2> TAKE i \in 1..k
  <2>1. i \in 1..n - a + 1 /\ a + i - 1 = m + i
    OBVIOUS
  <2> QED  BY <1>3, <2>1
<1> QED  BY <1>4, <1>5, <1>6 DEF Cuts

\* A list of names.
LEMMA NamesList ==
    ASSUME NEW q, IsList(q)
    PROVE  /\ IsList(NamesOf(q)) /\ Len(NamesOf(q)) = Len(q)
           /\ \A i \in 1..Len(q) : NamesOf(q)[i] = q[i].name
<1> DEFINE n == Len(q)  r == NamesOf(q)
<1>1. n \in Nat /\ r = [i \in 1..n |-> r[i]] /\ \A i \in 1..n : r[i] = q[i].name
  BY DEF IsList, NamesOf
<1> HIDE DEF r, n
<1>2. IsList(r) /\ Len(r) = n
  BY <1>1, ListMade
<1> QED  BY <1>1, <1>2 DEF r, n

\* The first n elements: a prefix, and all of it when n is its length.
LEMMA PrefixOf ==
    ASSUME NEW p, NEW w, NEW n, IsList(p), IsList(w), Begins(p, w, n) PROVE IsPrefix(p, w)
<1>1. n \in Nat /\ Len(p) = n /\ n <= Len(p) /\ n <= Len(w) /\ \A i \in 1..n : p[i] = w[i]
  BY DEF Begins
<1> DEFINE a == SubSeq(p, 1, n)  b == SubSeq(w, 1, n)
<1>2. /\ IsList(a) /\ Len(a) = n /\ \A i \in 1..n : a[i] = p[i]
  <2> DEFINE z == 0  o == 1
  <2>1. a = Stretch(p, o, n) /\ z \in Nat /\ z <= n /\ o = z + 1 /\ n = n - z
        /\ \A i \in 1..n : z + i = i
    BY <1>1 DEF Stretch
  <2> HIDE DEF a, z, o
  <2>2. n \in Nat /\ n <= Len(p)
    BY <1>1
  <2>3. Cuts(a, p, z, n)
    BY <2>1, <2>2, Cutting
  <2> QED  BY <2>1, <2>3 DEF Cuts
<1>3. /\ IsList(b) /\ Len(b) = n /\ \A i \in 1..n : b[i] = w[i]
  <2> DEFINE z == 0  o == 1
  <2>1. b = Stretch(w, o, n) /\ z \in Nat /\ z <= n /\ o = z + 1 /\ n = n - z
        /\ \A i \in 1..n : z + i = i
    BY <1>1 DEF Stretch
  <2> HIDE DEF b, z, o
  <2>2. n \in Nat /\ n <= Len(w)
    BY <1>1
  <2>3. Cuts(b, w, z, n)
    BY <2>1, <2>2, Cutting
  <2> QED  BY <2>1, <2>3 DEF Cuts
<1>4. a = b
  <2> HIDE DEF a, b
  <2> QED  BY <1>1, <1>2, <1>3, SameList
<1> QED  BY <1>1, <1>4 DEF IsPrefix

LEMMA WholeOf ==
    ASSUME NEW p, NEW w, NEW n, IsList(p), IsList(w), Begins(p, w, n), n >= Len(w) PROVE p = w
<1>1. n \in Nat /\ Len(w) \in Nat /\ Len(p) = n /\ n <= Len(w) /\ \A i \in 1..n : p[i] = w[i]
  BY DEF Begins, IsList
<1> QED  BY <1>1, SameList

\* A shorter beginning of a beginning.
LEMMA ShorterBegins ==
    ASSUME NEW p, NEW q, NEW w, NEW n, NEW k, IsList(p), IsList(q), IsList(w),
           Begins(p, w, n), Begins(q, p, k)
    PROVE  Begins(q, w, k)
BY DEF Begins, IsList

\* What is added is the next stretch.
LEMMA BeginsMore ==
    ASSUME NEW p, NEW m, NEW w, NEW n \in Nat, NEW k \in Nat, IsList(p), IsList(w),
           Begins(p, w, n), n <= k, k <= Len(w), m = Stretch(w, n + 1, k), NEW r, r = Join(p, m)
    PROVE  Begins(r, w, k)
<1>1. IsList(m) /\ Len(m) = k - n /\ \A i \in 1..k - n : m[i] = w[n + i]
  <2> DEFINE a == n + 1  c == k - n
  <2>1. m = Stretch(w, a, k) /\ a = n + 1 /\ c = k - n
    OBVIOUS
  <2> HIDE DEF a, c
  <2>2. Cuts(m, w, n, c)
    BY <2>1, Cutting
  <2> QED  BY <2>2 DEF c, Cuts
<1>2. Len(p) = n /\ \A i \in 1..n : p[i] = w[i]
  BY DEF Begins
<1>3. /\ Len(r) = k /\ \A i \in 1..n : r[i] = p[i]
      /\ \A i \in 1..k - n : r[n + i] = m[i]
  <2>1. /\ Len(r) = Len(p) + Len(m)
        /\ \A i \in 1..Len(p) : r[i] = p[i]
        /\ \A i \in 1..Len(m) : r[Len(p) + i] = m[i]
    BY <1>1, Joined
  <2> QED  BY <1>1, <1>2, <2>1
<1>4. ASSUME NEW i \in 1..k PROVE r[i] = w[i]
  <2>1. CASE i <= n
    <3>1. i \in 1..n
      BY <2>1
    <3> QED  BY <1>2, <1>3, <3>1
  <2>2. CASE ~(i <= n)
    <3> DEFINE j == i - n
    <3>1. j \in 1..k - n /\ n + j = i
      BY <2>2
    <3> HIDE DEF j
    <3>2. r[n + j] = m[j] /\ m[j] = w[n + j]
      BY <1>1, <1>3, <3>1
    <3> QED  BY <3>1, <3>2
  <2> QED  BY <2>1, <2>2
<1> QED  BY <1>3, <1>4 DEF Begins

-----------------------------------------------------------------------------
(* The file system.                                                        *)

\* The lesser of two numbers.
LEMMA Lesser ==
    ASSUME NEW a \in Nat, NEW b \in Nat
    PROVE  Min({a, b}) \in Nat /\ Min({a, b}) <= a /\ Min({a, b}) <= b /\ Min({a, b}) \in {a, b}
<1>1. \E x \in {a, b} : \A y \in {a, b} : x <= y
  <2>1. CASE a <= b
    BY <2>1
  <2>2. CASE ~(a <= b)
    BY <2>2
  <2> QED  BY <2>1, <2>2
<1>2. Min({a, b}) \in {a, b} /\ \A y \in {a, b} : Min({a, b}) <= y
  BY <1>1 DEF Min
<1> QED  BY <1>2

\* What is written is data.
LEMMA OverwrittenData ==
    ASSUME NEW d \in Seq(Byte), NEW m \in Seq(Byte), NEW o \in Nat
    PROVE  Overwritten(d, o, m) \in Seq(Byte)
<1> DEFINE end == o + Len(m)  k == IF end > Len(d) THEN end ELSE Len(d)
           r == Overwritten(d, o, m)
<1>1. Len(d) \in Nat /\ Len(m) \in Nat
  BY LenProperties
<1>2. k \in Nat
  BY <1>1
<1>3. r = [i \in 1..k |-> IF i > o /\ i <= end THEN m[i - o]
                          ELSE IF i <= Len(d) THEN d[i] ELSE Zero]
  BY DEF Overwritten
<1>4. ASSUME NEW i \in 1..k
      PROVE  (IF i > o /\ i <= end THEN m[i - o] ELSE IF i <= Len(d) THEN d[i] ELSE Zero) \in Byte
  <2>1. CASE i > o /\ i <= end
    <3>1. i - o \in 1..Len(m)
      BY <1>1, <2>1
    <3> QED  BY <2>1, <3>1, ElementOfSeq
  <2>2. CASE ~(i > o /\ i <= end) /\ i <= Len(d)
    <3>1. i \in 1..Len(d)
      BY <1>1, <2>2
    <3> QED  BY <2>2, <3>1, ElementOfSeq
  <2>3. CASE ~(i > o /\ i <= end) /\ ~(i <= Len(d))
    BY <2>3, SftpAssumption
  <2> QED  BY <2>1, <2>2, <2>3
<1> HIDE DEF k, end
<1>5. r \in [1..k -> Byte]
  BY <1>3, <1>4
<1> HIDE DEF r
<1> QED  BY <1>2, <1>5, SeqDef DEF r

LEMMA ResizedData ==
    ASSUME NEW d \in Seq(Byte), NEW n \in Nat PROVE Resized(d, n) \in Seq(Byte)
<1>1. ASSUME NEW i \in 1..n PROVE (IF i <= Len(d) THEN d[i] ELSE Zero) \in Byte
  <2>1. CASE i <= Len(d)
    <3>1. i \in 1..Len(d)
      BY <2>1, LenProperties
    <3> QED  BY <2>1, <3>1, ElementOfSeq
  <2>2. CASE ~(i <= Len(d))
    BY <2>2, SftpAssumption
  <2> QED  BY <2>1, <2>2
<1>2. Resized(d, n) \in [1..n -> Byte]
  BY <1>1 DEF Resized
<1> QED  BY <1>2, SeqDef

\* Writing at the end of a file appends.
LEMMA WrittenBehind ==
    ASSUME NEW d \in Seq(Byte), NEW m \in Seq(Byte), NEW o, o = Len(d)
    PROVE  Overwritten(d, o, m) = Join(d, m)
<1> DEFINE end == o + Len(m)  r == Overwritten(d, o, m)  j == Join(d, m)
<1>1. Len(d) \in Nat /\ Len(m) \in Nat /\ end \in Nat
  BY LenProperties
<1>2. (IF end > Len(d) THEN end ELSE Len(d)) = end
  BY <1>1
<1>3. r = [i \in 1..end |-> IF i > o /\ i <= end THEN m[i - o]
                            ELSE IF i <= Len(d) THEN d[i] ELSE Zero]
  BY <1>2 DEF Overwritten
<1>4. IsList(d) /\ IsList(m)
  BY SeqIsList
<1>5. /\ IsList(j) /\ Len(j) = end /\ \A i \in 1..Len(d) : j[i] = d[i]
      /\ \A i \in 1..Len(m) : j[Len(d) + i] = m[i]
  BY <1>4, Joined
<1>6. ASSUME NEW i \in 1..end
      PROVE  j[i] = IF i > o /\ i <= end THEN m[i - o]
                    ELSE IF i <= Len(d) THEN d[i] ELSE Zero
  <2>1. CASE i > o
    <3> DEFINE h == i - o
    <3>1. h \in 1..Len(m) /\ Len(d) + h = i /\ i <= end
      BY <1>1, <2>1
    <3> HIDE DEF h, j
    <3>2. j[Len(d) + h] = m[h]
      BY <1>5, <3>1
    <3>3. j[i] = m[h]
      BY <3>1, <3>2
    <3>4. j[i] = m[i - o]
      BY <3>3 DEF h
    <3> QED  BY <2>1, <3>1, <3>4
  <2>2. CASE ~(i > o)
    <3>1. i \in 1..Len(d) /\ i <= Len(d)
      BY <1>1, <2>2
    <3> HIDE DEF j
    <3>2. j[i] = d[i]
      BY <1>5, <3>1
    <3> QED  BY <2>2, <3>1, <3>2
  <2> QED  BY <2>1, <2>2
<1> HIDE DEF end, j
<1>7. j = [i \in 1..end |-> j[i]]
  BY <1>5 DEF IsList
<1> HIDE DEF r
<1>8. r = j
  BY <1>3, <1>6, <1>7
<1> QED  BY <1>8 DEF r, j

\* Nodes are added at the end, and data are replaced.
Grown == Disk' /\ Len(nodes') >= Len(nodes)

LEMMA NodeFacts ==
    ASSUME Disk
    PROVE  /\ Len(nodes) \in Nat /\ DOMAIN nodes = 1..Len(nodes)
           /\ \A i \in 1..Len(nodes) : nodes[i] \in Node /\ nodes[i].data \in Seq(Byte)
           /\ \A n \in Names : names[n] \in 0..Len(nodes)
<1>1. \A i \in 1..Len(nodes) : nodes[i] \in Node
  BY ElementOfSeq DEF Disk
<1> QED  BY <1>1, LenProperties DEF Disk, Node

LEMMA CreateGrows ==
    ASSUME Disk, NEW n \in Names, NEW kind \in {"file", "dir"}, Create(n, kind)
    PROVE  /\ Grown /\ Len(nodes') = Len(nodes) + 1 /\ names'[n] = Len(nodes) + 1
           /\ \A i \in 1..Len(nodes) : nodes'[i] = nodes[i]
           /\ nodes'[Len(nodes) + 1] = [kind |-> kind, data |-> <<>>]
<1> DEFINE x == [kind |-> kind, data |-> <<>>]
<1>1. x \in Node
  BY EmptySeq DEF Node
<1>2. Len(nodes) \in Nat /\ nodes' = Append(nodes, x) /\ nodes \in Seq(Node)
  BY NodeFacts DEF Create, Disk
<1>3. /\ nodes' \in Seq(Node) /\ Len(nodes') = Len(nodes) + 1
      /\ \A i \in 1..Len(nodes) : nodes'[i] = nodes[i]
      /\ nodes'[Len(nodes) + 1] = x
  <2> HIDE DEF x
  <2> QED  BY <1>1, <1>2, AppendProperties
<1>4. names' = [names EXCEPT ![n] = Len(nodes) + 1]
  BY DEF Create
<1>5. names' \in [Names -> 0..Len(nodes')] /\ names'[n] = Len(nodes) + 1
  BY <1>2, <1>3, <1>4 DEF Disk
<1> QED  BY <1>2, <1>3, <1>5 DEF Grown, Disk

LEMMA SetDataGrows ==
    ASSUME Disk, NEW i \in 1..Len(nodes), NEW d \in Seq(Byte), SetData(i, d)
    PROVE  /\ Grown /\ Len(nodes') = Len(nodes) /\ nodes'[i].data = d
           /\ nodes'[i].kind = nodes[i].kind
           /\ \A k \in 1..Len(nodes) : k # i => nodes'[k] = nodes[k]
<1>1. /\ Len(nodes) \in Nat /\ DOMAIN nodes = 1..Len(nodes)
      /\ \A k \in 1..Len(nodes) : nodes[k] \in Node
  BY NodeFacts
<1>2. nodes' = [nodes EXCEPT ![i].data = d] /\ names' = names
  BY DEF SetData
<1> DEFINE x == [nodes[i] EXCEPT !.data = d]  n == Len(nodes)
<1>3. x \in Node /\ x.data = d /\ x.kind = nodes[i].kind
  BY <1>1 DEF Node
<1>4. nodes \in [1..n -> Node]
  BY <1>1 DEF Disk
<1>5. nodes' = [nodes EXCEPT ![i] = x]
  BY <1>2
<1> HIDE DEF x
<1>6. nodes' \in [1..n -> Node] /\ nodes'[i] = x /\ \A k \in 1..n : k # i => nodes'[k] = nodes[k]
  BY <1>3, <1>4, <1>5
<1>7. nodes' \in Seq(Node) /\ Len(nodes') = n
  BY <1>1, <1>6, SeqDef, LenProperties
<1> QED  BY <1>1, <1>2, <1>3, <1>6, <1>7 DEF Grown, Disk

LEMMA SameGrows == ASSUME Disk, UNCHANGED fs PROVE Grown /\ nodes' = nodes /\ names' = names
BY NodeFacts DEF Disk, Grown, fs

LEMMA NamesGrow ==
    ASSUME Disk, UNCHANGED nodes, names' \in [Names -> 0..Len(nodes)] PROVE Grown
BY NodeFacts DEF Disk, Grown

LEMMA ApplySizeGrows ==
    ASSUME Disk, NEW i \in 1..Len(nodes), NEW z, z \subseteq Nat, ApplySize(i, z) PROVE Grown
<1>1. CASE z = {}
  BY <1>1, SameGrows DEF ApplySize
<1>2. CASE z # {}
  <2> DEFINE n == CHOOSE n \in z : TRUE  d == Resized(nodes[i].data, n)
  <2>1. n \in Nat
    BY <1>2
  <2>2. d \in Seq(Byte)
    <3> HIDE DEF n
    <3> QED  BY <2>1, NodeFacts, ResizedData
  <2>3. SetData(i, d)
    BY <1>2 DEF ApplySize
  <2> HIDE DEF d
  <2> QED  BY <2>2, <2>3, SetDataGrows
<1> QED  BY <1>1, <1>2

-----------------------------------------------------------------------------
(* What a handler does to the files and to the table of handles.           *)

\* The fields of a request.
LEMMA PathFields ==
    ASSUME NEW q \in Request
    PROVE  /\ q.op \in {"OPEN", "STAT", "REMOVE", "RMDIR", "MKDIR", "RENAME", "SETSTAT"} =>
                q.path \in Names
           /\ q.op = "RENAME" => q.to \in Names
           /\ q.op = "OPEN" => q.flags \in SUBSET Flags
BY DEF Request, OneRequest

LEMMA HandleFields ==
    ASSUME NEW q \in Request
    PROVE  /\ q.op = "READ" => q.offset \in Nat /\ q.len \in Nat
           /\ q.op = "WRITE" => q.offset \in Nat /\ q.data \in Seq(Byte)
           /\ q.op \in {"SETSTAT", "FSETSTAT"} => q.size \subseteq Nat
BY DEF Request, OneRequest

\* A reply takes the place of the request.
LEMMA ReplySent ==
    ASSUME Wires, NEW s \in Session, NEW r, Reply(s, r)
    PROVE  /\ req'[s] = <<>> /\ rep'[s] = <<r>> /\ Head(rep'[s]) = r
           /\ req' = [f \in Session |-> req'[f]] /\ rep' = [f \in Session |-> rep'[f]]
           /\ \A f \in Session : f # s => req'[f] = req[f] /\ rep'[f] = rep[f]
<1>1. /\ req' = [req EXCEPT ![s] = <<>>] /\ rep' = [rep EXCEPT ![s] = <<r>>]
      /\ req = [f \in Session |-> req[f]] /\ rep = [f \in Session |-> rep[f]]
  BY DEF Wires, Reply
<1>2. /\ req'[s] = <<>> /\ rep'[s] = <<r>>
      /\ \A f \in Session : f # s => req'[f] = req[f] /\ rep'[f] = rep[f]
  BY <1>1
<1>3. req' = [f \in Session |-> req'[f]] /\ rep' = [f \in Session |-> rep'[f]]
  BY <1>1
<1> QED  BY <1>2, <1>3

\* A request that is served is one of those there are.
LEMMA ServedRequest ==
    ASSUME Wires, NEW s \in Session, req[s] # <<>> PROVE Asked(s) \in Request /\ rep[s] = <<>>
BY DEF Wires, Wire

\* What a handle is on.
LEMMA HeldFile ==
    ASSUME Disk, Tables, NEW s \in Session, Holds(s, "file")
    PROVE  /\ HandleOf(s) \in FileObject /\ HandleOf(s).node \in 1..Len(nodes)
           /\ nodes[HandleOf(s).node].data \in Seq(Byte)
<1>1. HandleOf(s) \in FileObject \cup DirObject /\ HandleOf(s).kind = "file"
  BY DEF Tables, Table, Holds, HandleOf
<1>2. HandleOf(s) \in FileObject
  BY <1>1 DEF DirObject
<1>3. HandleOf(s).node \in 1..Len(nodes)
  BY <1>2 DEF FileObject
<1> QED  BY <1>2, <1>3, NodeFacts

LEMMA HeldDir ==
    ASSUME Tables, NEW s \in Session, Holds(s, "dir") PROVE HandleOf(s) \in DirObject
<1>1. HandleOf(s) \in FileObject \cup DirObject /\ HandleOf(s).kind = "dir"
  BY DEF Tables, Table, Holds, HandleOf
<1> QED  BY <1>1 DEF FileObject

\* open(2).
LEMMA OpenGrows ==
    ASSUME Disk, NEW n \in Names, NEW flags, OpenEffect(n, flags)
    PROVE  /\ Grown /\ (Exists(n) => names' = names)
           /\ ~Exists(n) => /\ names'[n] = Len(nodes) + 1 /\ Len(nodes') = Len(nodes) + 1
                            /\ nodes'[names'[n]].data = <<>>
                            /\ \A i \in 1..Len(nodes) : nodes'[i] = nodes[i]
           /\ Exists(n) /\ "TRUNC" \in flags => nodes'[names[n]].data = <<>>
           /\ Exists(n) /\ "TRUNC" \notin flags => UNCHANGED fs
<1>1. CASE ~Exists(n)
  <2>1. Create(n, "file") /\ "file" \in {"file", "dir"}
    BY <1>1 DEF OpenEffect
  <2> QED  BY <1>1, <2>1, CreateGrows
<1>2. CASE Exists(n) /\ "TRUNC" \in flags
  <2>1. SetData(names[n], <<>>) /\ names[n] \in 1..Len(nodes) /\ <<>> \in Seq(Byte)
    BY <1>2, NodeFacts, EmptySeq DEF OpenEffect, Exists
  <2>2. Grown /\ nodes'[names[n]].data = <<>>
    BY <2>1, SetDataGrows
  <2>3. names' = names
    BY <2>1 DEF SetData
  <2> QED  BY <1>2, <2>2, <2>3
<1>3. CASE Exists(n) /\ "TRUNC" \notin flags
  <2>1. UNCHANGED fs
    BY <1>3 DEF OpenEffect
  <2> QED  BY <1>3, <2>1, SameGrows
<1> QED  BY <1>1, <1>2, <1>3

\* pwrite(2), whole or in part.
LEMMA WriteGrows ==
    ASSUME Disk, Tables, NEW s \in Session, Holds(s, "file"), NEW o \in Nat, NEW m \in Seq(Byte),
           SetData(HandleOf(s).node, Overwritten(nodes[HandleOf(s).node].data,
                                                 WriteOffset(HandleOf(s), o), m))
    PROVE  Grown
<1> DEFINE i == HandleOf(s).node  d == nodes[i].data  w == WriteOffset(HandleOf(s), o)
           x == Overwritten(d, w, m)
<1>1. i \in 1..Len(nodes) /\ d \in Seq(Byte)
  BY HeldFile
<1>2. w \in Nat
  BY <1>1, LenProperties DEF WriteOffset
<1>3. x \in Seq(Byte)
  <2> HIDE DEF i, d, w
  <2> QED  BY <1>1, <1>2, OverwrittenData
<1>4. SetData(i, x)
  OBVIOUS
<1> HIDE DEF i, x
<1> QED  BY <1>1, <1>3, <1>4, SetDataGrows

\* Handlers that leave the files alone, ...
LEMMA QuietHandlers ==
    ASSUME NEW s, \/ Handshake(s) \/ OverCap(s) \/ Opendir(s) \/ Close(s) \/ Read(s) \/ Readdir(s)
                  \/ Query(s) \/ NotServed(s) \/ SyscallFails(s)
    PROVE  UNCHANGED fs
BY DEF Handshake, OverCap, Opendir, Close, Read, Readdir, Query, NotServed, SyscallFails, Refuse

\* ... and those that do not.
LEMMA LoudHandlers ==
    ASSUME Disk, Tables, Wires, NEW s \in Session,
           \/ Open(s) \/ Write(s) \/ RemoveFile(s) \/ Mkdir(s) \/ Rmdir(s) \/ Rename(s)
           \/ Setstat(s) \/ Fsetstat(s) \/ WriteStops(s) \/ SetModeFails(s)
    PROVE  Grown
<1> DEFINE q == Asked(s)  n == q.path
<1>1. q \in Request
  BY ServedRequest DEF Open, Write, RemoveFile, Mkdir, Rmdir, Rename, Setstat, Fsetstat, WriteStops,
     SetModeFails, Does, Serving
<1>2. ASSUME UNCHANGED fs PROVE Grown
  BY <1>2, SameGrows
<1>3. ASSUME NEW r, Refuse(s, r) PROVE Grown
  BY <1>2, <1>3 DEF Refuse
<1>4. CASE Open(s)
  <2>1. q.op = "OPEN" /\ (OpenEffect(n, q.flags) \/ Refuse(s, OpenError(n, q.flags)))
    BY <1>4 DEF Open, Serving
  <2>2. n \in Names
    BY <1>1, <2>1, PathFields
  <2> HIDE DEF n, q
  <2> QED  BY <1>3, <2>1, <2>2, OpenGrows
<1>5. CASE Write(s)
  <2>1. q.op = "WRITE"
    BY <1>5 DEF Write, Serving
  <2>2. q.offset \in Nat /\ q.data \in Seq(Byte)
    BY <1>1, <2>1, HandleFields
  <2>3. CASE Refuse(s, "FAILURE")
    BY <1>3, <2>3
  <2>4. CASE ~Refuse(s, "FAILURE")
    <3>1. /\ Holds(s, "file")
          /\ SetData(HandleOf(s).node, Overwritten(nodes[HandleOf(s).node].data,
                                          WriteOffset(HandleOf(s), q.offset), q.data))
      BY <1>5, <2>4 DEF Write
    <3> HIDE DEF q
    <3> QED  BY <2>2, <3>1, WriteGrows
  <2> QED  BY <2>3, <2>4
<1>6. CASE RemoveFile(s) \/ Rmdir(s)
  <2>1. \/ Unlink(n) /\ q.op \in {"REMOVE", "RMDIR"}
        \/ \E r : Refuse(s, r)
    BY <1>6 DEF RemoveFile, Rmdir, Does, Serving
  <2>2. CASE Unlink(n) /\ q.op \in {"REMOVE", "RMDIR"}
    <3>1. n \in Names
      BY <1>1, <2>2, PathFields
    <3>2. UNCHANGED nodes /\ names' \in [Names -> 0..Len(nodes)]
      <4>1. names' = [names EXCEPT ![n] = 0] /\ UNCHANGED nodes
        BY <2>2 DEF Unlink
      <4>2. 0 \in 0..Len(nodes) /\ names \in [Names -> 0..Len(nodes)]
        BY NodeFacts DEF Disk
      <4> QED  BY <4>1, <4>2
    <3> QED  BY <3>2, NamesGrow
  <2> QED  BY <1>3, <2>1, <2>2
<1>7. CASE Mkdir(s)
  <2>1. \/ Create(n, "dir") /\ q.op = "MKDIR"
        \/ \E r : Refuse(s, r)
    BY <1>7 DEF Mkdir, Does, Serving
  <2>2. CASE Create(n, "dir") /\ q.op = "MKDIR"
    <3>1. n \in Names /\ "dir" \in {"file", "dir"}
      BY <1>1, <2>2, PathFields
    <3> HIDE DEF n
    <3> QED  BY <2>2, <3>1, CreateGrows
  <2> QED  BY <1>3, <2>1, <2>2
<1>8. CASE Rename(s)
  <2> DEFINE to == q.to
  <2>1. \/ /\ names' = [names EXCEPT ![n] = IF n = to THEN @ ELSE 0, ![to] = names[n]]
           /\ UNCHANGED nodes /\ q.op = "RENAME"
        \/ \E r : Refuse(s, r)
    BY <1>8 DEF Rename, Does, Serving
  <2>2. CASE /\ names' = [names EXCEPT ![n] = IF n = to THEN @ ELSE 0, ![to] = names[n]]
             /\ UNCHANGED nodes /\ q.op = "RENAME"
    <3>1. n \in Names /\ to \in Names
      BY <1>1, <2>2, PathFields
    <3>2. names' \in [Names -> 0..Len(nodes)]
      BY <2>2, <3>1, NodeFacts DEF Disk
    <3> QED  BY <2>2, <3>2, NamesGrow
  <2> QED  BY <1>3, <2>1, <2>2
<1>9. ASSUME ApplySize(names[n], q.size), q.op = "SETSTAT", Exists(n) PROVE Grown
  <2>1. n \in Names /\ q.size \subseteq Nat
    BY <1>1, <1>9, PathFields, HandleFields
  <2>2. names[n] \in 1..Len(nodes)
    BY <1>9, <2>1, NodeFacts DEF Exists
  <2> HIDE DEF n, q
  <2> QED  BY <1>9, <2>1, <2>2, ApplySizeGrows
<1>10. ASSUME ApplySize(HandleOf(s).node, q.size), q.op = "FSETSTAT", Holds(s, "file") PROVE Grown
  <2>1. HandleOf(s).node \in 1..Len(nodes)
    BY <1>10, HeldFile
  <2>2. q.size \subseteq Nat
    BY <1>1, <1>10, HandleFields
  <2> HIDE DEF q
  <2> QED  BY <1>10, <2>1, <2>2, ApplySizeGrows
<1>11. CASE Setstat(s)
  <2>1. \/ ApplySize(names[n], q.size) /\ q.op = "SETSTAT" /\ Exists(n)
        \/ \E r : Refuse(s, r)
    BY <1>11 DEF Setstat, Does, Serving
  <2> QED  BY <1>3, <1>9, <2>1
<1>12. CASE Fsetstat(s)
  <2>1. \/ ApplySize(HandleOf(s).node, q.size) /\ q.op = "FSETSTAT" /\ Holds(s, "file")
        \/ \E r : Refuse(s, r)
    BY <1>12 DEF Fsetstat, Does, Serving
  <2> QED  BY <1>3, <1>10, <2>1
<1>13. CASE WriteStops(s)
  <2>1. PICK k \in 1..(Len(q.data) - 1) :
            SetData(HandleOf(s).node, Overwritten(nodes[HandleOf(s).node].data,
                       WriteOffset(HandleOf(s), q.offset), SubSeq(q.data, 1, k)))
    BY <1>13 DEF WriteStops
  <2> DEFINE m == SubSeq(q.data, 1, k)
  <2>2. Holds(s, "file") /\ q.op = "WRITE"
    BY <1>13 DEF WriteStops, Serving
  <2>3. q.offset \in Nat /\ q.data \in Seq(Byte)
    BY <1>1, <2>2, HandleFields
  <2>4. m \in Seq(Byte)
    <3>1. \A i \in 1..k : q.data[i] \in Byte
      BY <2>3, ElementOfSeq, LenProperties
    <3> QED  BY <2>1, <3>1, SubSeqProperties
  <2>5. SetData(HandleOf(s).node, Overwritten(nodes[HandleOf(s).node].data,
                       WriteOffset(HandleOf(s), q.offset), m))
    BY <2>1
  <2> HIDE DEF m, q
  <2> QED  BY <2>2, <2>3, <2>4, <2>5, WriteGrows
<1>14. CASE SetModeFails(s)
  <2>1. \/ Create(n, "dir") /\ q.op = "MKDIR"
        \/ ApplySize(names[n], q.size) /\ q.op = "SETSTAT" /\ Exists(n)
        \/ ApplySize(HandleOf(s).node, q.size) /\ q.op = "FSETSTAT" /\ Holds(s, "file")
    BY <1>14 DEF SetModeFails, Serving, IsFile
  <2>2. CASE Create(n, "dir") /\ q.op = "MKDIR"
    <3>1. n \in Names /\ "dir" \in {"file", "dir"}
      BY <1>1, <2>2, PathFields
    <3> HIDE DEF n
    <3> QED  BY <2>2, <3>1, CreateGrows
  <2> QED  BY <1>9, <1>10, <2>1, <2>2
<1> QED  BY <1>4, <1>5, <1>6, <1>7, <1>8, <1>11, <1>12, <1>13, <1>14

\* Whatever a server handles, and however it fails.
Handles(s) == Handle(s) \/ SyscallFails(s) \/ WriteStops(s) \/ SetModeFails(s)
LEMMA DiskKept ==
    ASSUME Disk, Tables, Wires, NEW s \in Session, Handles(s) PROVE Grown
<1>1. CASE \/ Handshake(s) \/ OverCap(s) \/ Opendir(s) \/ Close(s) \/ Read(s) \/ Readdir(s)
           \/ Query(s) \/ NotServed(s) \/ SyscallFails(s)
  BY <1>1, QuietHandlers, SameGrows
<1>2. CASE \/ Open(s) \/ Write(s) \/ RemoveFile(s) \/ Mkdir(s) \/ Rmdir(s) \/ Rename(s)
           \/ Setstat(s) \/ Fsetstat(s) \/ WriteStops(s) \/ SetModeFails(s)
  BY <1>2, LoudHandlers
<1> QED  BY <1>1, <1>2 DEF Handles, Handle

-----------------------------------------------------------------------------
(* What a handler does to the table of handles: nothing, ...               *)
Stays(s) ==
    /\ UNCHANGED <<handles, next_handle>> /\ Head(rep'[s]).type # "HANDLE"
    /\ Asked(s).op = "CLOSE" => Asked(s).handle \notin DOMAIN handles[s]
\* ... a handle on o enters it, with the next number, ...
WithHandle(f, id, o) == [i \in DOMAIN f \cup {id} |-> IF i = id THEN o ELSE f[i]]
Enters(s, o) ==
    /\ Room(s) /\ o \in FileObject' \cup DirObject
    /\ handles' = [handles EXCEPT ![s] = WithHandle(handles[s], next_handle[s], o)]
    /\ next_handle' = [next_handle EXCEPT ![s] = next_handle[s] + 1]
    /\ Head(rep'[s]) = [type |-> "HANDLE", handle |-> next_handle[s]]
\* ... one leaves it, ...
Leaves(s) ==
    /\ Asked(s).op = "CLOSE" /\ Asked(s).handle \in DOMAIN handles[s]
    /\ handles' = [handles EXCEPT ![s] =
                     Restrict(handles[s], DOMAIN handles[s] \ {Asked(s).handle})]
    /\ UNCHANGED next_handle /\ Head(rep'[s]).type = "STATUS"
\* ... or a directory is read further.
Turns(s) ==
    /\ Asked(s).op = "READDIR" /\ Holds(s, "dir")
    /\ \E n \in Nat : handles' = [handles EXCEPT ![s][Asked(s).handle].next = n]
    /\ UNCHANGED next_handle /\ Head(rep'[s]).type = "NAME"

\* Of the other session's table nothing changes.
LEMMA OtherTable ==
    ASSUME Tables, Grown, NEW f \in Session, handles'[f] = handles[f],
           next_handle'[f] = next_handle[f], held'[f] = held[f]
    PROVE  Table(f)'
<1>1. \A o : o \in FileObject => o \in FileObject'
  BY DEF FileObject, Grown, Disk
<1>2. DirObject' = DirObject
  BY DEF DirObject
<1>3. Table(f)
  BY DEF Tables
<1> QED  BY <1>1, <1>2, <1>3 DEF Table, Object

\* The history goes with the table.
LEMMA StaysHeld ==
    ASSUME Tables, NEW s \in Session, Stays(s), Recorded(s)
    PROVE  UNCHANGED held
<1>1. Table(s) /\ held = [f \in Session |-> held[f]]
  BY DEF Tables
<1>2. held' = [held EXCEPT ![s] = IF Asked(s).op = "CLOSE"
                                    THEN {x \in held[s] : x[1] # Asked(s).handle} ELSE held[s]]
  BY DEF Stays, Recorded
<1>3. Asked(s).op = "CLOSE" => {x \in held[s] : x[1] # Asked(s).handle} = held[s]
  <2> SUFFICES ASSUME Asked(s).op = "CLOSE", NEW x \in held[s] PROVE x[1] # Asked(s).handle
    OBVIOUS
  <2>1. PICK h \in DOMAIN handles[s] : x = <<h, Object(handles[s][h])>>
    BY <1>1 DEF Table
  <2> QED  BY <2>1 DEF Stays
<1> QED  BY <1>1, <1>2, <1>3

LEMMA TablesStay ==
    ASSUME Disk, Grown, Tables, NEW s \in Session, Stays(s), Recorded(s)
    PROVE  Tables'
<1>1. UNCHANGED <<handles, next_handle, held>>
  BY StaysHeld DEF Stays
<1> QED  BY <1>1, OtherTable DEF Tables

LEMMA EntersHeld ==
    ASSUME Tables, NEW s \in Session, NEW o, Enters(s, o), Recorded(s)
    PROVE  /\ held' = [held EXCEPT ![s] = held[s] \cup {<<next_handle[s], Object(o)>>}]
           /\ next_handle[s] \notin DOMAIN handles[s]
           /\ handles'[s] = WithHandle(handles[s], next_handle[s], o)
           /\ handles'[s][next_handle[s]] = o
           /\ Cardinality(held'[s]) = Cardinality(held[s]) + 1 /\ IsFiniteSet(held'[s])
<1> DEFINE id == next_handle[s]  x == <<id, Object(o)>>
<1>1. Table(s) /\ held = [f \in Session |-> held[f]] /\ handles = [f \in Session |-> handles[f]]
      /\ id \in Nat
  BY DEF Tables
<1>2. id \notin DOMAIN handles[s]
  BY <1>1 DEF Table
<1>3. handles'[s] = WithHandle(handles[s], id, o)
  BY <1>1 DEF Enters
<1>4. handles'[s][id] = o
  BY <1>3 DEF WithHandle
<1>5. held' = [held EXCEPT ![s] = held[s] \cup {x}]
  <2>1. Head(rep'[s]).type = "HANDLE" /\ Head(rep'[s]).handle = id
    BY DEF Enters
  <2> QED  BY <1>4, <2>1 DEF Recorded
<1>6. x \notin held[s]
  <2> SUFFICES ASSUME x \in held[s] PROVE FALSE
    OBVIOUS
  <2>1. PICK h \in DOMAIN handles[s] : x = <<h, Object(handles[s][h])>>
    BY <1>1 DEF Table
  <2> QED  BY <1>2, <2>1
<1>7. IsFiniteSet(held[s])
  BY <1>1 DEF Table
<1>8. held'[s] = held[s] \cup {x}
  BY <1>1, <1>5
<1> HIDE DEF x
<1>9. Cardinality(held[s] \cup {x}) = Cardinality(held[s]) + 1 /\ IsFiniteSet(held[s] \cup {x})
  BY <1>6, <1>7, FS_AddElement
<1> QED  BY <1>2, <1>3, <1>4, <1>5, <1>8, <1>9 DEF x

LEMMA TablesEnter ==
    ASSUME Disk, Grown, Tables, NEW s \in Session, NEW o, Enters(s, o), Recorded(s)
    PROVE  Tables'
<1> DEFINE id == next_handle[s]  D == DOMAIN handles[s]  H == handles[s]
<1>1. Table(s) /\ held = [f \in Session |-> held[f]] /\ handles = [f \in Session |-> handles[f]]
      /\ next_handle \in [Session -> Nat]
  BY DEF Tables
<1>2. /\ held' = [held EXCEPT ![s] = held[s] \cup {<<id, Object(o)>>}]
      /\ id \notin D /\ handles'[s] = WithHandle(H, id, o) /\ IsFiniteSet(held'[s])
  BY EntersHeld
<1>3. /\ handles' = [f \in Session |-> handles'[f]] /\ held' = [f \in Session |-> held'[f]]
      /\ next_handle' \in [Session -> Nat] /\ next_handle'[s] = id + 1
      /\ held'[s] = held[s] \cup {<<id, Object(o)>>}
      /\ \A f \in Session : f # s => /\ handles'[f] = handles[f] /\ held'[f] = held[f]
                                     /\ next_handle'[f] = next_handle[f]
  <2> DEFINE X == WithHandle(H, id, o)  Y == held[s] \cup {<<id, Object(o)>>}
  <2>1. /\ handles' = [handles EXCEPT ![s] = X] /\ held' = [held EXCEPT ![s] = Y]
        /\ next_handle' = [next_handle EXCEPT ![s] = id + 1]
    BY <1>2 DEF Enters
  <2> HIDE DEF X, Y
  <2>2. /\ handles' = [f \in Session |-> handles'[f]]
        /\ \A f \in Session : f # s => handles'[f] = handles[f]
    BY <1>1, <2>1
  <2>3. /\ held' = [f \in Session |-> held'[f]] /\ held'[s] = Y
        /\ \A f \in Session : f # s => held'[f] = held[f]
    BY <1>1, <2>1
  <2>4. /\ next_handle' \in [Session -> Nat] /\ next_handle'[s] = id + 1
        /\ \A f \in Session : f # s => next_handle'[f] = next_handle[f]
    BY <1>1, <2>1
  <2> QED  BY <2>2, <2>3, <2>4 DEF Y
<1>4. DOMAIN handles'[s] = D \cup {id}
  BY <1>2 DEF WithHandle
<1>5. \A i \in D : handles'[s][i] = H[i]
  BY <1>2 DEF WithHandle
<1>6. handles'[s][id] = o
  BY <1>2 DEF WithHandle
<1>7. IsFiniteSet(D \cup {id}) /\ Cardinality(D \cup {id}) <= MaxHandles
  <2>1. IsFiniteSet(D) /\ Cardinality(D) < MaxHandles /\ MaxHandles \in Nat
    BY <1>1, SftpAssumption DEF Table, Enters, Room
  <2>2. Cardinality(D \cup {id}) = Cardinality(D) + 1 /\ Cardinality(D) \in Nat
    BY <1>2, <2>1, FS_AddElement, FS_CardinalityType
  <2>3. IsFiniteSet(D \cup {id})
    BY <2>1, FS_AddElement
  <2> QED  BY <2>1, <2>2, <2>3
<1>8. \A i \in D \cup {id} : /\ i \in Nat /\ i < id + 1
                             /\ handles'[s][i] \in FileObject' \cup DirObject'
  <2>1. \A x : x \in FileObject => x \in FileObject'
    BY DEF FileObject, Grown, Disk
  <2>2. DirObject' = DirObject
    BY DEF DirObject
  <2>3. \A i \in D : i \in Nat /\ i < id /\ H[i] \in FileObject \cup DirObject
    BY <1>1 DEF Table
  <2>4. id \in Nat /\ o \in FileObject' \cup DirObject
    BY <1>1 DEF Enters
  <2> QED  BY <1>5, <1>6, <2>1, <2>2, <2>3, <2>4
<1>9. held'[s] = {<<i, Object(handles'[s][i])>> : i \in DOMAIN handles'[s]}
  <2>1. held[s] = {<<i, Object(H[i])>> : i \in D}
    BY <1>1 DEF Table
  <2>2. \A i \in D : Object(handles'[s][i]) = Object(H[i])
    BY <1>5
  <2>3. Object(handles'[s][id]) = Object(o)
    BY <1>6
  <2> HIDE DEF D, H, id
  <2> QED  BY <1>3, <1>4, <2>1, <2>2, <2>3
<1>10. handles'[s] = [i \in DOMAIN handles'[s] |-> handles'[s][i]]
  BY <1>2 DEF WithHandle
<1>11. Table(s)'
  <2> HIDE DEF D, id
  <2> QED  BY <1>2, <1>3, <1>4, <1>7, <1>8, <1>9, <1>10 DEF Table, Object
<1>12. \A f \in Session : Table(f)'
  <2> TAKE f \in Session
  <2>1. CASE f = s
    BY <1>11, <2>1
  <2>2. CASE f # s
    BY <1>3, <2>2, OtherTable
  <2> QED  BY <2>1, <2>2
<1> QED  BY <1>3, <1>12 DEF Tables

LEMMA LeavesHeld ==
    ASSUME Tables, NEW s \in Session, Leaves(s), Recorded(s)
    PROVE  /\ held' = [held EXCEPT ![s] = {x \in held[s] : x[1] # Asked(s).handle}]
           /\ Cardinality(held'[s]) = Cardinality(held[s]) - 1 /\ IsFiniteSet(held'[s])
<1> DEFINE h == Asked(s).handle  x0 == <<h, Object(handles[s][h])>>
           Y == {x \in held[s] : x[1] # h}
<1>1. Table(s) /\ held = [f \in Session |-> held[f]]
  BY DEF Tables
<1>2. held' = [held EXCEPT ![s] = Y]
  BY DEF Leaves, Recorded
<1>3. x0 \in held[s]
  BY <1>1 DEF Table, Leaves
<1>4. Y = held[s] \ {x0}
  <2>1. ASSUME NEW x \in held[s] PROVE x[1] # h <=> x # x0
    <3>1. PICK i \in DOMAIN handles[s] : x = <<i, Object(handles[s][i])>>
      BY <1>1 DEF Table
    <3> QED  BY <3>1
  <2> HIDE DEF x0
  <2> QED  BY <2>1
<1>5. IsFiniteSet(held[s])
  BY <1>1 DEF Table
<1> HIDE DEF x0, Y
<1>6. Cardinality(Y) = Cardinality(held[s]) - 1 /\ IsFiniteSet(Y)
  BY <1>3, <1>4, <1>5, FS_RemoveElement
<1>7. held'[s] = Y
  BY <1>1, <1>2
<1> QED  BY <1>2, <1>6, <1>7 DEF Y

LEMMA TablesLeave ==
    ASSUME Disk, Grown, Tables, NEW s \in Session, Leaves(s), Recorded(s)
    PROVE  Tables'
<1> DEFINE h == Asked(s).handle  D == DOMAIN handles[s]  H == handles[s]
           X == Restrict(H, D \ {h})  Y == {x \in held[s] : x[1] # h}
<1>1. Table(s) /\ held = [f \in Session |-> held[f]] /\ handles = [f \in Session |-> handles[f]]
      /\ next_handle \in [Session -> Nat]
  BY DEF Tables
<1>2. held' = [held EXCEPT ![s] = Y] /\ handles' = [handles EXCEPT ![s] = X]
      /\ UNCHANGED next_handle /\ IsFiniteSet(held'[s])
  BY LeavesHeld DEF Leaves
<1>3. /\ handles' = [f \in Session |-> handles'[f]] /\ held' = [f \in Session |-> held'[f]]
      /\ held'[s] = Y /\ handles'[s] = X
      /\ \A f \in Session : f # s => handles'[f] = handles[f] /\ held'[f] = held[f]
  <2> HIDE DEF X, Y
  <2>1. /\ handles' = [f \in Session |-> handles'[f]] /\ handles'[s] = X
        /\ \A f \in Session : f # s => handles'[f] = handles[f]
    BY <1>1, <1>2
  <2>2. /\ held' = [f \in Session |-> held'[f]] /\ held'[s] = Y
        /\ \A f \in Session : f # s => held'[f] = held[f]
    BY <1>1, <1>2
  <2> QED  BY <2>1, <2>2
<1>4. /\ DOMAIN handles'[s] = D \ {h} /\ \A i \in D \ {h} : handles'[s][i] = H[i]
      /\ handles'[s] = [i \in DOMAIN handles'[s] |-> handles'[s][i]]
  BY <1>3 DEF Restrict
<1>5. IsFiniteSet(D \ {h}) /\ Cardinality(D \ {h}) <= MaxHandles
  <2>1. IsFiniteSet(D) /\ Cardinality(D) <= MaxHandles /\ MaxHandles \in Nat /\ h \in D
    BY <1>1, SftpAssumption DEF Table, Leaves
  <2>2. Cardinality(D \ {h}) = Cardinality(D) - 1 /\ Cardinality(D) \in Nat
    BY <2>1, FS_RemoveElement, FS_CardinalityType
  <2>3. IsFiniteSet(D \ {h})
    BY <2>1, FS_RemoveElement
  <2> QED  BY <2>1, <2>2, <2>3
<1>6. \A i \in D \ {h} : /\ i \in Nat /\ i < next_handle'[s]
                          /\ handles'[s][i] \in FileObject' \cup DirObject'
  <2>1. \A x : x \in FileObject => x \in FileObject'
    BY DEF FileObject, Grown, Disk
  <2>2. DirObject' = DirObject
    BY DEF DirObject
  <2>3. \A i \in D : i \in Nat /\ i < next_handle[s] /\ H[i] \in FileObject \cup DirObject
    BY <1>1 DEF Table
  <2> QED  BY <1>2, <1>4, <2>1, <2>2, <2>3
<1>7. held'[s] = {<<i, Object(handles'[s][i])>> : i \in DOMAIN handles'[s]}
  <2>1. held[s] = {<<i, Object(H[i])>> : i \in D}
    BY <1>1 DEF Table
  <2>2. Y = {<<i, Object(H[i])>> : i \in D \ {h}}
    <3> HIDE DEF D, H, h
    <3> QED  BY <2>1
  <2>3. \A i \in D \ {h} : Object(handles'[s][i]) = Object(H[i])
    BY <1>4
  <2> DEFINE E == D \ {h}
  <2>4. /\ DOMAIN handles'[s] = E /\ held'[s] = Y /\ Y = {<<i, Object(H[i])>> : i \in E}
        /\ \A i \in E : Object(handles'[s][i]) = Object(H[i])
    BY <1>3, <1>4, <2>2, <2>3
  <2> HIDE DEF D, H, h, Y, E
  <2> QED  BY <2>4
<1>8. Table(s)'
  <2> HIDE DEF D, h
  <2> QED  BY <1>2, <1>4, <1>5, <1>6, <1>7 DEF Table, Object
<1>9. \A f \in Session : Table(f)'
  <2> TAKE f \in Session
  <2>1. CASE f = s
    BY <1>8, <2>1
  <2>2. CASE f # s
    BY <1>2, <1>3, <2>2, OtherTable
  <2> QED  BY <2>1, <2>2
<1> QED  BY <1>1, <1>2, <1>3, <1>9 DEF Tables

LEMMA TablesTurn ==
    ASSUME Disk, Grown, Tables, NEW s \in Session, Turns(s), Recorded(s)
    PROVE  Tables' /\ UNCHANGED held
<1> DEFINE h == Asked(s).handle  D == DOMAIN handles[s]  H == handles[s]
<1>1. Table(s) /\ held = [f \in Session |-> held[f]] /\ handles = [f \in Session |-> handles[f]]
      /\ next_handle \in [Session -> Nat]
  BY DEF Tables
<1>2. held' = [held EXCEPT ![s] = held[s]]
  BY DEF Turns, Recorded
<1>3. UNCHANGED held
  BY <1>1, <1>2
<1>4. PICK n \in Nat : handles' = [handles EXCEPT ![s][h].next = n]
  BY DEF Turns
<1>5. h \in D /\ H[h] \in DirObject
  BY HeldDir DEF Turns, Holds, HandleOf
<1> DEFINE o == [H[h] EXCEPT !.next = n]
<1>6. o \in DirObject /\ Object(o) = Object(H[h])
  BY <1>5 DEF DirObject, Object
<1>7. handles' = [handles EXCEPT ![s] = [H EXCEPT ![h] = o]]
  BY <1>4
<1> HIDE DEF o
<1>8. /\ handles' = [f \in Session |-> handles'[f]]
      /\ \A f \in Session : f # s => handles'[f] = handles[f]
      /\ handles'[s] = [H EXCEPT ![h] = o]
  BY <1>1, <1>7
<1>9. /\ DOMAIN handles'[s] = D /\ handles'[s][h] = o /\ \A i \in D : i # h => handles'[s][i] = H[i]
      /\ handles'[s] = [i \in DOMAIN handles'[s] |-> handles'[s][i]]
  BY <1>5, <1>8
<1>10. \A i \in D : /\ i \in Nat /\ i < next_handle[s]
                     /\ handles'[s][i] \in FileObject' \cup DirObject'
                     /\ Object(handles'[s][i]) = Object(H[i])
  <2>1. \A x : x \in FileObject => x \in FileObject'
    BY DEF FileObject, Grown, Disk
  <2>2. DirObject' = DirObject
    BY DEF DirObject
  <2>3. \A i \in D : i \in Nat /\ i < next_handle[s] /\ H[i] \in FileObject \cup DirObject
    BY <1>1 DEF Table
  <2> QED  BY <1>6, <1>9, <2>1, <2>2, <2>3
<1>11. held'[s] = {<<i, Object(handles'[s][i])>> : i \in DOMAIN handles'[s]}
  <2>1. held[s] = {<<i, Object(H[i])>> : i \in D}
    BY <1>1 DEF Table
  <2> HIDE DEF D, H
  <2> QED  BY <1>3, <1>9, <1>10, <2>1
<1>12. Table(s)'
  <2>1. /\ IsFiniteSet(D) /\ Cardinality(D) <= MaxHandles /\ IsFiniteSet(held[s])
        /\ UNCHANGED next_handle
    BY <1>1 DEF Table, Turns
  <2> HIDE DEF D, H
  <2> QED  BY <1>3, <1>9, <1>10, <1>11, <2>1 DEF Table, Object
<1>13. \A f \in Session : Table(f)'
  <2> TAKE f \in Session
  <2>1. CASE f = s
    BY <1>12, <2>1
  <2>2. CASE f # s
    BY <1>3, <1>8, <2>2, OtherTable DEF Turns
  <2> QED  BY <2>1, <2>2
<1> QED  BY <1>1, <1>3, <1>8, <1>13 DEF Tables, Turns

\* A directory is listed as a sequence of its names.
LEMMA Listing == ASSUME NEW S \in SUBSET Names PROVE SetToSeq(S) \in Seq(S)
<1> DEFINE n == Cardinality(S)
<1>1. IsFiniteSet(S)
  BY SftpAssumption, FS_Subset
<1>2. n \in Nat
  BY <1>1, FS_CardinalityType
<1>3. \E f : f \in Bijection(1..n, S)
  <2>1. ExistsBijection(1..Cardinality(S), S)
    BY <1>1, FS_CardinalityType
  <2> QED  BY <2>1 DEF ExistsBijection
<1>4. \E f \in [1..n -> S] : IsInjective(f)
  BY <1>3 DEF Bijection, Injection, IsInjective
<1>5. SetToSeq(S) \in [1..n -> S]
  BY <1>4 DEF SetToSeq
<1> HIDE DEF n
<1> QED  BY <1>2, <1>5, SeqDef

\* A server answers what it handles.
LEMMA HandlerReplies ==
    ASSUME NEW s \in Session, Handles(s)
    PROVE  /\ \E r : Reply(s, r)
           /\ phase' = phase \/ phase' = [phase EXCEPT ![s] = "serving"]
           /\ req[s] # <<>>
<1>1. CASE Handshake(s) \/ OverCap(s) \/ Close(s) \/ NotServed(s) \/ Query(s)
  BY <1>1 DEF Handshake, OverCap, Close, NotServed, Query, Refuse, Serving, server
<1>2. CASE Open(s) \/ Opendir(s)
  BY <1>2 DEF Open, Opendir, Insert, Refuse, Serving, server
<1>3. CASE Read(s)
  BY <1>3 DEF Read, Refuse, Serving, server
<1>4. CASE Write(s)
  BY <1>4 DEF Write, Refuse, Serving, server
<1>5. CASE Readdir(s)
  BY <1>5 DEF Readdir, Refuse, Serving, server
<1>6. CASE RemoveFile(s) \/ Mkdir(s) \/ Rmdir(s) \/ Rename(s) \/ Setstat(s) \/ Fsetstat(s)
  BY <1>6 DEF RemoveFile, Mkdir, Rmdir, Rename, Setstat, Fsetstat, Does, Refuse, Serving, server
<1>7. CASE SyscallFails(s) \/ WriteStops(s) \/ SetModeFails(s)
  BY <1>7 DEF SyscallFails, WriteStops, SetModeFails, Refuse, Serving, server
<1> QED  BY <1>1, <1>2, <1>3, <1>4, <1>5, <1>6, <1>7 DEF Handles, Handle

\* A refusal leaves the table alone.
LEMMA RefusalStays ==
    ASSUME Wires, NEW s \in Session, NEW r, Reply(s, r), r.type # "HANDLE",
           UNCHANGED <<handles, next_handle>>,
           Asked(s).op = "CLOSE" => Asked(s).handle \notin DOMAIN handles[s]
    PROVE  Stays(s)
BY ReplySent DEF Stays

\* Most handlers do, ...
LEMMA HandlersStay ==
    ASSUME Wires, NEW s \in Session,
           \/ Handshake(s) \/ OverCap(s) \/ Read(s) \/ Write(s) \/ RemoveFile(s) \/ Mkdir(s)
           \/ Rmdir(s) \/ Rename(s) \/ Setstat(s) \/ Fsetstat(s) \/ Query(s) \/ NotServed(s)
           \/ SyscallFails(s) \/ WriteStops(s) \/ SetModeFails(s)
    PROVE  Stays(s)
<1> DEFINE Good == \E r : Reply(s, r) /\ r.type # "HANDLE"
           Same == UNCHANGED <<handles, next_handle>>
           Op == Asked(s).op # "CLOSE"
<1>1. ASSUME NEW code, Refuse(s, code) PROVE Good /\ Same
  BY <1>1 DEF Refuse, Status, server
<1>2. CASE Handshake(s)
  <2>1. Op
    BY <1>2 DEF Handshake, INIT, Asked
  <2>2. Good /\ Same
    BY <1>2 DEF Handshake
  <2> HIDE DEF Same
  <2> QED  BY <2>1, <2>2, RefusalStays DEF Same
<1>3. CASE OverCap(s)
  <2>1. Same
    BY <1>3 DEF OverCap, server
  <2>2. Op
    BY <1>3 DEF OverCap, Serving
  <2>3. Reply(s, TooMany) /\ TooMany.type # "HANDLE"
    BY <1>3 DEF OverCap, TooMany
  <2> QED  BY <2>1, <2>2, <2>3, RefusalStays
<1>4. CASE Read(s)
  <2>1. Op
    BY <1>4 DEF Read, Serving
  <2>2. Good /\ Same
    <3>1. CASE \E code : Refuse(s, code)
      BY <1>1, <3>1
    <3>2. CASE ~\E code : Refuse(s, code)
      BY <1>4, <3>2 DEF Read, Status, server
    <3> QED  BY <3>1, <3>2
  <2> QED  BY <2>1, <2>2, RefusalStays
<1>5. CASE Write(s)
  <2>1. Op
    BY <1>5 DEF Write, Serving
  <2>2. Good /\ Same
    BY <1>5 DEF Write, Refuse, Status, server
  <2> QED  BY <2>1, <2>2, RefusalStays
<1>6. CASE RemoveFile(s) \/ Mkdir(s) \/ Rmdir(s) \/ Rename(s) \/ Setstat(s) \/ Fsetstat(s)
  <2>1. Op
    BY <1>6 DEF RemoveFile, Mkdir, Rmdir, Rename, Setstat, Fsetstat, Does, Serving
  <2>2. Good /\ Same
    BY <1>6 DEF RemoveFile, Mkdir, Rmdir, Rename, Setstat, Fsetstat, Does, Refuse, Status, server
  <2> QED  BY <2>1, <2>2, RefusalStays
<1>7. CASE Query(s)
  <2>1. Good /\ Same /\ Op
    BY <1>7 DEF Query, Status, Serving, server
  <2> QED  BY <2>1, RefusalStays
<1>8. CASE NotServed(s)
  <2>1. Op
    BY <1>8 DEF NotServed, Serving
  <2>2. \E code : Refuse(s, code)
    BY <1>8 DEF NotServed
  <2> HIDE DEF Good
  <2>3. Good /\ Same
    BY <1>1, <2>2
  <2> QED  BY <2>1, <2>3, RefusalStays DEF Good
<1>9. CASE SyscallFails(s)
  <2>1. Op
    BY <1>9 DEF SyscallFails, Serving
  <2>2. \E code : Refuse(s, code)
    BY <1>9 DEF SyscallFails
  <2> HIDE DEF Good
  <2>3. Good /\ Same
    BY <1>1, <2>2
  <2> QED  BY <2>1, <2>3, RefusalStays DEF Good
<1>10. CASE WriteStops(s) \/ SetModeFails(s)
  <2>1. Op
    BY <1>10 DEF WriteStops, SetModeFails, Serving
  <2>2. Good /\ Same
    BY <1>10 DEF WriteStops, SetModeFails, Status, server
  <2> QED  BY <2>1, <2>2, RefusalStays
<1> QED  BY <1>2, <1>3, <1>4, <1>5, <1>6, <1>7, <1>8, <1>9, <1>10

\* ... an open that succeeds adds a handle, ...
LEMMA InsertEnters ==
    ASSUME Wires, NEW s \in Session, NEW o, Insert(s, o), Room(s), o \in FileObject' \cup DirObject
    PROVE  Enters(s, o)
<1>1. /\ handles' = [handles EXCEPT ![s] = WithHandle(handles[s], next_handle[s], o)]
      /\ next_handle' = [next_handle EXCEPT ![s] = next_handle[s] + 1]
      /\ Reply(s, [type |-> "HANDLE", handle |-> next_handle[s]])
  BY DEF Insert, HandleId, WithHandle
<1> QED  BY <1>1, ReplySent DEF Enters

LEMMA OpenOutcome ==
    ASSUME Disk, Grown, Tables, Wires, NEW s \in Session, Open(s)
    PROVE  \/ \E code : Refuse(s, code) /\ Stays(s)
           \/ /\ OpenEffect(Asked(s).path, Asked(s).flags)
              /\ Opens(Asked(s).path, Asked(s).flags)
              /\ names'[Asked(s).path] \in 1..Len(nodes')
              /\ Enters(s, [kind |-> "file", node |-> names'[Asked(s).path],
                            flags |-> Asked(s).flags])
<1> DEFINE q == Asked(s)  n == q.path  o == [kind |-> "file", node |-> names'[n], flags |-> q.flags]
<1>1. q.op = "OPEN" /\ req[s] # <<>> /\ Room(s)
  BY DEF Open, Serving, MayOpen
<1>2. n \in Names /\ q.flags \in SUBSET Flags
  BY <1>1, ServedRequest, PathFields
<1>3. CASE Refuse(s, OpenError(n, q.flags))
  <2>1. Stays(s)
    <3> DEFINE r == Status(OpenError(n, q.flags))
    <3>1. Reply(s, r) /\ r.type # "HANDLE" /\ UNCHANGED <<handles, next_handle>>
      BY <1>3 DEF Refuse, Status, server
    <3> HIDE DEF r
    <3> QED  BY <1>1, <3>1, RefusalStays
  <2> QED  BY <1>3, <2>1
<1>4. CASE OpenEffect(n, q.flags) /\ Insert(s, o) /\ Opens(n, q.flags)
  <2>1. names'[n] \in 1..Len(nodes')
    <3>1. CASE Exists(n)
      <4>1. names'[n] = names[n] /\ Len(nodes') >= Len(nodes)
        BY <1>2, <1>4, <3>1, OpenGrows DEF Grown
      <4>2. Len(nodes') \in Nat /\ Len(nodes) \in Nat
        BY NodeFacts, LenProperties DEF Grown, Disk
      <4>3. names[n] \in 1..Len(nodes)
        BY <1>2, <3>1, NodeFacts DEF Exists
      <4> QED  BY <4>1, <4>2, <4>3
    <3>2. CASE ~Exists(n)
      <4>1. names'[n] = Len(nodes) + 1 /\ Len(nodes') = Len(nodes) + 1 /\ Len(nodes) \in Nat
        BY <1>2, <1>4, <3>2, OpenGrows, NodeFacts
      <4> QED  BY <4>1
    <3> QED  BY <3>1, <3>2
  <2>2. o \in FileObject'
    BY <1>2, <2>1 DEF FileObject
  <2>3. Enters(s, o)
    <3> HIDE DEF o
    <3> QED  BY <1>1, <1>4, <2>2, InsertEnters
  <2> QED  BY <1>4, <2>1, <2>3
<1> QED  BY <1>3, <1>4 DEF Open

LEMMA OpendirOutcome ==
    ASSUME Wires, NEW s \in Session, Opendir(s)
    PROVE  \/ \E code : Refuse(s, code) /\ Stays(s)
           \/ \E e \in Seq(Names) : Enters(s, [kind |-> "dir", entries |-> e, next |-> 0])
<1> DEFINE q == Asked(s)  n == q.path
           e == IF n = Dir THEN SetToSeq({m \in Names : Exists(m)}) ELSE <<>>
           o == [kind |-> "dir", entries |-> e, next |-> 0]
<1>1. q.op = "OPENDIR" /\ Room(s)
  BY DEF Opendir, Serving, MayOpen
<1>2. CASE Refuse(s, MissingOr(n, "FAILURE"))
  <2>1. Stays(s)
    <3> DEFINE r == Status(MissingOr(n, "FAILURE"))
    <3>1. Reply(s, r) /\ r.type # "HANDLE" /\ UNCHANGED <<handles, next_handle>>
      BY <1>2 DEF Refuse, Status, server
    <3> HIDE DEF r
    <3> QED  BY <1>1, <3>1, RefusalStays
  <2> QED  BY <1>2, <2>1
<1>3. CASE Insert(s, o)
  <2>1. e \in Seq(Names)
    <3> DEFINE S == {m \in Names : Exists(m)}
    <3>1. S \in SUBSET Names
      OBVIOUS
    <3> HIDE DEF S
    <3>2. SetToSeq(S) \in Seq(Names)
      <4>1. SetToSeq(S) \in Seq(S)
        BY <3>1, Listing
      <4> QED  BY <3>1, <4>1, SeqDef
    <3>3. <<>> \in Seq(Names)
      BY EmptySeq
    <3> QED  BY <3>2, <3>3 DEF S
  <2> HIDE DEF e
  <2>2. o \in DirObject
    BY <2>1 DEF DirObject
  <2>3. Enters(s, o)
    <3> HIDE DEF o
    <3> QED  BY <1>1, <1>3, <2>2, InsertEnters
  <2> QED  BY <2>1, <2>3
<1> QED  BY <1>2, <1>3 DEF Opendir

\* ... CLOSE removes one, ...
LEMMA CloseOutcome ==
    ASSUME Wires, NEW s \in Session, Close(s)
    PROVE  \/ Stays(s)
           \/ Leaves(s) /\ Head(rep'[s]) = Status("OK")
<1>1. Asked(s).op = "CLOSE"
  BY DEF Close, Serving
<1>2. CASE Asked(s).handle \in DOMAIN handles[s]
  <2>1. /\ Reply(s, Status("OK")) /\ UNCHANGED next_handle
        /\ handles' = [handles EXCEPT ![s] =
                     Restrict(handles[s], DOMAIN handles[s] \ {Asked(s).handle})]
    BY <1>2 DEF Close
  <2>2. Head(rep'[s]) = Status("OK")
    BY <2>1, ReplySent
  <2> QED  BY <1>1, <1>2, <2>1, <2>2 DEF Leaves, Status
<1>3. CASE Asked(s).handle \notin DOMAIN handles[s]
  <2> DEFINE r == Status("FAILURE")
  <2>1. Reply(s, r) /\ r.type # "HANDLE" /\ UNCHANGED <<handles, next_handle>>
    BY <1>3 DEF Close, Refuse, Status, server
  <2> HIDE DEF r
  <2> QED  BY <1>3, <2>1, RefusalStays
<1> QED  BY <1>2, <1>3

\* ... and READDIR moves one on, as far as it has sent.
Turned(s, end) ==
    /\ end \in Nat /\ HandleOf(s).next < end /\ end <= Len(HandleOf(s).entries)
    /\ handles' = [handles EXCEPT ![s][Asked(s).handle].next = end]
    /\ IsList(Head(rep'[s]).entries)
    /\ Len(Head(rep'[s]).entries) = end - HandleOf(s).next
    /\ \A i \in 1..(end - HandleOf(s).next) :
         Head(rep'[s]).entries[i].name = HandleOf(s).entries[HandleOf(s).next + i]
LEMMA ReaddirOutcome ==
    ASSUME Tables, Wires, NEW s \in Session, Readdir(s)
    PROVE  \/ /\ Stays(s) /\ Head(rep'[s]).type = "STATUS"
              /\ Holds(s, "dir") => HandleOf(s).next >= Len(HandleOf(s).entries)
           \/ Turns(s) /\ \E end : Turned(s, end)
<1> DEFINE d == HandleOf(s)  end == Min({d.next + Batch, Len(d.entries)})
           Entry(n) == [name |-> n,
                        attrs |-> IF Exists(n) THEN nodes[names[n]].kind ELSE "none"]
           batch == SubSeq(d.entries, d.next + 1, end)
           e == [i \in DOMAIN batch |-> Entry(batch[i])]
<1>1. Asked(s).op = "READDIR"
  BY DEF Readdir, Serving
<1>2. ASSUME NEW code, Refuse(s, code) PROVE Stays(s) /\ Head(rep'[s]).type = "STATUS"
  <2> DEFINE r == Status(code)
  <2>1. Reply(s, r) /\ r.type = "STATUS" /\ UNCHANGED <<handles, next_handle>>
    BY <1>2 DEF Refuse, Status, server
  <2> HIDE DEF r
  <2>2. Stays(s)
    BY <1>1, <2>1, RefusalStays
  <2>3. Head(rep'[s]) = r
    BY <2>1, ReplySent
  <2> QED  BY <2>1, <2>2, <2>3
<1>3. CASE ~Holds(s, "dir")
  <2>1. Refuse(s, "FAILURE")
    BY <1>3 DEF Readdir
  <2> QED  BY <1>2, <1>3, <2>1
<1>4. CASE Holds(s, "dir") /\ d.next >= Len(d.entries)
  <2>1. Refuse(s, "EOF")
    BY <1>4 DEF Readdir
  <2> QED  BY <1>2, <1>4, <2>1
<1>5. CASE Holds(s, "dir") /\ ~(d.next >= Len(d.entries))
  <2>1. /\ handles' = [handles EXCEPT ![s][Asked(s).handle].next = end]
        /\ Reply(s, [type |-> "NAME", entries |-> e]) /\ UNCHANGED next_handle
    BY <1>5 DEF Readdir
  <2>2. d.next \in Nat /\ d.entries \in Seq(Names)
    BY <1>5, HeldDir DEF DirObject
  <2>3. Len(d.entries) \in Nat /\ Batch \in Nat \ {0} /\ IsList(d.entries)
    BY <2>2, SftpAssumption, SeqIsList, LenProperties
  <2>4. end \in Nat /\ d.next < end /\ end <= Len(d.entries)
    <3> DEFINE a == d.next + Batch  b == Len(d.entries)
    <3>1. a \in Nat /\ b \in Nat /\ d.next < a /\ d.next < b
      BY <1>5, <2>2, <2>3
    <3> HIDE DEF a, b
    <3>2. Min({a, b}) \in Nat /\ Min({a, b}) <= b /\ Min({a, b}) \in {a, b}
      BY <3>1, Lesser
    <3>3. end = Min({a, b})
      BY DEF a, b
    <3> HIDE DEF end
    <3> QED  BY <3>1, <3>2, <3>3 DEF b
  <2> DEFINE m == d.next  k == end - m
  <2>5. Cuts(batch, d.entries, m, k)
    <3> DEFINE a == m + 1  q == d.entries
    <3>1. /\ IsList(q) /\ m \in Nat /\ end \in Nat /\ m <= end /\ end <= Len(q)
          /\ a = m + 1 /\ batch = Stretch(q, a, end) /\ k = end - m
      BY <2>2, <2>3, <2>4 DEF Stretch
    <3> HIDE DEF q, m, end, a, batch, k
    <3>2. Cuts(batch, q, m, k)
      BY <3>1, Cutting
    <3> QED  BY <3>2 DEF q
  <2>6. k \in Nat
    <3> HIDE DEF end
    <3> QED  BY <2>2, <2>4
  <2>7. e = [i \in 1..k |-> e[i]] /\ \A i \in 1..k : e[i].name = d.entries[m + i]
    <3> HIDE DEF batch, k, m
    <3>1. DOMAIN batch = 1..k /\ \A i \in 1..k : batch[i] = d.entries[m + i]
      BY <2>5 DEF Cuts, IsList
    <3> QED  BY <3>1
  <2> HIDE DEF e, k, end
  <2>8. IsList(e) /\ Len(e) = k
    BY <2>6, <2>7, ListMade
  <2>9. Head(rep'[s]) = [type |-> "NAME", entries |-> e]
    BY <2>1, ReplySent
  <2>10. Head(rep'[s]).type = "NAME" /\ Head(rep'[s]).entries = e
    BY <2>9
  <2>11. Turned(s, end)
    BY <2>1, <2>4, <2>7, <2>8, <2>10 DEF Turned, k
  <2>12. Turns(s)
    BY <1>1, <1>5, <2>1, <2>4, <2>10 DEF Turns
  <2> QED  BY <2>11, <2>12
<1> QED  BY <1>3, <1>4, <1>5

-----------------------------------------------------------------------------
(* A server handles a request: what this does to the state, except what     *)
(* our client makes of it.                                                  *)
Serves(s) ==
    /\ Handles(s) /\ Recorded(s)
    /\ UNCHANGED <<link, client, menu, left>> /\ faults' \in Nat

LEMMA ServesAll ==
    ASSUME Wires, NEW s \in Session, ServeRequest(s) \/ Fail(s) PROVE Serves(s)
<1>1. faults \in Nat
  BY DEF Wires
<1>2. CASE ServeRequest(s)
  <2>1. faults' = faults /\ UNCHANGED <<link, client, menu, left>>
    BY <1>2 DEF ServeRequest, limits
  <2> QED  BY <1>1, <1>2, <2>1 DEF ServeRequest, Serves, Handles
<1>3. CASE Fail(s)
  <2>1. faults' \in Nat
    BY <1>1, <1>3 DEF Fail
  <2> QED  BY <1>3, <2>1 DEF Fail, Serves, Handles
<1> QED  BY <1>2, <1>3

\* What becomes of the table.
LEMMA Outcomes ==
    ASSUME Disk, Grown, Tables, Wires, NEW s \in Session, Handles(s)
    PROVE  Stays(s) \/ Leaves(s) \/ Turns(s) \/ \E o : Enters(s, o)
<1>1. CASE \/ Handshake(s) \/ OverCap(s) \/ Read(s) \/ Write(s) \/ RemoveFile(s) \/ Mkdir(s)
           \/ Rmdir(s) \/ Rename(s) \/ Setstat(s) \/ Fsetstat(s) \/ Query(s) \/ NotServed(s)
           \/ SyscallFails(s) \/ WriteStops(s) \/ SetModeFails(s)
  BY <1>1, HandlersStay
<1>2. CASE Open(s)
  BY <1>2, OpenOutcome
<1>3. CASE Opendir(s)
  BY <1>3, OpendirOutcome
<1>4. CASE Close(s)
  BY <1>4, CloseOutcome
<1>5. CASE Readdir(s)
  BY <1>5, ReaddirOutcome
<1> QED  BY <1>1, <1>2, <1>3, <1>4, <1>5 DEF Handles, Handle

LEMMA TablesKept ==
    ASSUME Disk, Grown, Tables, Wires, NEW s \in Session, Serves(s) PROVE Tables'
<1>1. Recorded(s) /\ (Stays(s) \/ Leaves(s) \/ Turns(s) \/ \E o : Enters(s, o))
  BY Outcomes DEF Serves
<1>2. CASE Stays(s)
  BY <1>1, <1>2, TablesStay
<1>3. CASE Leaves(s)
  BY <1>1, <1>3, TablesLeave
<1>4. CASE Turns(s)
  BY <1>1, <1>4, TablesTurn
<1>5. CASE \E o : Enters(s, o)
  BY <1>1, <1>5, TablesEnter
<1> QED  BY <1>1, <1>2, <1>3, <1>4, <1>5

LEMMA WiresKept ==
    ASSUME Wires, NEW s \in Session, Serves(s)
    PROVE  /\ Wires' /\ req'[s] = <<>>
           /\ \A f \in Session : f # s =>
                req'[f] = req[f] /\ rep'[f] = rep[f] /\ phase'[f] = phase[f]
<1>1. PICK r : Reply(s, r)
  BY HandlerReplies DEF Serves
<1>2. /\ req'[s] = <<>> /\ rep'[s] = <<r>> /\ Head(rep'[s]) = r
      /\ req' = [f \in Session |-> req'[f]] /\ rep' = [f \in Session |-> rep'[f]]
      /\ \A f \in Session : f # s => req'[f] = req[f] /\ rep'[f] = rep[f]
  BY <1>1, ReplySent
<1>3. phase' = [f \in Session |-> phase'[f]] /\ \A f \in Session : f # s => phase'[f] = phase[f]
  <2>1. phase = [f \in Session |-> phase[f]]
    BY DEF Wires
  <2>2. phase' = phase \/ phase' = [phase EXCEPT ![s] = "serving"]
    BY HandlerReplies DEF Serves
  <2> QED  BY <2>1, <2>2
<1>4. ASSUME NEW f \in Session PROVE Wire(f)'
  <2>1. CASE f = s
    BY <1>2, <2>1 DEF Wire
  <2>2. CASE f # s
    BY <1>2, <2>2 DEF Wires, Wire, Asked
  <2> QED  BY <2>1, <2>2
<1>5. link' = link /\ menu' = menu /\ left' = left /\ faults' \in Nat
  BY DEF Serves
<1>6. Wires'
  BY <1>2, <1>3, <1>4, <1>5 DEF Wires
<1> QED  BY <1>2, <1>3, <1>6

\* Session "ours" or another opens a file or a directory.
LEMMA ClientKept ==
    ASSUME Disk, Grown, Tables, Wires, Client1, NEW s \in Session, Serves(s) PROVE Client1'
<1> DEFINE r == Head(rep'[s])  h == handles'[s][r.handle]  mine == s = "ours" /\ r.type = "HANDLE"
<1>1. /\ Recorded(s) /\ link' = link
      /\ todo' = todo /\ job' = job /\ offset' = offset /\ got' = got /\ awaits' = awaits
  BY DEF Serves, client
<1>2. /\ target' = IF mine /\ h.kind = "file" THEN h.node ELSE target
      /\ base' = IF ~mine THEN base ELSE IF h.kind = "file" THEN nodes'[h.node].data ELSE h.entries
      /\ dirty' \in BOOLEAN /\ leaked' = leaked
  BY <1>1 DEF Recorded
<1>3. Len(nodes) \in Nat /\ Len(nodes') \in Nat /\ Len(nodes') >= Len(nodes)
  BY NodeFacts, LenProperties DEF Grown, Disk
<1>4. CASE ~mine
  BY <1>1, <1>2, <1>3, <1>4, SMTT(60) DEF Client1
<1>5. CASE mine
  <2>1. PICK o : Enters(s, o)
    BY <1>5, Outcomes DEF Serves, Stays, Leaves, Turns
  <2>2. r.handle = next_handle[s] /\ o \in FileObject' \cup DirObject
    BY <2>1 DEF Enters
  <2>3. handles'[s][next_handle[s]] = o
    BY <1>1, <2>1, EntersHeld
  <2>4. h = o
    BY <2>2, <2>3
  <2> HIDE DEF h, mine
  <2>5. CASE o \in FileObject'
    <3>1. o.kind = "file" /\ o.node \in 1..Len(nodes')
      BY <2>5 DEF FileObject
    <3>2. target' = o.node /\ base' = nodes'[o.node].data
      BY <1>2, <1>5, <2>4, <3>1
    <3>3. nodes'[o.node].data \in Seq(Byte)
      <4>1. nodes' \in Seq(Node)
        BY DEF Grown, Disk
      <4>2. nodes'[o.node] \in Node
        BY <3>1, <4>1, ElementOfSeq
      <4> QED  BY <4>2 DEF Node
    <3>4. IsList(base')
      BY <3>2, <3>3, SeqIsList
    <3>5. target' \in 0..Len(nodes')
      BY <1>3, <3>1, <3>2
    <3> QED  BY <1>1, <1>2, <3>4, <3>5 DEF Client1, IsList
  <2>6. CASE o \in DirObject
    <3>1. o.kind = "dir" /\ o.entries \in Seq(Names)
      BY <2>6 DEF DirObject
    <3>2. target' = target /\ base' = o.entries
      BY <1>2, <1>5, <2>4, <3>1
    <3>3. IsList(base')
      BY <3>1, <3>2, SeqIsList
    <3>4. target' \in 0..Len(nodes')
      BY <1>3, <3>2 DEF Client1
    <3> QED  BY <1>1, <1>2, <3>3, <3>4 DEF Client1, IsList
  <2> QED  BY <2>2, <2>5, <2>6
<1> QED  BY <1>4, <1>5

-----------------------------------------------------------------------------
(* Our client, while others act.                                           *)

\* What our command relies on stays as it is; another session may change the
\* file it has open, and then it is dirty.
Steady ==
    /\ Ours' = Ours /\ phase'["ours"] = phase["ours"]
    /\ todo' = todo /\ job' = job /\ awaits' = awaits /\ handle' = handle /\ offset' = offset
    /\ sent' = sent /\ got' = got /\ result' = result /\ target' = target /\ base' = base
    /\ ~dirty' => ~dirty /\ (target # 0 => nodes'[target] = nodes[target])
Untouched ==
    /\ Steady /\ leaked' = leaked /\ held'["ours"] = held["ours"]
    /\ req'["ours"] = req["ours"] /\ rep'["ours"] = rep["ours"] /\ link'["ours"] = link["ours"]

LEMMA MatchTarget ==
    ASSUME Tables, NEW h, Match(h), job.kind \in {"download", "upload"}
    PROVE  target \in 1..Len(nodes) /\ target # 0
<1>1. Ours[h].node = target /\ Ours[h].kind = "file" /\ h \in DOMAIN handles["ours"]
  BY DEF Match, Ours
<1>2. Table("ours")
  BY DEF Tables, Session
<1>3. handles["ours"][h] \in FileObject \cup DirObject
  BY <1>1, <1>2 DEF Table
<1>4. handles["ours"][h] \in FileObject
  BY <1>1, <1>3 DEF DirObject, Ours
<1>5. target \in 1..Len(nodes)
  BY <1>1, <1>4 DEF FileObject, Ours
<1> QED  BY <1>5

LEMMA SteadyMatch ==
    ASSUME Tables, Steady, NEW h, Match(h) PROVE Match(h)'
<1>1. job.kind \in {"download", "upload"} => target # 0
  BY MatchTarget
<1>2. job' = job /\ Ours' = Ours /\ target' = target /\ base' = base
      /\ (~dirty' => ~dirty /\ (target # 0 => nodes'[target] = nodes[target]))
  BY DEF Steady
<1> QED  BY <1>1, <1>2 DEF Match

LEMMA SteadyAsks ==
    ASSUME Tables, Steady, NEW q, Asks(q) PROVE Asks(q)'
<1>1. \A h : Match(h) => Match(h)'
  BY SteadyMatch
<1>3. AsksInit(q) => AsksInit(q)'
  BY DEF AsksInit, Steady
<1>4. AsksOpen(q) => AsksOpen(q)'
  BY DEF AsksOpen, Steady, Fresh, Opening
<1>5. AsksReaddir(q) => AsksReaddir(q)'
  BY <1>1 DEF AsksReaddir, Steady, NamesOf, Begins
<1>6. AsksRead(q) => AsksRead(q)'
  BY <1>1 DEF AsksRead, Steady, Begins
<1>7. AsksWrite(q) => AsksWrite(q)'
  <2> SUFFICES ASSUME AsksWrite(q) PROVE AsksWrite(q)'
    OBVIOUS
  <2>1. target # 0
    BY MatchTarget DEF AsksWrite
  <2> QED  BY <1>1, <2>1 DEF AsksWrite, Steady, Begins
<1>8. AsksClose(q) => AsksClose(q)'
  BY <1>1 DEF AsksClose, Steady
<1>9. AsksOne(q) => AsksOne(q)'
  BY DEF AsksOne, Steady
<1> QED  BY <1>3, <1>4, <1>5, <1>6, <1>7, <1>8, <1>9 DEF Asks

LEMMA SteadySays ==
    ASSUME Tables, Steady, NEW r, Says(r) PROVE Says(r)'
<1>1. \A h : Match(h) => Match(h)'
  BY SteadyMatch
<1>3. SaysOpened(r) => SaysOpened(r)'
  <2> SUFFICES ASSUME SaysOpened(r) PROVE SaysOpened(r)'
    OBVIOUS
  <2>1. r.type = "HANDLE" /\ job.kind = "upload" => target # 0
    BY MatchTarget DEF SaysOpened
  <2> QED  BY <1>1, <2>1 DEF SaysOpened, Steady
<1>4. SaysRead(r) => SaysRead(r)'
  <2> SUFFICES ASSUME SaysRead(r) PROVE SaysRead(r)'
    OBVIOUS
  <2>1. /\ Ours' = Ours /\ job' = job /\ handle' = handle /\ offset' = offset /\ got' = got
        /\ result' = result /\ base' = base /\ (~dirty' => ~dirty)
    BY DEF Steady
  <2>2. NamesOf(got)' = NamesOf(got) /\ NamesOf(got \o r.entries)' = NamesOf(got \o r.entries)
    BY <2>1 DEF NamesOf
  <2>3. \A h : h = handle => (Match(h) => Match(handle)')
    BY <1>1, <2>1
  <2> QED  BY <2>1, <2>2, <2>3 DEF SaysRead
<1>5. SaysWritten(r) => SaysWritten(r)'
  <2> SUFFICES ASSUME SaysWritten(r) PROVE SaysWritten(r)'
    OBVIOUS
  <2>1. target # 0
    BY MatchTarget DEF SaysWritten
  <2> QED  BY <1>1, <2>1 DEF SaysWritten, Steady, Begins
<1>6. awaits' = awaits /\ job' = job
  BY DEF Steady
<1> QED  BY <1>3, <1>4, <1>5, <1>6 DEF Says

LEMMA UntouchedKeeps ==
    ASSUME Tables, OursInv, Untouched PROVE OursInv'
<1>1. Pending'
  <2> SUFFICES ASSUME req'["ours"] # <<>> PROVE Asks(Asked("ours"))'
    BY DEF Pending
  <2>1. req["ours"] # <<>> /\ Asked("ours")' = Asked("ours")
    BY DEF Untouched, Asked
  <2>2. \A q : Asks(q) => Asks(q)'
    BY SteadyAsks DEF Untouched
  <2>3. Asks(Asked("ours"))
    BY <2>1 DEF OursInv, Pending
  <2> QED  BY <2>1, <2>2, <2>3
<1>2. Replied'
  <2> SUFFICES ASSUME Received' PROVE Says(Answer)'
    BY DEF Replied
  <2>1. Received /\ Answer' = Answer
    BY DEF Untouched, Received, Answer
  <2>2. \A r : Says(r) => Says(r)'
    BY SteadySays DEF Untouched
  <2>3. Says(Answer)
    BY <2>1 DEF OursInv, Replied
  <2> QED  BY <2>1, <2>2, <2>3
<1>4. Shows'
  BY DEF OursInv, Shows, Untouched, Steady, NamesOf, IsPrefix
<1>5. Counted'
  BY DEF OursInv, Counted, Owes, Got, Received, Answer, Untouched, Steady
<1> QED  BY <1>1, <1>2, <1>4, <1>5 DEF OursInv

\* Our connection is gone: only what our command has to show matters, and
\* what the server may still handle.
LEMMA CutKeeps ==
    ASSUME OursInv, link'["ours"] # "up", Shows', Pending' PROVE OursInv'
BY DEF OursInv, Replied, Received, Counted

\* A session's table is its own.
LEMMA OwnTable ==
    ASSUME Disk, Grown, Tables, Wires, NEW s \in Session, Serves(s), NEW f \in Session, f # s
    PROVE  handles'[f] = handles[f] /\ held'[f] = held[f]
<1>1. handles = [g \in Session |-> handles[g]] /\ held = [g \in Session |-> held[g]]
  BY DEF Tables
<1>2. Recorded(s) /\ (Stays(s) \/ Leaves(s) \/ Turns(s) \/ \E o : Enters(s, o))
  BY Outcomes DEF Serves
<1>3. held'[f] = held[f]
  <2>1. \E x : held' = [held EXCEPT ![s] = x]
    BY <1>2 DEF Recorded
  <2> QED  BY <1>1, <2>1
<1>4. handles'[f] = handles[f]
  <2>1. handles' = handles \/ \E x : handles' = [handles EXCEPT ![s] = x]
    BY <1>2 DEF Stays, Leaves, Turns, Enters
  <2> QED  BY <1>1, <2>1
<1> QED  BY <1>3, <1>4

\* Another session's request is handled.
LEMMA OtherServed ==
    ASSUME SftpInv, NEW s \in Session, s = "other", Serves(s) PROVE SftpInv'
<1>1. Disk /\ Tables /\ Wires /\ Client1 /\ OursInv /\ Handles(s) /\ Recorded(s)
  BY DEF SftpInv, Serves
<1>2. Grown
  BY <1>1, DiskKept
<1>3. Disk' /\ Tables' /\ Wires' /\ Client1'
  BY <1>1, <1>2, TablesKept, WiresKept, ClientKept DEF Grown
<1>4. Untouched
  <2> DEFINE f == "ours"
  <2>1. f \in Session /\ f # s
    BY DEF Session
  <2>2. handles'[f] = handles[f] /\ held'[f] = held[f]
    <3> HIDE DEF f
    <3> QED  BY <1>1, <1>2, <2>1, OwnTable
  <2>3. req'[f] = req[f] /\ rep'[f] = rep[f] /\ phase'[f] = phase[f]
    <3> HIDE DEF f
    <3> QED  BY <1>1, <2>1, WiresKept
  <2>4. /\ todo' = todo /\ job' = job /\ awaits' = awaits /\ handle' = handle /\ offset' = offset
        /\ sent' = sent /\ got' = got /\ result' = result /\ link' = link
    BY DEF Serves, client
  <2>5. target' = target /\ base' = base /\ leaked' = leaked
    BY <1>1, <2>1 DEF Recorded
  <2>6. ~dirty' => ~dirty /\ (target # 0 => nodes'[target] = nodes[target])
    BY <1>1, <2>1 DEF Recorded
  <2> QED  BY <2>2, <2>3, <2>4, <2>5, <2>6 DEF Untouched, Steady, Ours
<1>5. OursInv'
  BY <1>1, <1>4, UntouchedKeeps
<1> QED  BY <1>3, <1>5 DEF SftpInv

\* The connection of a session, and its server process.
LEMMA SameTables ==
    ASSUME Disk, Tables, UNCHANGED <<names, nodes, handles, held, next_handle>>
    PROVE  Disk' /\ Tables'
BY DEF Disk, Tables, Table, FileObject, DirObject, Object

LEMMA CutKept ==
    ASSUME SftpInv, NEW s \in Session, Cut(s) PROVE SftpInv'
<1>1. /\ Disk /\ Tables /\ Wires /\ Client1 /\ OursInv
      /\ req = [f \in Session |-> req[f]] /\ rep = [f \in Session |-> rep[f]]
      /\ link = [f \in Session |-> link[f]]
  BY DEF SftpInv, Wires
<1>2. /\ UNCHANGED <<names, nodes, handles, held, next_handle>>
      /\ UNCHANGED <<phase, menu, left, faults, leaked, target, base, dirty>>
      /\ todo' = todo /\ job' = job /\ awaits' = awaits /\ handle' = handle /\ offset' = offset
      /\ sent' = sent /\ got' = got /\ result' = result
  BY DEF Cut, fs, server, client, limits, history
<1>3. PICK keep \in {req[s], <<>>} : req' = [req EXCEPT ![s] = keep]
  BY DEF Cut
<1>4. link' = [link EXCEPT ![s] = "cut"] /\ rep' = [rep EXCEPT ![s] = <<>>]
  BY DEF Cut
<1>5. /\ req'[s] = keep /\ rep'[s] = <<>> /\ link'[s] = "cut"
      /\ \A f \in Session : f # s => req'[f] = req[f] /\ rep'[f] = rep[f] /\ link'[f] = link[f]
  BY <1>1, <1>3, <1>4
<1>6. /\ req' = [f \in Session |-> req'[f]] /\ rep' = [f \in Session |-> rep'[f]]
      /\ link' = [f \in Session |-> link'[f]]
  BY <1>1, <1>3, <1>4
<1>7. Wires'
  <2>1. ASSUME NEW f \in Session PROVE Wire(f)'
    <3>1. Wire(f)
      BY <1>1 DEF Wires
    <3>2. CASE f = s
      BY <1>5, <3>1, <3>2 DEF Wire, Asked
    <3>3. CASE f # s
      BY <1>5, <3>1, <3>3 DEF Wire, Asked
    <3> QED  BY <3>2, <3>3
  <2> QED  BY <1>1, <1>2, <1>6, <2>1 DEF Wires
<1>8. Disk' /\ Tables'
  BY <1>1, <1>2, SameTables
<1>9. Client1'
  <2>1. link'["ours"] = link["ours"] \/ link'["ours"] = "cut"
    BY <1>5 DEF Session
  <2> QED  BY <1>1, <1>2, <2>1 DEF Client1, IsList
<1>10. Steady
  BY <1>2 DEF Steady, Ours
<1>11. CASE s = "ours"
  <2>1. Shows'
    BY <1>1, <1>2 DEF OursInv, Shows, NamesOf, IsPrefix
  <2>2. Pending'
    <3> SUFFICES ASSUME req'["ours"] # <<>> PROVE Asks(Asked("ours"))'
      BY DEF Pending
    <3>1. req["ours"] # <<>> /\ Asked("ours")' = Asked("ours")
      BY <1>5, <1>11 DEF Asked
    <3>2. \A q : Asks(q) => Asks(q)'
      BY <1>1, <1>10, SteadyAsks
    <3>3. Asks(Asked("ours"))
      BY <1>1, <3>1 DEF OursInv, Pending
    <3> QED  BY <3>1, <3>2, <3>3
  <2>3. OursInv'
    BY <1>1, <1>5, <1>11, <2>1, <2>2, CutKeeps
  <2> QED  BY <1>7, <1>8, <1>9, <2>3 DEF SftpInv
<1>12. CASE s # "ours"
  <2>1. Untouched
    <3>1. /\ req'["ours"] = req["ours"] /\ rep'["ours"] = rep["ours"]
          /\ link'["ours"] = link["ours"]
      BY <1>5, <1>12 DEF Session
    <3> QED  BY <1>2, <1>10, <3>1 DEF Untouched
  <2>2. OursInv'
    BY <1>1, <2>1, UntouchedKeeps
  <2> QED  BY <1>7, <1>8, <1>9, <2>2 DEF SftpInv
<1> QED  BY <1>11, <1>12

LEMMA EndKept ==
    ASSUME SftpInv, NEW s \in Session, ServerEnds(s) PROVE SftpInv'
<1>1. /\ Disk /\ Tables /\ Wires /\ Client1 /\ OursInv
      /\ req = [f \in Session |-> req[f]] /\ link = [f \in Session |-> link[f]]
      /\ phase = [f \in Session |-> phase[f]]
      /\ handles = [f \in Session |-> handles[f]] /\ held = [f \in Session |-> held[f]]
      /\ next_handle \in [Session -> Nat]
  BY DEF SftpInv, Wires, Tables
<1>2. /\ names' = names /\ nodes' = nodes /\ next_handle' = next_handle /\ rep' = rep
      /\ UNCHANGED <<menu, left, faults, leaked, target, base, dirty>>
      /\ todo' = todo /\ job' = job /\ awaits' = awaits /\ handle' = handle /\ offset' = offset
      /\ sent' = sent /\ got' = got /\ result' = result
  BY DEF ServerEnds, fs, client, limits
<1>3. /\ phase' = [phase EXCEPT ![s] = "ended"] /\ handles' = [handles EXCEPT ![s] = <<>>]
      /\ held' = [held EXCEPT ![s] = {}] /\ link' = [link EXCEPT ![s] = "cut"]
      /\ req' = [req EXCEPT ![s] = <<>>]
  BY DEF ServerEnds
<1>4. /\ req'[s] = <<>> /\ link'[s] = "cut" /\ handles'[s] = <<>> /\ held'[s] = {}
      /\ \A f \in Session : f # s => /\ req'[f] = req[f] /\ link'[f] = link[f]
                                     /\ phase'[f] = phase[f]
      /\ \A f \in Session : f # s => handles'[f] = handles[f] /\ held'[f] = held[f]
  BY <1>1, <1>3
<1>5. req' = [f \in Session |-> req'[f]] /\ link' = [f \in Session |-> link'[f]]
      /\ phase' = [f \in Session |-> phase'[f]]
  BY <1>1, <1>3
<1>6. handles' = [f \in Session |-> handles'[f]] /\ held' = [f \in Session |-> held'[f]]
  BY <1>1, <1>3
<1>7. Wires'
  <2>1. ASSUME NEW f \in Session PROVE Wire(f)'
    <3>1. Wire(f)
      BY <1>1 DEF Wires
    <3>2. CASE f = s
      BY <1>2, <1>4, <3>1, <3>2 DEF Wire, Asked
    <3>3. CASE f # s
      BY <1>2, <1>4, <3>1, <3>3 DEF Wire, Asked
    <3> QED  BY <3>2, <3>3
  <2>2. menu' = menu /\ left' = left /\ faults' = faults /\ rep' = [f \in Session |-> rep'[f]]
    BY <1>1, <1>2 DEF Wires
  <2> QED  BY <1>1, <1>5, <2>1, <2>2 DEF Wires
<1>8. Disk'
  BY <1>1, <1>2 DEF Disk
<1>9. Tables'
  <2>1. ASSUME NEW f \in Session PROVE Table(f)'
    <3>1. CASE f = s
      <4> DEFINE e == handles'[f]
      <4>1. e = <<>> /\ held'[f] = {}
        BY <1>4, <3>1
      <4>2. DOMAIN e = {} /\ e = [h \in DOMAIN e |-> e[h]]
        BY <4>1
      <4>3. IsFiniteSet({}) /\ Cardinality({}) = 0 /\ 0 <= MaxHandles
        BY FS_EmptySet, SftpAssumption
      <4>4. {<<h, Object(e[h])>> : h \in DOMAIN e} = {}
        BY <4>2
      <4> QED  BY <4>1, <4>2, <4>3, <4>4 DEF Table
    <3>2. CASE f # s
      <4>1. Grown
        BY <1>1, <1>2, SameGrows DEF fs
      <4> QED  BY <1>1, <1>2, <1>4, <3>2, <4>1, OtherTable
    <3> QED  BY <3>1, <3>2
  <2> QED  BY <1>1, <1>2, <1>6, <2>1 DEF Tables
<1>10. Client1'
  <2>1. link'["ours"] = link["ours"] \/ link'["ours"] = "cut"
    BY <1>4 DEF Session
  <2> QED  BY <1>1, <1>2, <2>1 DEF Client1, IsList
<1>11. CASE s = "ours"
  <2>1. Shows'
    BY <1>1, <1>2 DEF OursInv, Shows, NamesOf, IsPrefix
  <2>2. Pending'
    BY <1>4, <1>11 DEF Pending
  <2>3. OursInv'
    BY <1>1, <1>4, <1>11, <2>1, <2>2, CutKeeps
  <2> QED  BY <1>7, <1>8, <1>9, <1>10, <2>3 DEF SftpInv
<1>12. CASE s # "ours"
  <2>1. Untouched
    <3>1. /\ req'["ours"] = req["ours"] /\ link'["ours"] = link["ours"]
          /\ phase'["ours"] = phase["ours"]
          /\ handles'["ours"] = handles["ours"] /\ held'["ours"] = held["ours"]
      BY <1>4, <1>12 DEF Session
    <3> QED  BY <1>2, <3>1 DEF Untouched, Steady, Ours
  <2>2. OursInv'
    BY <1>1, <2>1, UntouchedKeeps
  <2> QED  BY <1>7, <1>8, <1>9, <1>10, <2>2 DEF SftpInv
<1> QED  BY <1>11, <1>12

\* The other client sends what it likes.
LEMMA OtherSendsKept ==
    ASSUME SftpInv, OtherSends PROVE SftpInv'
<1>1. /\ Disk /\ Tables /\ Wires /\ Client1 /\ OursInv
      /\ req = [f \in Session |-> req[f]] /\ rep = [f \in Session |-> rep[f]]
  BY DEF SftpInv, Wires
<1>2. /\ UNCHANGED <<names, nodes, handles, held, next_handle>>
      /\ UNCHANGED <<phase, link, menu, faults, leaked, target, base, dirty>>
      /\ todo' = todo /\ job' = job /\ awaits' = awaits /\ handle' = handle /\ offset' = offset
      /\ sent' = sent /\ got' = got /\ result' = result
  BY DEF OtherSends, fs, server, client, history
<1>3. PICK q \in menu \cup {INIT} : req' = [req EXCEPT !["other"] = <<q>>]
  BY DEF OtherSends
<1>4. rep' = [rep EXCEPT !["other"] = <<>>]
  BY DEF OtherSends
<1>5. q \in Request
  <2>1. INIT \in Request
    BY DEF INIT, Request
  <2> QED  BY <1>1, <1>3, <2>1 DEF Wires
<1>6. /\ req'["other"] = <<q>> /\ rep'["other"] = <<>>
      /\ req'["ours"] = req["ours"] /\ rep'["ours"] = rep["ours"]
      /\ req' = [f \in Session |-> req'[f]] /\ rep' = [f \in Session |-> rep'[f]]
  BY <1>1, <1>3, <1>4 DEF Session
<1>7. Wires'
  <2>1. ASSUME NEW f \in Session PROVE Wire(f)'
    <3>1. CASE f = "other"
      <4>1. Head(<<q>>) = q
        OBVIOUS
      <4> QED  BY <1>5, <1>6, <3>1, <4>1 DEF Wire, Asked
    <3>2. CASE f = "ours"
      BY <1>1, <1>6, <3>2 DEF Wires, Wire, Asked
    <3> QED  BY <3>1, <3>2 DEF Session
  <2>2. left' \in Nat
    BY <1>1 DEF OtherSends, Wires
  <2> QED  BY <1>1, <1>2, <1>6, <2>1, <2>2 DEF Wires
<1>8. Disk' /\ Tables'
  BY <1>1, <1>2, SameTables
<1>9. Client1'
  BY <1>1, <1>2 DEF Client1, IsList
<1>10. Untouched
  BY <1>2, <1>6 DEF Untouched, Steady, Ours
<1>11. OursInv'
  BY <1>1, <1>10, UntouchedKeeps
<1> QED  BY <1>7, <1>8, <1>9, <1>11 DEF SftpInv

-----------------------------------------------------------------------------
(* The server of our session handles what our command asks.                *)

\* Which handler a request goes to.
LEMMA OpHandler ==
    ASSUME NEW s, Handles(s)
    PROVE  /\ Asked(s).op = "CLOSE" => Close(s)
           /\ Asked(s).op = "READDIR" => Readdir(s)
           /\ Asked(s).op = "READ" => Read(s) \/ SyscallFails(s)
           /\ Asked(s).op = "WRITE" => Write(s) \/ SyscallFails(s) \/ WriteStops(s)
           /\ Asked(s).op = "OPEN" => OverCap(s) \/ Open(s) \/ SyscallFails(s)
           /\ Asked(s).op = "OPENDIR" => OverCap(s) \/ Opendir(s) \/ SyscallFails(s)
<1> DEFINE op == Asked(s).op
<1>1. /\ Handshake(s) => op = "INIT"
      /\ OverCap(s) => op \in {"OPEN", "OPENDIR"}
      /\ Query(s) => op \in {"STAT", "FSTAT", "REALPATH"}
      /\ NotServed(s) => op \in {"malformed", "unknown", "INIT"}
  BY DEF Handshake, OverCap, Query, NotServed, Serving, INIT, Asked
<1>2. /\ Open(s) => op = "OPEN"
      /\ Opendir(s) => op = "OPENDIR"
      /\ Close(s) => op = "CLOSE"
      /\ Read(s) => op = "READ"
      /\ Write(s) => op = "WRITE"
      /\ Readdir(s) => op = "READDIR"
  BY DEF Open, Opendir, Close, Read, Write, Readdir, Serving
<1>3. RemoveFile(s) \/ Mkdir(s) \/ Rmdir(s) \/ Rename(s) \/ Setstat(s) \/ Fsetstat(s) =>
        op \in {"REMOVE", "MKDIR", "RMDIR", "RENAME", "SETSTAT", "FSETSTAT"}
  BY DEF RemoveFile, Mkdir, Rmdir, Rename, Setstat, Fsetstat, Does, Serving
<1>4. /\ SyscallFails(s) => op \notin {"CLOSE", "READDIR"}
      /\ WriteStops(s) => op = "WRITE"
      /\ SetModeFails(s) => op \in {"MKDIR", "SETSTAT", "FSETSTAT"}
  BY DEF SyscallFails, WriteStops, SetModeFails, Serving
<1> HIDE DEF op
<1> QED  BY <1>1, <1>2, <1>3, <1>4 DEF Handles, Handle, op

\* Refusals, with a status.
LEMMA Refused ==
    ASSUME Wires, NEW s \in Session, \/ OverCap(s) \/ SyscallFails(s) \/ \E code : Refuse(s, code)
    PROVE  UNCHANGED fs /\ Head(rep'[s]).type = "STATUS"
<1>1. CASE OverCap(s)
  <2> DEFINE r == TooMany
  <2>1. Reply(s, r) /\ r.type = "STATUS" /\ UNCHANGED fs
    BY <1>1 DEF OverCap, TooMany
  <2> HIDE DEF r
  <2> QED  BY <2>1, ReplySent
<1>2. ASSUME NEW code, Refuse(s, code) PROVE UNCHANGED fs /\ Head(rep'[s]).type = "STATUS"
  <2>1. Reply(s, Status(code)) /\ UNCHANGED fs
    BY <1>2 DEF Refuse
  <2> QED  BY <2>1, ReplySent DEF Status
<1>3. SyscallFails(s) => \E code : Refuse(s, code)
  BY DEF SyscallFails
<1> QED  BY <1>1, <1>2, <1>3

\* What holds whatever it asks.
OursServes ==
    /\ Recorded("ours") /\ Grown
    /\ req'["ours"] = <<>> /\ rep["ours"] = <<>> /\ req["ours"] # <<>>
    /\ rep'["ours"] = <<Head(rep'["ours"])>>
    /\ link' = link /\ dirty' = dirty /\ leaked' = leaked
    /\ todo' = todo /\ job' = job /\ awaits' = awaits /\ handle' = handle /\ offset' = offset
    /\ sent' = sent /\ got' = got /\ result' = result
    /\ Head(rep'["ours"]).type # "HANDLE" => target' = target /\ base' = base

LEMMA OursServesAll ==
    ASSUME SftpInv, NEW s \in Session, s = "ours", Serves(s) PROVE OursServes
<1>1. Disk /\ Tables /\ Wires /\ Client1 /\ Handles(s) /\ Recorded(s)
  BY DEF SftpInv, Serves
<1>2. Grown
  BY <1>1, DiskKept
<1>3. PICK r : Reply(s, r)
  BY <1>1, HandlerReplies
<1>4. req'[s] = <<>> /\ rep'[s] = <<r>> /\ Head(rep'[s]) = r
  BY <1>1, <1>3, ReplySent
<1>5. req[s] # <<>> /\ rep[s] = <<>>
  BY <1>1, HandlerReplies, ServedRequest
<1>6. dirty' = dirty /\ leaked' = leaked
  BY <1>1 DEF Recorded, Client1
<1>7. Head(rep'["ours"]).type # "HANDLE" => target' = target /\ base' = base
  BY <1>1 DEF Recorded
<1>8. /\ todo' = todo /\ job' = job /\ awaits' = awaits /\ handle' = handle /\ offset' = offset
      /\ sent' = sent /\ got' = got /\ result' = result /\ link' = link
  BY DEF Serves, client
<1> QED  BY <1>1, <1>2, <1>4, <1>5, <1>6, <1>7, <1>8 DEF OursServes

\* What is left to show once the request is handled.
LEMMA OursServed ==
    ASSUME SftpInv, OursServes, Shows', NEW r, r = Head(rep'["ours"]),
           link["ours"] = "up" => Says(r)',
           link["ours"] = "up" => Counted'
    PROVE  OursInv'
<1>1. Pending'
  BY DEF Pending, OursServes
<1>2. Replied'
  BY DEF Replied, Received, Answer, OursServes
<1>3. Counted'
  BY DEF Counted, OursServes
<1> QED  BY <1>1, <1>2, <1>3 DEF OursInv

\* Nothing to show has changed.
LEMMA SameShows ==
    ASSUME Shows, job' = job, got' = got, base' = base, target' = target, dirty' = dirty,
           result' = result, target # 0 => nodes'[target] = nodes[target]
    PROVE  Shows'
BY DEF Shows, NamesOf, IsPrefix

\* The number of handles.
LEMMA SameCounted ==
    ASSUME OursInv, OursServes, held'["ours"] = held["ours"],
           awaits = "open" => Head(rep'["ours"]).type # "HANDLE", awaits # "close"
    PROVE  Counted'
<1>1. link["ours"] = "up" => Cardinality(held["ours"]) = leaked + (IF Owes THEN 1 ELSE 0)
  BY DEF OursInv, Counted
<1>2. Owes' <=> Owes
  BY DEF Owes, Got, Received, Answer, OursServes
<1> QED  BY <1>1, <1>2 DEF Counted, OursServes

\* The handshake, and the commands of one request.
LEMMA ServedInit ==
    ASSUME SftpInv, NEW s \in Session, s = "ours", Serves(s), OursServes,
           NEW q, q = Asked(s), AsksInit(q) \/ AsksOne(q)
    PROVE  OursInv'
<1>1. Disk /\ Tables /\ Wires /\ Client1 /\ OursInv /\ Grown /\ Handles(s) /\ Recorded(s)
  BY DEF SftpInv, Serves, OursServes
<1>2. q.op \notin {"OPEN", "OPENDIR", "CLOSE", "READDIR"}
  BY DEF AsksInit, AsksOne, INIT, OneRequest
<1>3. Stays(s)
  <2>1. ~Open(s) /\ ~Opendir(s) /\ ~Close(s) /\ ~Readdir(s)
    BY <1>2 DEF Open, Opendir, Close, Readdir, Serving
  <2> QED  BY <1>1, <2>1, HandlersStay DEF Handles, Handle
<1>4. held' = held
  BY <1>1, <1>3, StaysHeld
<1>5. job.kind \notin Jobs /\ awaits \notin {"open", "close", "read", "write", "idle"}
      /\ (awaits = "status" => job.kind = "one")
  BY DEF AsksInit, AsksOne, NoJob, Jobs
<1>6. Shows'
  BY <1>5 DEF Shows, OursServes, Jobs
<1>7. Counted'
  BY <1>1, <1>4, <1>5, SameCounted
<1>9. PICK r : r = Head(rep'["ours"])
  OBVIOUS
<1>8. link["ours"] = "up" => Says(r)'
  BY <1>1, <1>5 DEF Says, OursServes, Client1
<1> QED  BY <1>6, <1>7, <1>8, <1>9, OursServed

\* Nothing is opened.
LEMMA OpenRefused ==
    ASSUME SftpInv, NEW s \in Session, s = "ours", OursServes, NEW q, AsksOpen(q),
           Stays(s), UNCHANGED fs, Head(rep'[s]).type = "STATUS"
    PROVE  OursInv'
<1>1. Tables /\ Wires /\ Client1 /\ OursInv /\ Recorded(s)
  BY DEF SftpInv, OursServes
<1>2. held' = held
  BY <1>1, StaysHeld
<1>3. Shows'
  <2>1. Shows /\ nodes' = nodes /\ target' = target /\ base' = base
    BY <1>1 DEF OursInv, OursServes, fs
  <2> QED  BY <2>1, SameShows DEF OursServes
<1>4. awaits # "close"
  BY DEF AsksOpen
<1>5. Counted'
  BY <1>1, <1>2, <1>4, SameCounted
<1>6. PICK r : r = Head(rep'["ours"])
  OBVIOUS
<1>7. SaysOpened(r)'
  BY <1>6 DEF SaysOpened, OursServes, AsksOpen, Fresh
<1>8. link["ours"] = "up" => Says(r)'
  BY <1>1, <1>7 DEF Says, OursServes, Client1, AsksOpen
<1> QED  BY <1>3, <1>5, <1>6, <1>8, OursServed

\* A handle is opened: the count goes up.
LEMMA OpenCounted ==
    ASSUME SftpInv, NEW s \in Session, s = "ours", OursServes, NEW q, AsksOpen(q),
           NEW o, Enters(s, o)
    PROVE  link["ours"] = "up" => Counted'
<1> SUFFICES ASSUME link["ours"] = "up" PROVE Counted'
  OBVIOUS
<1>1. Tables /\ Client1 /\ OursInv /\ Recorded(s)
  BY DEF SftpInv, OursServes
<1>2. Cardinality(held'["ours"]) = Cardinality(held["ours"]) + 1
  BY <1>1, EntersHeld
<1>3. awaits = "open"
  BY <1>1 DEF AsksOpen, Client1
<1>4. ~Owes
  BY <1>3 DEF Owes, Got, Received, OursServes
<1>5. Owes'
  BY <1>3 DEF Owes, Got, Received, Answer, OursServes, Enters
<1>6. Cardinality(held["ours"]) = leaked /\ leaked \in Nat
  BY <1>1, <1>4 DEF OursInv, Counted, Client1
<1> QED  BY <1>2, <1>5, <1>6 DEF Counted, OursServes

\* What a handle that enters is on.
LEMMA OpenRecorded ==
    ASSUME SftpInv, NEW s \in Session, s = "ours", OursServes, NEW o, Enters(s, o)
    PROVE  /\ next_handle[s] \in DOMAIN Ours' /\ Ours'[next_handle[s]] = o
           /\ Head(rep'[s]) = [type |-> "HANDLE", handle |-> next_handle[s]]
           /\ o.kind = "file" => target' = o.node /\ base' = nodes'[o.node].data
           /\ o.kind = "dir" => target' = target /\ base' = o.entries
<1>1. Tables /\ Recorded(s)
  BY DEF SftpInv, OursServes
<1>2. /\ handles'[s] = WithHandle(handles[s], next_handle[s], o)
      /\ handles'[s][next_handle[s]] = o
  BY <1>1, EntersHeld
<1>3. next_handle[s] \in DOMAIN handles'[s]
  BY <1>2 DEF WithHandle
<1>4. Head(rep'[s]) = [type |-> "HANDLE", handle |-> next_handle[s]]
  BY DEF Enters
<1>5. Head(rep'[s]).type = "HANDLE" /\ handles'[s][Head(rep'[s]).handle] = o
  BY <1>2, <1>4
<1>6. /\ target' = IF o.kind = "file" THEN o.node ELSE target
      /\ base' = IF o.kind = "file" THEN nodes'[o.node].data ELSE o.entries
  BY <1>1, <1>5 DEF Recorded
<1> QED  BY <1>2, <1>3, <1>4, <1>6 DEF Ours

\* An empty list begins every list.
LEMMA EmptyBegins ==
    ASSUME NEW w, IsList(w)
    PROVE  IsPrefix(<<>>, w) /\ Begins(<<>>, w, 0) /\ NamesOf(<<>>) = <<>>
<1> DEFINE e == <<>>  n == 0
<1>1. IsList(e) /\ Len(e) = 0
  BY DEF IsList
<1>2. Begins(e, w, n)
  BY <1>1 DEF Begins, IsList
<1>3. IsPrefix(e, w)
  <2> HIDE DEF e, n
  <2> QED  BY <1>1, <1>2, PrefixOf
<1>4. NamesOf(e) = e
  BY DEF NamesOf
<1> QED  BY <1>2, <1>3, <1>4

LEMMA OpenedDir ==
    ASSUME SftpInv, NEW s \in Session, s = "ours", OursServes, Client1', NEW q, AsksOpen(q),
           q.op = "OPENDIR", NEW e \in Seq(Names),
           NEW o, o = [kind |-> "dir", entries |-> e, next |-> 0], Enters(s, o)
    PROVE  OursInv'
<1>1. Tables /\ Wires /\ Client1 /\ OursInv
  BY DEF SftpInv
<1>2. job.kind = "list"
  BY DEF AsksOpen, Opening, Jobs
<1>3. PICK r : r = Head(rep'["ours"])
  OBVIOUS
<1>4. PICK id : id = next_handle[s]
  OBVIOUS
<1>5. o.kind = "dir" /\ o.entries = e /\ o.next = 0
  OBVIOUS
<1>6. /\ id \in DOMAIN Ours' /\ Ours'[id] = o /\ r.type = "HANDLE" /\ r.handle = id
      /\ target' = target /\ base' = e
  <2>1. /\ next_handle[s] \in DOMAIN Ours' /\ Ours'[next_handle[s]] = o
        /\ Head(rep'[s]) = [type |-> "HANDLE", handle |-> next_handle[s]]
        /\ o.kind = "file" => target' = o.node /\ base' = nodes'[o.node].data
        /\ o.kind = "dir" => target' = target /\ base' = o.entries
    BY OpenRecorded
  <2>2. r.type = "HANDLE" /\ r.handle = id
    BY <1>3, <1>4, <2>1
  <2> QED  BY <1>4, <1>5, <2>1, <2>2
<1>7. got = <<>> /\ offset = 0 /\ result = "err" /\ job.kind \in Jobs
  BY DEF AsksOpen, Fresh
<1>8. Match(id)'
  BY <1>2, <1>5, <1>6 DEF Match, OursServes
<1>9. SaysOpened(r)'
  BY <1>2, <1>5, <1>6, <1>7, <1>8 DEF SaysOpened, OursServes
<1>10. link["ours"] = "up" => Says(r)'
  BY <1>1, <1>9 DEF Says, OursServes, Client1, AsksOpen
<1>11. Shows'
  <2>1. IsList(base')
    BY DEF Client1
  <2>2. IsPrefix(NamesOf(got)', base')
    BY <1>7, <2>1, EmptyBegins DEF OursServes
  <2> QED  BY <1>2, <1>7, <2>2 DEF Shows, OursServes
<1>12. link["ours"] = "up" => Counted'
  BY OpenCounted
<1> QED  BY <1>3, <1>10, <1>11, <1>12, OursServed

LEMMA OpenedFile ==
    ASSUME SftpInv, NEW s \in Session, s = "ours", OursServes, Client1', NEW q, AsksOpen(q),
           q.op = "OPEN", OpenEffect(q.path, q.flags), Opens(q.path, q.flags), q.path \in Names,
           NEW o, o = [kind |-> "file", node |-> names'[q.path], flags |-> q.flags], Enters(s, o)
    PROVE  OursInv'
<1>1. Disk /\ Tables /\ Wires /\ Client1 /\ OursInv
  BY DEF SftpInv
<1>2. /\ job.kind \in {"download", "upload"}
      /\ job.kind = "download" => q.flags = {"READ"}
      /\ job.kind = "upload" => q.flags = {"WRITE", "CREAT", "TRUNC"}
  BY DEF AsksOpen, Opening, Jobs
<1>3. PICK r : r = Head(rep'["ours"])
  OBVIOUS
<1>4. PICK id : id = next_handle[s]
  OBVIOUS
<1>5. o.kind = "file" /\ o.node = names'[q.path] /\ o.flags = q.flags
  OBVIOUS
<1>6. /\ id \in DOMAIN Ours' /\ Ours'[id] = o /\ r.type = "HANDLE" /\ r.handle = id
      /\ target' = o.node /\ base' = nodes'[o.node].data
  <2>1. /\ next_handle[s] \in DOMAIN Ours' /\ Ours'[next_handle[s]] = o
        /\ Head(rep'[s]) = [type |-> "HANDLE", handle |-> next_handle[s]]
        /\ o.kind = "file" => target' = o.node /\ base' = nodes'[o.node].data
        /\ o.kind = "dir" => target' = target /\ base' = o.entries
    BY OpenRecorded
  <2>2. r.type = "HANDLE" /\ r.handle = id
    BY <1>3, <1>4, <2>1
  <2> QED  BY <1>4, <1>5, <2>1, <2>2
<1>7. got = <<>> /\ offset = 0 /\ result = "err" /\ job.kind \in Jobs
  BY DEF AsksOpen, Fresh
<1>8. Match(id)'
  BY <1>2, <1>5, <1>6 DEF Match, OursServes
<1>9. job.kind = "upload" => nodes'[target'].data = <<>>
  <2> SUFFICES ASSUME job.kind = "upload" PROVE nodes'[target'].data = <<>>
    OBVIOUS
  <2>1. "TRUNC" \in q.flags /\ target' = names'[q.path]
    BY <1>2, <1>5, <1>6
  <2> DEFINE n == q.path  fl == q.flags
  <2>2. n \in Names /\ OpenEffect(n, fl)
    OBVIOUS
  <2> HIDE DEF n, fl
  <2>3. /\ Exists(n) => names' = names
        /\ ~Exists(n) => nodes'[names'[n]].data = <<>>
        /\ Exists(n) /\ "TRUNC" \in fl => nodes'[names[n]].data = <<>>
    BY <1>1, <2>2, OpenGrows
  <2> QED  BY <2>1, <2>3 DEF n, fl
<1>10. SaysOpened(r)'
  BY <1>2, <1>5, <1>6, <1>7, <1>8, <1>9 DEF SaysOpened, OursServes
<1>11. link["ours"] = "up" => Says(r)'
  BY <1>1, <1>10 DEF Says, OursServes, Client1, AsksOpen
<1>12. Shows'
  <2>1. IsList(base') /\ (job.kind = "upload" => IsList(job.source))
    BY <1>1, SeqIsList DEF Client1, AnyJob, Command, NoJob
  <2>2. IsPrefix(<<>>, base') /\ (job.kind = "upload" => IsPrefix(<<>>, job.source))
    BY <2>1, EmptyBegins
  <2> QED  BY <1>2, <1>7, <1>9, <2>2 DEF Shows, OursServes
<1>13. link["ours"] = "up" => Counted'
  BY OpenCounted
<1> QED  BY <1>3, <1>11, <1>12, <1>13, OursServed

LEMMA ServedOpen ==
    ASSUME SftpInv, NEW s \in Session, s = "ours", Serves(s), OursServes, Client1',
           NEW q, q = Asked(s), AsksOpen(q)
    PROVE  OursInv'
<1>1. Disk /\ Tables /\ Wires /\ Client1 /\ OursInv /\ Grown /\ Handles(s) /\ req[s] # <<>>
  BY DEF SftpInv, Serves, OursServes
<1>2. CASE (OverCap(s) \/ SyscallFails(s) \/ \E code : Refuse(s, code)) /\ Stays(s)
  BY <1>1, <1>2, Refused, OpenRefused
<1>3. OverCap(s) \/ SyscallFails(s) => Stays(s)
  BY <1>1, HandlersStay
<1>4. q.op \in {"OPEN", "OPENDIR"}
  BY DEF AsksOpen, Opening, Jobs
<1>5. CASE q.op = "OPEN"
  <2>1. OverCap(s) \/ Open(s) \/ SyscallFails(s)
    BY <1>1, <1>5, OpHandler
  <2>2. CASE Open(s)
    <3> DEFINE o == [kind |-> "file", node |-> names'[q.path], flags |-> q.flags]
    <3>1. \/ \E code : Refuse(s, code) /\ Stays(s)
          \/ OpenEffect(q.path, q.flags) /\ Opens(q.path, q.flags) /\ Enters(s, o)
      BY <1>1, <2>2, OpenOutcome
    <3>2. q.path \in Names
      BY <1>1, <1>5, ServedRequest, PathFields
    <3>3. CASE OpenEffect(q.path, q.flags) /\ Opens(q.path, q.flags) /\ Enters(s, o)
      <4>1. PICK x : x = o
        OBVIOUS
      <4> HIDE DEF o
      <4>2. Enters(s, x) /\ x = [kind |-> "file", node |-> names'[q.path], flags |-> q.flags]
        BY <3>3, <4>1 DEF o
      <4> QED  BY <1>5, <3>2, <3>3, <4>2, OpenedFile
    <3> QED  BY <1>2, <3>1, <3>3
  <2> QED  BY <1>2, <1>3, <2>1, <2>2
<1>6. CASE q.op = "OPENDIR"
  <2>1. OverCap(s) \/ Opendir(s) \/ SyscallFails(s)
    BY <1>1, <1>6, OpHandler
  <2>2. CASE Opendir(s)
    <3>1. \/ \E code : Refuse(s, code) /\ Stays(s)
          \/ \E e \in Seq(Names) : Enters(s, [kind |-> "dir", entries |-> e, next |-> 0])
      BY <1>1, <2>2, OpendirOutcome
    <3>2. ASSUME NEW e \in Seq(Names), Enters(s, [kind |-> "dir", entries |-> e, next |-> 0])
          PROVE  OursInv'
      <4>1. PICK x : x = [kind |-> "dir", entries |-> e, next |-> 0]
        OBVIOUS
      <4>2. Enters(s, x)
        BY <3>2, <4>1
      <4> QED  BY <1>6, <4>1, <4>2, OpenedDir
    <3> QED  BY <1>2, <3>1, <3>2
  <2> QED  BY <1>2, <1>3, <2>1, <2>2
<1> QED  BY <1>4, <1>5, <1>6

\* CLOSE.
LEMMA ServedClose ==
    ASSUME SftpInv, NEW s \in Session, s = "ours", Serves(s), OursServes,
           NEW q, q = Asked(s), AsksClose(q)
    PROVE  OursInv'
<1>1. Disk /\ Tables /\ Wires /\ Client1 /\ OursInv /\ Handles(s) /\ Recorded(s)
  BY DEF SftpInv, Serves, OursServes
<1>2. q.op = "CLOSE" /\ q.handle = handle /\ handle \in DOMAIN handles[s]
  BY DEF AsksClose, Match, Ours
<1>3. Close(s)
  BY <1>1, <1>2, OpHandler
<1>4. Leaves(s)
  BY <1>1, <1>2, <1>3, CloseOutcome DEF Stays
<1>5. Cardinality(held'[s]) = Cardinality(held[s]) - 1
  BY <1>1, <1>4, LeavesHeld
<1>6. Head(rep'["ours"]).type = "STATUS" /\ nodes' = nodes
  BY <1>3, <1>4, QuietHandlers DEF Leaves, fs
<1>7. Shows'
  <2>1. Shows /\ target' = target /\ base' = base
    BY <1>1, <1>6 DEF OursInv, OursServes
  <2> QED  BY <1>6, <2>1, SameShows DEF OursServes
<1>8. link["ours"] = "up" => awaits = "close"
  BY <1>1 DEF AsksClose, Client1
<1>9. link["ours"] = "up" => Counted'
  <2> SUFFICES ASSUME link["ours"] = "up" PROVE Counted'
    OBVIOUS
  <2>1. Owes
    BY <1>8 DEF Owes, OursServes
  <2>2. ~Owes'
    BY <1>8 DEF Owes, OursServes
  <2>3. Cardinality(held["ours"]) = leaked + 1 /\ leaked \in Nat
    BY <1>1, <2>1 DEF OursInv, Counted, Client1
  <2> QED  BY <1>5, <2>2, <2>3 DEF Counted, OursServes
<1>10. PICK r : r = Head(rep'["ours"])
  OBVIOUS
<1>11. link["ours"] = "up" => Says(r)'
  BY <1>8 DEF Says, OursServes
<1> QED  BY <1>7, <1>9, <1>10, <1>11, OursServed

\* READDIR.
LEMMA NamesMore ==
    ASSUME NEW g, NEW x, NEW b, IsList(g), IsList(x), IsList(b), NEW m \in Nat, NEW end \in Nat,
           Begins(NamesOf(g), b, m), m <= end, end <= Len(b), Len(x) = end - m,
           \A i \in 1..(end - m) : x[i].name = b[m + i], NEW r, r = Join(g, x)
    PROVE  Begins(NamesOf(r), b, end)
<1>1. Len(g) = m /\ \A i \in 1..m : g[i].name = b[i]
  BY NamesList DEF Begins
<1>2. /\ IsList(r) /\ Len(r) = Len(g) + Len(x)
      /\ \A i \in 1..Len(g) : r[i] = g[i]
      /\ \A i \in 1..Len(x) : r[Len(g) + i] = x[i]
  BY Joined, SMTT(60)
<1>3. Len(r) = end
  BY <1>1, <1>2
<1>4. ASSUME NEW i \in 1..end PROVE r[i].name = b[i]
  <2>1. CASE i <= m
    BY <1>1, <1>2, <2>1
  <2>2. CASE ~(i <= m)
    <3>1. PICK k \in 1..(end - m) : i = m + k
      <4>1. i - m \in 1..(end - m) /\ i = m + (i - m)
        BY <2>2
      <4> QED  BY <4>1
    <3>2. r[Len(g) + k] = x[k]
      BY <1>2, <3>1
    <3>3. Len(g) + k = i
      BY <1>1, <3>1
    <3> QED  BY <3>1, <3>2, <3>3
  <2> QED  BY <2>1, <2>2
<1>5. Len(NamesOf(r)) = end /\ \A i \in 1..end : NamesOf(r)[i] = b[i]
  BY <1>2, <1>3, <1>4, NamesList
<1> QED  BY <1>5 DEF Begins

LEMMA TurnedTable ==
    ASSUME Tables, NEW s \in Session, Holds(s, "dir"), NEW end, Turned(s, end)
    PROVE  /\ DOMAIN handles'[s] = DOMAIN handles[s]
           /\ handles'[s][Asked(s).handle].next = end
           /\ handles'[s][Asked(s).handle].kind = "dir"
           /\ handles'[s][Asked(s).handle].entries = HandleOf(s).entries
<1> DEFINE h == Asked(s).handle
<1>1. handles' = [handles EXCEPT ![s][h].next = end]
  BY DEF Turned
<1>2. /\ handles = [f \in Session |-> handles[f]] /\ h \in DOMAIN handles[s]
      /\ handles[s] = [g \in DOMAIN handles[s] |-> handles[s][g]]
  BY DEF Tables, Table, Holds
<1>3. handles[s][h] \in DirObject
  BY HeldDir DEF HandleOf
<1>4. /\ handles'[s] = [handles[s] EXCEPT ![h].next = end]
  BY <1>1, <1>2
<1>5. DOMAIN handles'[s] = DOMAIN handles[s] /\ handles'[s][h] = [handles[s][h] EXCEPT !.next = end]
  BY <1>2, <1>4
<1> QED  BY <1>3, <1>5 DEF DirObject, HandleOf

LEMMA ServedReaddir ==
    ASSUME SftpInv, NEW s \in Session, s = "ours", Serves(s), OursServes,
           NEW q, q = Asked(s), AsksReaddir(q)
    PROVE  OursInv'
<1>1. Disk /\ Tables /\ Wires /\ Client1 /\ OursInv /\ Handles(s) /\ Recorded(s)
  BY DEF SftpInv, Serves, OursServes
<1>2. q.op = "READDIR" /\ q.handle = handle /\ job.kind = "list" /\ result = "err"
  BY DEF AsksReaddir
<1>3. /\ handle \in DOMAIN Ours /\ Ours[handle].kind = "dir" /\ Ours[handle].entries = base
      /\ Begins(NamesOf(got), base, Ours[handle].next)
  BY <1>2 DEF AsksReaddir, Match
<1>4. Holds(s, "dir") /\ HandleOf(s) = Ours[handle]
  BY <1>2, <1>3 DEF Holds, HandleOf, Ours
<1>5. Readdir(s)
  BY <1>1, <1>2, OpHandler
<1>6. nodes' = nodes
  BY <1>5, QuietHandlers DEF fs
<1>7. \/ /\ Stays(s) /\ Head(rep'[s]).type = "STATUS"
         /\ HandleOf(s).next >= Len(HandleOf(s).entries)
      \/ Turns(s) /\ \E end : Turned(s, end)
  BY <1>1, <1>4, <1>5, ReaddirOutcome
<1>8. Head(rep'["ours"]).type # "HANDLE" /\ held' = held
  BY <1>1, <1>7, StaysHeld, TablesTurn DEF Stays, Turns, OursServes
<1>9. Shows'
  <2>1. Shows /\ target' = target /\ base' = base
    BY <1>1, <1>8 DEF OursInv, OursServes
  <2> QED  BY <1>6, <2>1, SameShows DEF OursServes
<1>10. awaits # "close" /\ (link["ours"] = "up" => awaits = "read")
  BY <1>1 DEF AsksReaddir, Client1
<1>11. Counted'
  BY <1>1, <1>8, <1>10, SameCounted
<1>12. PICK r : r = Head(rep'["ours"])
  OBVIOUS
<1>13. PICK h : h = handle
  OBVIOUS
<1>14. IsList(got) /\ IsList(base) /\ base' = base /\ job' = job /\ got' = got /\ handle' = handle
  BY <1>1, <1>8 DEF Client1, OursServes
<1>15. SaysRead(r)'
  <2>1. CASE /\ Stays(s) /\ Head(rep'[s]).type = "STATUS"
             /\ HandleOf(s).next >= Len(HandleOf(s).entries)
    <3>1. Ours' = Ours /\ r.type = "STATUS"
      BY <1>12, <2>1 DEF Stays, Ours
    <3>2. Match(h)'
      BY <1>2, <1>3, <1>13, <1>14, <3>1 DEF Match
    <3>3. NamesOf(got) = base
      <4> DEFINE p == NamesOf(got)  n == Ours[handle].next
      <4>1. IsList(p) /\ Begins(p, base, n) /\ n >= Len(base)
        BY <1>3, <1>4, <1>14, <2>1, NamesList
      <4> HIDE DEF p, n
      <4>2. p = base
        BY <1>14, <4>1, WholeOf
      <4> QED  BY <4>2 DEF p
    <3>4. NamesOf(got)' = base'
      BY <1>14, <3>3 DEF NamesOf
    <3> QED  BY <1>2, <1>13, <1>14, <3>1, <3>2, <3>4 DEF SaysRead, OursServes
  <2>2. CASE Turns(s) /\ \E end : Turned(s, end)
    <3>1. PICK end : Turned(s, end)
      BY <2>2
    <3>2. r.type = "NAME"
      BY <1>12, <2>2 DEF Turns
    <3>3. /\ DOMAIN Ours' = DOMAIN Ours /\ Ours'[handle].next = end /\ Ours'[handle].kind = "dir"
          /\ Ours'[handle].entries = base
      BY <1>1, <1>2, <1>3, <1>4, <3>1, TurnedTable DEF Ours
    <3>4. Match(h)'
      BY <1>2, <1>3, <1>13, <1>14, <3>3 DEF Match
    <3> DEFINE m == Ours[handle].next  x == r.entries  w == Join(got, x)
    <3>5. /\ end \in Nat /\ m < end /\ end <= Len(base) /\ IsList(x) /\ Len(x) = end - m
          /\ \A i \in 1..(end - m) : x[i].name = base[m + i]
      BY <1>3, <1>4, <1>12, <3>1 DEF Turned
    <3>6. m \in Nat /\ m <= end /\ Begins(NamesOf(got), base, m)
      BY <1>3, <3>5 DEF Begins
    <3>7. Begins(NamesOf(w), base, end)
      <4> HIDE DEF m, x, w
      <4>1. w = Join(got, x)
        BY DEF w
      <4> QED  BY <1>14, <3>5, <3>6, <4>1, NamesMore
    <3>8. Begins(NamesOf(got \o r.entries), base, end)
      BY <3>7 DEF Join
    <3>9. Begins(NamesOf(got \o r.entries)', base', Ours'[handle].next)
      BY <1>14, <3>3, <3>8 DEF NamesOf
    <3>10. IsList(r.entries)
      BY <3>5
    <3> HIDE DEF m, x, w
    <3> QED  BY <1>2, <1>13, <1>14, <3>2, <3>4, <3>9, <3>10 DEF SaysRead, OursServes
  <2> QED  BY <1>7, <2>1, <2>2
<1>16. link["ours"] = "up" => Says(r)'
  BY <1>10, <1>15 DEF Says, OursServes
<1> QED  BY <1>9, <1>11, <1>12, <1>16, OursServed

\* READ.
ReadEnd(s) ==
    Min({Asked(s).offset + Min({Asked(s).len, MaxRead}), Len(nodes[HandleOf(s).node].data)})
ReadData(s) == Stretch(nodes[HandleOf(s).node].data, Asked(s).offset + 1, ReadEnd(s))
LEMMA ReadOutcome ==
    ASSUME Wires, NEW s \in Session, Holds(s, "file"), Asked(s).op = "READ",
           Read(s) \/ SyscallFails(s), NEW r, r = Head(rep'[s])
    PROVE  \/ r.type = "STATUS" /\ r.code # "EOF"
           \/ r.type = "STATUS" /\ ReadData(s) = <<>>
           \/ r.type = "DATA" /\ r.data = ReadData(s)
<1>1. ASSUME NEW x, Reply(s, x) PROVE r = x
  BY <1>1, ReplySent
<1>2. CASE SyscallFails(s)
  <2>1. PICK code \in {"PERMISSION_DENIED", "FAILURE"} : Reply(s, Status(code))
    BY <1>2 DEF SyscallFails, Refuse
  <2>2. r = Status(code)
    BY <1>1, <2>1
  <2> QED  BY <2>1, <2>2 DEF Status
<1>3. CASE Read(s)
  <2>1. \/ Reply(s, Status("FAILURE"))
        \/ Reply(s, IF ReadData(s) = <<>> THEN Status("EOF")
                    ELSE [type |-> "DATA", data |-> ReadData(s)])
    BY <1>3 DEF Read, Refuse, ReadData, ReadEnd, Stretch
  <2>2. CASE Reply(s, Status("FAILURE"))
    <3>1. r = Status("FAILURE")
      BY <1>1, <2>2
    <3> QED  BY <3>1 DEF Status
  <2>3. CASE Reply(s, IF ReadData(s) = <<>> THEN Status("EOF")
                      ELSE [type |-> "DATA", data |-> ReadData(s)])
    <3>1. CASE ReadData(s) = <<>>
      <4>1. r = Status("EOF")
        BY <1>1, <2>3, <3>1
      <4> QED  BY <3>1, <4>1 DEF Status
    <3>2. CASE ReadData(s) # <<>>
      <4>1. r = [type |-> "DATA", data |-> ReadData(s)]
        BY <1>1, <2>3, <3>2
      <4> QED  BY <4>1
    <3> QED  BY <3>1, <3>2
  <2> QED  BY <2>1, <2>2, <2>3
<1> QED  BY <1>2, <1>3

\* What is read: the bytes from the offset on, at least one if there is one.
LEMMA ReadBytes ==
    ASSUME NEW d \in Seq(Byte), NEW o \in Nat, NEW l \in Nat \ {0},
           NEW end, end = Min({o + Min({l, MaxRead}), Len(d)}), NEW x, x = Stretch(d, o + 1, end)
    PROVE  /\ IsList(x) /\ end \in Nat /\ end <= Len(d)
           /\ o <= Len(d) => o <= end /\ Len(x) = end - o
           /\ o <= Len(d) /\ x = <<>> => o >= Len(d)
<1> DEFINE c == Min({l, MaxRead})  a == o + c  b == Len(d)
<1>1. b \in Nat /\ IsList(d)
  BY SeqIsList, LenProperties
<1>2. c \in Nat \ {0}
  <2>1. MaxRead \in Nat \ {0}
    BY SftpAssumption
  <2>2. PICK z : z = MaxRead
    OBVIOUS
  <2>3. Min({l, z}) \in Nat /\ Min({l, z}) \in {l, z}
    BY <2>1, <2>2, Lesser
  <2> QED  BY <2>1, <2>2, <2>3
<1> HIDE DEF c
<1>3. a \in Nat /\ a > o
  BY <1>2
<1> HIDE DEF a, b
<1>4. end = Min({a, b})
  BY DEF a, b, c
<1>5. end \in Nat /\ end <= a /\ end <= b /\ end \in {a, b}
  BY <1>1, <1>3, <1>4, Lesser
<1>6. CASE o <= end
  <2>1. PICK k : k = end - o
    OBVIOUS
  <2>2. PICK y : y = o + 1
    OBVIOUS
  <2>3. x = Stretch(d, y, end) /\ end <= Len(d)
    BY <1>5, <2>2 DEF b
  <2>4. Cuts(x, d, o, k)
    BY <1>1, <1>5, <1>6, <2>1, <2>2, <2>3, Cutting
  <2>5. IsList(x) /\ Len(x) = end - o
    BY <2>1, <2>4 DEF Cuts
  <2>6. x = <<>> => end = o
    <3>1. x = <<>> => Len(x) = 0
      OBVIOUS
    <3> QED  BY <1>5, <2>5, <3>1
  <2> QED  BY <1>1, <1>3, <1>5, <1>6, <2>5, <2>6 DEF b
<1>7. CASE ~(o <= end)
  <2>1. ~(o <= Len(d))
    BY <1>1, <1>3, <1>5, <1>7 DEF b
  <2>2. IsList(x)
    <3>2. x = <<>>
      <4>1. PICK a2 \in Int : a2 = o + 1
        OBVIOUS
      <4>2. x = Stretch(d, a2, end)
        BY <4>1
      <4>3. end < a2 /\ end \in Int
        BY <1>5, <1>7, <4>1
      <4> QED  BY <4>2, <4>3, SubSeqEmpty DEF Stretch
    <3>3. IsList(<<>>)
      BY DEF IsList
    <3> QED  BY <3>2, <3>3
  <2> QED  BY <1>5, <2>1, <2>2 DEF b
<1> QED  BY <1>6, <1>7

LEMMA ServedRead ==
    ASSUME SftpInv, NEW s \in Session, s = "ours", Serves(s), OursServes,
           NEW q, q = Asked(s), AsksRead(q)
    PROVE  OursInv'
<1>1. Disk /\ Tables /\ Wires /\ Client1 /\ OursInv /\ Handles(s) /\ Recorded(s)
  BY DEF SftpInv, Serves, OursServes
<1>2. /\ q.op = "READ" /\ q.handle = handle /\ q.offset = offset /\ q.len = Chunk
      /\ job.kind = "download" /\ result = "err" /\ Match(handle)
      /\ ~dirty => Begins(got, base, offset)
  BY DEF AsksRead
<1>3. /\ handle \in DOMAIN Ours /\ Ours[handle].kind = "file" /\ Ours[handle].node = target
      /\ ~dirty => nodes[target].data = base
  BY <1>2 DEF Match
<1>4. Holds(s, "file") /\ HandleOf(s) = Ours[handle]
  BY <1>2, <1>3 DEF Holds, HandleOf, Ours
<1>5. Read(s) \/ SyscallFails(s)
  BY <1>1, <1>2, OpHandler
<1>6. nodes' = nodes /\ Stays(s)
  BY <1>1, <1>5, QuietHandlers, HandlersStay DEF fs
<1>7. Head(rep'["ours"]).type # "HANDLE" /\ held' = held /\ Ours' = Ours
  BY <1>1, <1>6, StaysHeld DEF Stays, Ours
<1>8. /\ base' = base /\ job' = job /\ got' = got /\ handle' = handle /\ target' = target
      /\ dirty' = dirty /\ offset' = offset /\ result' = result
  BY <1>7 DEF OursServes
<1>9. Shows'
  BY <1>1, <1>6, <1>8, SameShows DEF OursInv
<1>10. awaits # "close" /\ (link["ours"] = "up" => awaits = "read")
  BY <1>1 DEF AsksRead, Client1
<1>11. Counted'
  BY <1>1, <1>7, <1>10, SameCounted
<1>12. PICK r : r = Head(rep'["ours"])
  OBVIOUS
<1>13. PICK h : h = handle
  OBVIOUS
<1>14. Match(h)'
  BY <1>2, <1>6, <1>7, <1>8, <1>13 DEF Match
<1> DEFINE d == nodes[target].data  end == ReadEnd(s)  x == ReadData(s)
<1>15. d \in Seq(Byte)
  BY <1>1, <1>3, <1>4, HeldFile
<1>16. offset \in Nat /\ Chunk \in Nat \ {0} /\ IsList(got) /\ IsList(base)
  BY <1>1, SftpAssumption DEF Client1
<1>17. end = Min({offset + Min({Chunk, MaxRead}), Len(d)}) /\ x = Stretch(d, offset + 1, end)
  BY <1>2, <1>3, <1>4 DEF ReadEnd, ReadData
<1>18. \/ r.type = "STATUS" /\ r.code # "EOF"
       \/ r.type = "STATUS" /\ x = <<>>
       \/ r.type = "DATA" /\ r.data = x
  BY <1>1, <1>2, <1>4, <1>5, <1>12, ReadOutcome
<1> HIDE DEF d, end, x
<1>19. /\ IsList(x) /\ end \in Nat /\ end <= Len(d)
       /\ offset <= Len(d) => offset <= end /\ Len(x) = end - offset
       /\ offset <= Len(d) /\ x = <<>> => offset >= Len(d)
  <2>1. PICK c : c = Chunk
    OBVIOUS
  <2>2. c \in Nat \ {0} /\ end = Min({offset + Min({c, MaxRead}), Len(d)})
    BY <1>16, <1>17, <2>1
  <2> QED  BY <1>15, <1>16, <1>17, <2>2, ReadBytes
<1>20. ASSUME ~dirty PROVE /\ Begins(got \o x, base, offset + Len(x))
                           /\ x = <<>> => got = base
  <2>1. Begins(got, base, offset) /\ d = base
    BY <1>2, <1>3, <1>20 DEF d
  <2>2. offset <= Len(base)
    BY <2>1 DEF Begins
  <2>3. offset + Len(x) = end /\ offset <= end /\ end <= Len(base) /\ end \in Nat
    BY <1>15, <1>16, <1>19, <2>1, <2>2, LenProperties
  <2>4. Begins(Join(got, x), base, end)
    <3>1. x = Stretch(base, offset + 1, end)
      BY <1>17, <2>1
    <3>2. PICK w : w = Join(got, x)
      OBVIOUS
    <3>3. Begins(w, base, end)
      BY <1>16, <2>1, <2>3, <3>1, <3>2, BeginsMore
    <3> QED  BY <3>2, <3>3
  <2>5. x = <<>> => got = base
    BY <1>16, <1>19, <2>1, <2>2, WholeOf
  <2> QED  BY <2>3, <2>4, <2>5 DEF Join
<1>21. SaysRead(r)'
  <2>1. r.type \in {"NAME", "DATA", "STATUS"} /\ r.type # "NAME"
    BY <1>18
  <2>2. r.type = "DATA" => IsList(r.data) /\ (~dirty => Begins(got \o r.data, base, offset + Len(r.data)))
    BY <1>18, <1>19, <1>20
  <2>3. r.type = "STATUS" /\ r.code = "EOF" => (~dirty => got = base)
    BY <1>18, <1>20
  <2> QED  BY <1>2, <1>8, <1>13, <1>14, <2>1, <2>2, <2>3 DEF SaysRead
<1>22. link["ours"] = "up" => Says(r)'
  BY <1>10, <1>21 DEF Says, OursServes
<1> QED  BY <1>9, <1>11, <1>12, <1>22, OursServed

\* WRITE.
LEMMA WrittenBegins ==
    ASSUME NEW d \in Seq(Byte), NEW w \in Seq(Byte), NEW n \in Nat, NEW k \in Nat,
           Begins(d, w, n), n <= k, k <= Len(w), NEW m, m = Stretch(w, n + 1, k),
           NEW x, x = Overwritten(d, n, m)
    PROVE  Begins(x, w, k) /\ IsPrefix(x, w)
<1>1. IsList(d) /\ IsList(w) /\ Len(d) = n
  BY SeqIsList DEF Begins
<1>2. m \in Seq(Byte)
  <2>1. PICK a \in Nat : a = n + 1
    OBVIOUS
  <2>2. \A i \in a..k : w[i] \in Byte
    BY <2>1, ElementOfSeq, LenProperties
  <2> QED  BY <2>1, <2>2, SubSeqProperties DEF Stretch
<1>3. x = Join(d, m)
  BY <1>1, <1>2, WrittenBehind
<1>4. Begins(x, w, k)
  BY <1>1, <1>3, BeginsMore
<1>5. IsList(x)
  BY <1>1, <1>2, <1>3, SeqIsList, Joined
<1> QED  BY <1>1, <1>4, <1>5, PrefixOf

IsStretch(x, w, a, f) == x = Stretch(w, a, f)
LEMMA ShorterStretch ==
    ASSUME NEW w, IsList(w), NEW n \in Nat, NEW c \in Nat, NEW k \in Nat, k <= c, n + c <= Len(w),
           NEW a, a = n + 1, NEW e, e = n + c, NEW m, m = Stretch(w, a, e), NEW u, u = 1,
           NEW x, x = Stretch(m, u, k), NEW f, f = n + k
    PROVE  IsStretch(x, w, a, f)
<1> DEFINE y == Stretch(w, a, f)  z == 0
<1>1. a = n + 1 /\ e \in Nat /\ f \in Nat /\ n <= e /\ e <= Len(w) /\ n <= f /\ f <= Len(w)
      /\ z \in Nat /\ z <= k /\ u = z + 1 /\ x = Stretch(m, u, k) /\ y = Stretch(w, a, f)
      /\ m = Stretch(w, a, e) /\ c = e - n /\ k = f - n /\ k = k - z
  BY DEF IsList
<1> HIDE DEF y, z
<1>2. Cuts(m, w, n, c)
  BY <1>1, Cutting
<1>3. Cuts(y, w, n, k)
  BY <1>1, Cutting
<1>4. IsList(m) /\ Len(m) = c
  BY <1>2 DEF Cuts
<1>5. Cuts(x, m, z, k)
  BY <1>1, <1>4, Cutting
<1>6. IsList(x) /\ IsList(y) /\ Len(x) = Len(y) /\ Len(x) = k
  BY <1>3, <1>5 DEF Cuts
<1>7. \A i \in 1..k : x[i] = y[i]
  BY <1>2, <1>3, <1>5 DEF Cuts, z
<1>8. x = y
  BY <1>6, <1>7, SameList
<1> QED  BY <1>8 DEF y, IsStretch

\* What a write does: k of the bytes it carries end up at its offset.
LEMMA WriteOutcome ==
    ASSUME Disk, Wires, NEW s \in Session, Holds(s, "file"), Asked(s).op = "WRITE",
           HandleOf(s).flags = {"WRITE", "CREAT", "TRUNC"},
           Write(s) \/ SyscallFails(s) \/ WriteStops(s), NEW r, r = Head(rep'[s])
    PROVE  /\ r.type = "STATUS"
           /\ \/ UNCHANGED fs /\ r.code # "OK"
              \/ /\ r.code = "OK"
                 /\ SetData(HandleOf(s).node, Overwritten(nodes[HandleOf(s).node].data,
                                                          Asked(s).offset, Asked(s).data))
              \/ /\ r.code # "OK"
                 /\ \E k \in 1..(Len(Asked(s).data) - 1) :
                      SetData(HandleOf(s).node,
                              Overwritten(nodes[HandleOf(s).node].data,
                                          Asked(s).offset, Stretch(Asked(s).data, 1, k)))
<1>1. ASSUME NEW x, Reply(s, Status(x)) PROVE r.type = "STATUS" /\ r.code = x
  <2>1. r = Status(x)
    BY <1>1, ReplySent
  <2> QED  BY <2>1 DEF Status
<1>2. /\ WriteOffset(HandleOf(s), Asked(s).offset) = Asked(s).offset
      /\ Writable(HandleOf(s).flags)
  BY DEF WriteOffset, Writable
<1>3. CASE SyscallFails(s)
  <2>1. PICK code \in {"PERMISSION_DENIED", "FAILURE"} : Reply(s, Status(code)) /\ UNCHANGED fs
    BY <1>3 DEF SyscallFails, Refuse
  <2> QED  BY <1>1, <2>1
<1>4. CASE Write(s)
  <2>1. /\ Reply(s, Status("OK"))
        /\ SetData(HandleOf(s).node, Overwritten(nodes[HandleOf(s).node].data,
                                                 Asked(s).offset, Asked(s).data))
    BY <1>2, <1>4 DEF Write
  <2>2. r.type = "STATUS" /\ r.code = "OK"
    BY <1>1, <2>1
  <2> QED  BY <2>1, <2>2
<1>5. CASE WriteStops(s)
  <2>1. /\ Reply(s, Status("FAILURE"))
        /\ \E k \in 1..(Len(Asked(s).data) - 1) :
             SetData(HandleOf(s).node,
                     Overwritten(nodes[HandleOf(s).node].data,
                                 Asked(s).offset, Stretch(Asked(s).data, 1, k)))
    BY <1>2, <1>5 DEF WriteStops, Stretch
  <2>2. r.type = "STATUS" /\ r.code = "FAILURE"
    BY <1>1, <2>1
  <2> QED  BY <2>1, <2>2
<1> QED  BY <1>3, <1>4, <1>5

LEMMA ServedWrite ==
    ASSUME SftpInv, NEW s \in Session, s = "ours", Serves(s), OursServes,
           NEW q, q = Asked(s), AsksWrite(q)
    PROVE  OursInv'
<1> DEFINE w == job.source  d == nodes[target].data  m == Stretch(w, offset + 1, offset + sent)
<1>1. Disk /\ Tables /\ Wires /\ Client1 /\ OursInv /\ Handles(s) /\ Recorded(s)
  BY DEF SftpInv, Serves, OursServes
<1>2. /\ q.op = "WRITE" /\ q.handle = handle /\ q.offset = offset /\ q.data = m
      /\ job.kind = "upload" /\ result = "err" /\ Match(handle)
      /\ sent \in Nat \ {0} /\ offset + sent <= Len(w)
      /\ ~dirty => Begins(d, w, offset)
  BY DEF AsksWrite, Stretch
<1>3. /\ handle \in DOMAIN Ours /\ Ours[handle].kind = "file" /\ Ours[handle].node = target
      /\ Ours[handle].flags = {"WRITE", "CREAT", "TRUNC"}
  BY <1>2 DEF Match
<1>4. Holds(s, "file") /\ HandleOf(s) = Ours[handle]
  BY <1>2, <1>3 DEF Holds, HandleOf, Ours
<1>5. Write(s) \/ SyscallFails(s) \/ WriteStops(s)
  BY <1>1, <1>2, OpHandler
<1>6. Stays(s)
  BY <1>1, <1>5, HandlersStay
<1>7. Head(rep'["ours"]).type # "HANDLE" /\ held' = held /\ Ours' = Ours
  BY <1>1, <1>6, StaysHeld DEF Stays, Ours
<1>8. /\ base' = base /\ job' = job /\ got' = got /\ handle' = handle /\ target' = target
      /\ dirty' = dirty /\ offset' = offset /\ result' = result /\ sent' = sent
  BY <1>7 DEF OursServes
<1>10. awaits # "close" /\ (link["ours"] = "up" => awaits = "write")
  BY <1>1 DEF AsksWrite, Client1
<1>11. Counted'
  BY <1>1, <1>7, <1>10, SameCounted
<1>12. PICK r : r = Head(rep'["ours"])
  OBVIOUS
<1>13. PICK h : h = handle
  OBVIOUS
<1>14. Match(h)'
  BY <1>2, <1>7, <1>8, <1>13 DEF Match
<1>15. d \in Seq(Byte) /\ target \in 1..Len(nodes)
  BY <1>1, <1>3, <1>4, HeldFile
<1>16. offset \in Nat /\ w \in Seq(Byte)
  BY <1>1, <1>2 DEF Client1, AnyJob, Command, NoJob
<1>17. /\ r.type = "STATUS"
       /\ \/ UNCHANGED fs /\ r.code # "OK"
          \/ r.code = "OK" /\ SetData(target, Overwritten(d, offset, m))
          \/ /\ r.code # "OK"
             /\ \E k \in 1..(Len(m) - 1) : SetData(target, Overwritten(d, offset, Stretch(m, 1, k)))
  BY <1>1, <1>2, <1>3, <1>4, <1>5, <1>12, WriteOutcome
<1> HIDE DEF d, m, w
<1>18. IsList(w) /\ Len(w) \in Nat
  BY <1>16, SeqIsList, LenProperties
<1>19. Len(m) = sent
  <2>1. PICK a : a = offset + 1
    OBVIOUS
  <2>2. PICK e \in Nat : e = offset + sent
    BY <1>2, <1>16
  <2>3. m = Stretch(w, a, e) /\ offset <= e /\ e <= Len(w) /\ sent = e - offset
    BY <1>2, <1>16, <2>1, <2>2 DEF m
  <2>4. PICK k : k = e - offset
    OBVIOUS
  <2>5. Cuts(m, w, offset, k)
    BY <1>16, <1>18, <2>1, <2>2, <2>3, <2>4, Cutting
  <2> QED  BY <2>3, <2>4, <2>5 DEF Cuts
\* k bytes were written.
<1>20. ASSUME NEW k \in Nat, k <= sent, NEW x, x = Stretch(w, offset + 1, offset + k),
              NEW y, y = Overwritten(d, offset, x), SetData(target, y)
       PROVE  nodes'[target].data = y
              /\ (~dirty => Begins(y, w, offset + k) /\ IsPrefix(y, w))
  <2>1. x \in Seq(Byte)
    <3>1. PICK a \in Nat : a = offset + 1
      BY <1>16
    <3>2. PICK e \in Nat : e = offset + k
      BY <1>16
    <3>3. e <= Len(w) /\ x = Stretch(w, a, e)
      BY <1>2, <1>16, <1>18, <1>20, <3>1, <3>2 DEF w
    <3>4. \A i \in a..e : w[i] \in Byte
      BY <1>16, <1>18, <3>1, <3>2, <3>3, ElementOfSeq
    <3> QED  BY <3>1, <3>2, <3>3, <3>4, SubSeqProperties DEF Stretch
  <2>2. y \in Seq(Byte)
    BY <1>15, <1>16, <1>20, <2>1, OverwrittenData
  <2>3. nodes'[target].data = y
    BY <1>1, <1>15, <1>20, <2>2, SetDataGrows
  <2>4. ASSUME ~dirty PROVE Begins(y, w, offset + k) /\ IsPrefix(y, w)
    <3>1. PICK e \in Nat : e = offset + k
      BY <1>16
    <3>2. Begins(d, w, offset) /\ offset <= e /\ e <= Len(w) /\ x = Stretch(w, offset + 1, e)
      BY <1>2, <1>16, <1>18, <1>20, <2>4, <3>1 DEF w, d
    <3>3. Begins(y, w, e) /\ IsPrefix(y, w)
      BY <1>15, <1>16, <1>20, <3>1, <3>2, WrittenBegins
    <3> QED  BY <3>1, <3>3
  <2> QED  BY <2>3, <2>4
<1>21. /\ ~dirty => IsPrefix(nodes'[target].data, w)
       /\ r.code = "OK" /\ ~dirty => Begins(nodes'[target].data, w, offset + sent)
  <2>1. CASE UNCHANGED fs /\ r.code # "OK"
    <3>1. nodes'[target].data = d
      BY <2>1 DEF fs, d
    <3>2. ~dirty => IsPrefix(d, w)
      <4>1. Begins(d, w, offset) /\ IsList(d) => IsPrefix(d, w)
        BY <1>18, PrefixOf
      <4> QED  BY <1>2, <1>15, <4>1, SeqIsList DEF d, w
    <3> QED  BY <2>1, <3>1, <3>2
  <2>2. CASE r.code = "OK" /\ SetData(target, Overwritten(d, offset, m))
    <3>1. PICK y : y = Overwritten(d, offset, m)
      OBVIOUS
    <3>2. PICK k \in Nat : k = sent
      BY <1>2
    <3>3. m = Stretch(w, offset + 1, offset + k) /\ k <= sent /\ SetData(target, y)
      BY <2>2, <3>1, <3>2 DEF m
    <3> QED  BY <1>20, <3>1, <3>2, <3>3
  <2>3. CASE /\ r.code # "OK"
             /\ \E k \in 1..(Len(m) - 1) : SetData(target, Overwritten(d, offset, Stretch(m, 1, k)))
    <3>1. PICK k \in 1..(Len(m) - 1) : SetData(target, Overwritten(d, offset, Stretch(m, 1, k)))
      BY <2>3
    <3>2. k \in Nat /\ k <= sent
      BY <1>2, <1>19, <3>1
    <3>3. PICK x : x = Stretch(m, 1, k)
      OBVIOUS
    <3>4. PICK y : y = Overwritten(d, offset, x)
      OBVIOUS
    <3>5. x = Stretch(w, offset + 1, offset + k)
      <4>1. sent \in Nat /\ offset + sent <= Len(w) /\ m = Stretch(w, offset + 1, offset + sent)
        BY <1>2 DEF m, w
      <4>2. PICK a : a = offset + 1
        OBVIOUS
      <4>3. PICK e : e = offset + sent
        OBVIOUS
      <4>4. PICK f : f = offset + k
        OBVIOUS
      <4>5. PICK u : u = 1
        OBVIOUS
      <4>6. m = Stretch(w, a, e) /\ x = Stretch(m, u, k)
        BY <3>3, <4>1, <4>2, <4>3, <4>5
      <4>7. x = Stretch(w, a, f)
        <5>1. PICK n \in Nat : n = offset
          BY <1>16
        <5>2. PICK c \in Nat : c = sent
          BY <4>1
        <5>3. PICK j \in Nat : j = k
          BY <3>2
        <5>4. j <= c /\ n + c <= Len(w) /\ a = n + 1 /\ e = n + c /\ f = n + j
          BY <3>2, <4>1, <4>2, <4>3, <4>4, <5>1, <5>2, <5>3
        <5>5. x = Stretch(m, u, j)
          BY <4>6, <5>3
        <5>6. IsStretch(x, w, a, f)
          BY <1>18, <4>5, <4>6, <5>4, <5>5, ShorterStretch
        <5> QED  BY <5>6 DEF IsStretch
      <4> QED  BY <4>2, <4>4, <4>7
    <3>6. SetData(target, y)
      BY <3>1, <3>3, <3>4
    <3> QED  BY <1>20, <2>3, <3>2, <3>4, <3>5, <3>6
  <2> QED  BY <1>17, <2>1, <2>2, <2>3
<1>22. Shows'
  BY <1>2, <1>8, <1>21 DEF Shows, w
<1>23. SaysWritten(r)'
  BY <1>2, <1>8, <1>13, <1>14, <1>17, <1>21 DEF SaysWritten, w
<1>24. link["ours"] = "up" => Says(r)'
  BY <1>10, <1>23 DEF Says, OursServes
<1> QED  BY <1>11, <1>12, <1>22, <1>24, OursServed

\* Whatever our command asks, and it is handled.
LEMMA OursKept ==
    ASSUME SftpInv, NEW s \in Session, s = "ours", Serves(s) PROVE SftpInv'
<1>1. Disk /\ Tables /\ Wires /\ Client1 /\ OursInv /\ OursServes
  BY OursServesAll DEF SftpInv
<1>2. Grown
  BY <1>1 DEF OursServes
<1>3. Disk' /\ Tables' /\ Wires' /\ Client1'
  BY <1>1, <1>2, TablesKept, WiresKept, ClientKept DEF Grown
<1>4. PICK q : q = Asked(s)
  OBVIOUS
<1>5. Asks(q)
  BY <1>1, <1>4 DEF OursInv, Pending, OursServes
<1>6. ASSUME AsksInit(q) \/ AsksOne(q) PROVE OursInv'
  BY <1>1, <1>4, <1>6, ServedInit
<1>7. ASSUME AsksOpen(q) PROVE OursInv'
  BY <1>1, <1>3, <1>4, <1>7, ServedOpen
<1>8. ASSUME AsksReaddir(q) PROVE OursInv'
  BY <1>1, <1>4, <1>8, ServedReaddir
<1>9. ASSUME AsksRead(q) PROVE OursInv'
  BY <1>1, <1>4, <1>9, ServedRead
<1>10. ASSUME AsksWrite(q) PROVE OursInv'
  BY <1>1, <1>4, <1>10, ServedWrite
<1>11. ASSUME AsksClose(q) PROVE OursInv'
  BY <1>1, <1>4, <1>11, ServedClose
<1>12. OursInv'
  BY <1>5, <1>6, <1>7, <1>8, <1>9, <1>10, <1>11 DEF Asks
<1> QED  BY <1>3, <1>12 DEF SftpInv

-----------------------------------------------------------------------------
(* What our client does with a reply.                                      *)

LEMMA SameWorld ==
    ASSUME Disk, Tables, UNCHANGED world
    PROVE  /\ Disk' /\ Tables' /\ nodes' = nodes /\ Ours' = Ours /\ held' = held /\ link' = link
           /\ phase' = phase /\ menu' = menu /\ left' = left /\ faults' = faults
<1>1. /\ UNCHANGED <<names, nodes, handles, held, next_handle>>
      /\ link' = link /\ phase' = phase /\ menu' = menu /\ left' = left /\ faults' = faults
  BY DEF world, fs, server, limits
<1>2. Disk' /\ Tables'
  BY <1>1, SameTables
<1> QED  BY <1>1, <1>2 DEF Ours

LEMMA SameMatch ==
    ASSUME Ours' = Ours, nodes' = nodes, job' = job, UNCHANGED watched, NEW h, Match(h)
    PROVE  Match(h)'
BY DEF Match, watched

LEMMA HandleNumber ==
    ASSUME Tables, NEW h, Match(h) PROVE h \in Nat
BY DEF Tables, Table, Match, Ours, Session

\* A reply has come: there is no request under way.
LEMMA ReplyHere ==
    ASSUME SftpInv, Received
    PROVE  /\ Disk /\ Tables /\ Wires /\ Client1 /\ Shows /\ Counted
           /\ Says(Answer) /\ link["ours"] = "up" /\ req["ours"] = <<>>
<1>1. Disk /\ Tables /\ Wires /\ Client1 /\ OursInv
  BY DEF SftpInv
<1>2. link["ours"] = "up" /\ rep["ours"] # <<>>
  BY DEF Received
<1>3. req["ours"] = <<>>
  BY <1>1, <1>2 DEF Wires, Wire, Session
<1> QED  BY <1>1, <1>2, <1>3 DEF OursInv, Replied

LEMMA SendWires ==
    ASSUME Wires, link' = link, phase' = phase, menu' = menu, left' = left, faults' = faults,
           NEW q \in Request, Send(q)
    PROVE  Wires' /\ req'["ours"] = <<q>> /\ rep'["ours"] = <<>> /\ Asked("ours")' = q
<1>1. req = [f \in Session |-> req[f]] /\ rep = [f \in Session |-> rep[f]]
  BY DEF Wires
<1>2. req' = [req EXCEPT !["ours"] = <<q>>] /\ rep' = [rep EXCEPT !["ours"] = <<>>]
  BY DEF Send
<1>3. /\ req'["ours"] = <<q>> /\ rep'["ours"] = <<>>
      /\ req'["other"] = req["other"] /\ rep'["other"] = rep["other"]
      /\ req' = [f \in Session |-> req'[f]] /\ rep' = [f \in Session |-> rep'[f]]
  BY <1>1, <1>2 DEF Session
<1>4. Asked("ours")' = q
  <2>1. Head(<<q>>) = q
    OBVIOUS
  <2> QED  BY <1>3, <2>1 DEF Asked
<1>5. ASSUME NEW f \in Session PROVE Wire(f)'
  <2>1. CASE f = "ours"
    BY <1>3, <1>4, <2>1 DEF Wire
  <2>2. CASE f = "other"
    BY <1>3, <2>2 DEF Wires, Wire, Asked
  <2> QED  BY <2>1, <2>2 DEF Session
<1>6. Wires'
  BY <1>3, <1>5 DEF Wires
<1> QED  BY <1>3, <1>4, <1>6

\* It sends the next request ...
LEMMA Sends ==
    ASSUME SftpInv, UNCHANGED world, NEW q \in Request, Send(q), Asks(q)', Shows', Client1', Counted'
    PROVE  SftpInv'
<1>1. Disk /\ Tables /\ Wires
  BY DEF SftpInv
<1>2. /\ Disk' /\ Tables' /\ link' = link /\ phase' = phase /\ menu' = menu /\ left' = left
      /\ faults' = faults
  BY <1>1, SameWorld
<1>3. Wires' /\ req'["ours"] = <<q>> /\ rep'["ours"] = <<>> /\ Asked("ours")' = q
  BY <1>1, <1>2, SendWires
<1>4. Pending'
  BY <1>3 DEF Pending
<1>5. Replied'
  BY <1>3 DEF Replied, Received
<1> QED  BY <1>2, <1>3, <1>4, <1>5 DEF SftpInv, OursInv

\* ... or returns.
LEMMA Returns ==
    ASSUME SftpInv, UNCHANGED world, Received, NEW r, Return(r), Shows', Client1', Counted'
    PROVE  SftpInv'
<1>1. /\ Disk /\ Tables /\ Wires /\ req["ours"] = <<>>
      /\ req = [f \in Session |-> req[f]] /\ rep = [f \in Session |-> rep[f]]
  BY ReplyHere DEF Wires
<1>2. /\ Disk' /\ Tables' /\ link' = link /\ phase' = phase /\ menu' = menu /\ left' = left
      /\ faults' = faults
  BY <1>1, SameWorld
<1>3. req' = req /\ rep' = [rep EXCEPT !["ours"] = <<>>]
  BY DEF Return
<1>4. /\ rep'["ours"] = <<>> /\ rep'["other"] = rep["other"]
      /\ rep' = [f \in Session |-> rep'[f]]
  BY <1>1, <1>3 DEF Session
<1>5. Wires'
  <2>1. ASSUME NEW f \in Session PROVE Wire(f)'
    <3>1. CASE f = "ours"
      BY <1>1, <1>3, <1>4, <3>1 DEF Wire
    <3>2. CASE f = "other"
      BY <1>1, <1>3, <1>4, <3>2 DEF Wires, Wire, Asked
    <3> QED  BY <3>1, <3>2 DEF Session
  <2> QED  BY <1>1, <1>2, <1>3, <1>4, <2>1 DEF Wires
<1>6. Pending' /\ Replied'
  BY <1>1, <1>3, <1>4 DEF Pending, Replied, Received
<1> QED  BY <1>2, <1>5, <1>6 DEF SftpInv, OursInv

\* The count of handles, while the client owes as much as before.
LEMMA OwesSame ==
    ASSUME Counted, held' = held, link' = link, leaked' = leaked, Owes' <=> Owes PROVE Counted'
BY DEF Counted

\* The client's state, when it is awaiting something else.
LEMMA ClientSame ==
    ASSUME Client1, nodes' = nodes, todo' = todo, job' = job, leaked' = leaked, UNCHANGED watched,
           offset' \in Nat, IsList(got'), awaits' \notin {"version", "gone"}
    PROVE  Client1'
BY DEF Client1, watched, IsList

\* The handshake's reply.
LEMMA ConnectedKept ==
    ASSUME SftpInv, Connected PROVE SftpInv'
<1>1. /\ UNCHANGED world /\ UNCHANGED watched /\ leaked' = leaked /\ todo' = todo /\ job' = job
      /\ offset' = offset /\ got' = got /\ Return("ok") /\ awaits = "version" /\ Received
  BY DEF Connected, Got
<1>2. Disk /\ Tables /\ Client1 /\ Counted
  BY <1>1, ReplyHere
<1>3. held' = held /\ link' = link /\ nodes' = nodes
  BY <1>1, <1>2, SameWorld
<1>4. awaits' = "idle"
  BY <1>1 DEF Return
<1>5. Client1'
  <2>1. offset' \in Nat /\ IsList(got') /\ awaits' \notin {"version", "gone"}
    BY <1>1, <1>2, <1>4 DEF Client1
  <2> QED  BY <1>1, <1>2, <1>3, <2>1, ClientSame
<1>6. Shows'
  BY <1>1, <1>2 DEF Shows, Client1, NoJob
<1>7. Counted'
  <2>1. Owes' <=> Owes
    BY <1>1, <1>4 DEF Owes
  <2> QED  BY <1>1, <1>2, <1>3, <2>1, OwesSame
<1> QED  BY <1>1, <1>5, <1>6, <1>7, Returns

\* The end of a command: what it has to show stays, unless it is an error.
LEMMA ReturnShows ==
    ASSUME Shows, nodes' = nodes, job' = job, got' = got, UNCHANGED watched,
           result' = result \/ result' = "err"
    PROVE  Shows'
BY DEF Shows, NamesOf, IsPrefix, watched

LEMMA NotOpenedKept ==
    ASSUME SftpInv, NotOpened PROVE SftpInv'
<1>1. /\ UNCHANGED world /\ UNCHANGED watched /\ leaked' = leaked /\ todo' = todo /\ job' = job
      /\ offset' = offset /\ got' = got /\ Return("err") /\ awaits = "open" /\ Received
      /\ Answer.type = "STATUS"
  BY DEF NotOpened, Got
<1>2. Disk /\ Tables /\ Client1 /\ Counted /\ Shows
  BY <1>1, ReplyHere
<1>3. held' = held /\ link' = link /\ nodes' = nodes
  BY <1>1, <1>2, SameWorld
<1>4. awaits' = "idle" /\ result' = "err"
  BY <1>1 DEF Return
<1>5. Client1'
  <2>1. offset' \in Nat /\ IsList(got') /\ awaits' \notin {"version", "gone"}
    BY <1>1, <1>2, <1>4 DEF Client1
  <2> QED  BY <1>1, <1>2, <1>3, <2>1, ClientSame
<1>6. Shows'
  BY <1>1, <1>2, <1>3, <1>4, ReturnShows
<1>7. Counted'
  <2>1. Owes' <=> Owes
    BY <1>1, <1>4 DEF Owes, Got
  <2> QED  BY <1>1, <1>2, <1>3, <2>1, OwesSame
<1> QED  BY <1>1, <1>5, <1>6, <1>7, Returns

LEMMA CloseAnsweredKept ==
    ASSUME SftpInv, CloseAnswered PROVE SftpInv'
<1>1. /\ UNCHANGED world /\ UNCHANGED watched /\ leaked' = leaked /\ todo' = todo /\ job' = job
      /\ offset' = offset /\ got' = got /\ awaits = "close" /\ Received
      /\ Return(IF Answer.code = "OK" THEN result ELSE "err")
  BY DEF CloseAnswered, Got
<1>2. Disk /\ Tables /\ Client1 /\ Counted /\ Shows /\ req["ours"] = <<>>
  BY <1>1, ReplyHere
<1>3. held' = held /\ link' = link /\ nodes' = nodes
  BY <1>1, <1>2, SameWorld
<1>4. awaits' = "idle" /\ (result' = result \/ result' = "err")
  BY <1>1 DEF Return
<1>5. Client1'
  <2>1. offset' \in Nat /\ IsList(got') /\ awaits' \notin {"version", "gone"}
    BY <1>1, <1>2, <1>4 DEF Client1
  <2> QED  BY <1>1, <1>2, <1>3, <2>1, ClientSame
<1>6. Shows'
  BY <1>1, <1>2, <1>3, <1>4, ReturnShows
<1>7. Counted'
  <2>1. Owes' <=> Owes
    BY <1>1, <1>2, <1>4 DEF Owes
  <2> QED  BY <1>1, <1>2, <1>3, <2>1, OwesSame
<1> QED  BY <1>1, <1>5, <1>6, <1>7, Returns

LEMMA AnsweredKept ==
    ASSUME SftpInv, Answered PROVE SftpInv'
<1>1. /\ UNCHANGED world /\ UNCHANGED watched /\ leaked' = leaked /\ todo' = todo /\ job' = job
      /\ offset' = offset /\ got' = got /\ awaits = "status" /\ Received
      /\ \E r : Return(r)
  BY DEF Answered
<1>2. Disk /\ Tables /\ Client1 /\ Counted /\ Says(Answer)
  BY <1>1, ReplyHere
<1>3. held' = held /\ link' = link /\ nodes' = nodes
  BY <1>1, <1>2, SameWorld
<1>4. awaits' = "idle"
  BY <1>1 DEF Return
<1>5. Client1'
  <2>1. offset' \in Nat /\ IsList(got') /\ awaits' \notin {"version", "gone"}
    BY <1>1, <1>2, <1>4 DEF Client1
  <2> QED  BY <1>1, <1>2, <1>3, <2>1, ClientSame
<1>6. Shows'
  BY <1>1, <1>2 DEF Shows, Says
<1>7. Counted'
  <2>1. Owes' <=> Owes
    BY <1>1, <1>4 DEF Owes
  <2> QED  BY <1>1, <1>2, <1>3, <2>1, OwesSame
<1> QED  BY <1>1, <1>5, <1>6, <1>7, Returns

\* A sink that cannot be flushed: one handle more is left open.
LEMMA FlushFailsKept ==
    ASSUME SftpInv, FlushFails PROVE SftpInv'
<1>1. /\ UNCHANGED world /\ UNCHANGED watched /\ leaked' = leaked + 1 /\ todo' = todo /\ job' = job
      /\ offset' = offset /\ got' = got /\ awaits = "read" /\ Received /\ Return("err")
  BY DEF FlushFails, Got
<1>2. Disk /\ Tables /\ Client1 /\ Counted /\ Shows /\ link["ours"] = "up"
  BY <1>1, ReplyHere
<1>3. held' = held /\ link' = link /\ nodes' = nodes
  BY <1>1, <1>2, SameWorld
<1>4. awaits' = "idle" /\ result' = "err"
  BY <1>1 DEF Return
<1>5. Client1'
  BY <1>1, <1>2, <1>3, <1>4 DEF Client1, watched, IsList
<1>6. Shows'
  BY <1>1, <1>2, <1>3, <1>4, ReturnShows
<1>7. Counted'
  <2>1. Owes /\ ~Owes'
    BY <1>1, <1>4 DEF Owes
  <2>2. Cardinality(held["ours"]) = leaked + 1
    BY <1>2, <2>1 DEF Counted
  <2>3. leaked' + 0 = leaked + 1
    BY <1>1, <1>2 DEF Client1
  <2> QED  BY <1>3, <2>1, <2>2, <2>3 DEF Counted
<1> QED  BY <1>1, <1>5, <1>6, <1>7, Returns

\* The next command.
LEMMA OpenRequest ==
    ASSUME NEW n \in Names, NEW fl \in SUBSET Flags, NEW x, x = [op |-> "OPEN", path |-> n, flags |-> fl]
    PROVE  x \in Request
<1>1. x \in [op : {"OPEN"}, path : Names, flags : SUBSET Flags]
  OBVIOUS
<1> QED  BY <1>1 DEF Request

LEMMA OpendirRequest ==
    ASSUME NEW n \in Names \cup {Dir}, NEW x, x = [op |-> "OPENDIR", path |-> n]
    PROVE  x \in Request
<1>1. x \in [op : {"OPENDIR"}, path : Names \cup {Dir}]
  OBVIOUS
<1> QED  BY <1>1 DEF Request

LEMMA BeginRequest ==
    ASSUME NEW j \in Command
    PROVE  /\ j.kind \in Jobs => Opening(j) \in Request
           /\ j.kind \notin Jobs => j.kind = "one" /\ j.request \in OneRequest /\ j.request \in Request
<1>1. CASE j \in [kind : {"list"}, path : Names \cup {Dir}]
  <2>1. Opening(j) = [op |-> "OPENDIR", path |-> j.path] /\ j.path \in Names \cup {Dir}
    BY <1>1 DEF Opening
  <2>2. Opening(j) \in Request
    BY <2>1, OpendirRequest
  <2> QED  BY <1>1, <2>2 DEF Jobs
<1>2. CASE j \in [kind : {"download"}, path : Names]
  <2>1. Opening(j) = [op |-> "OPEN", path |-> j.path, flags |-> {"READ"}] /\ j.path \in Names
    BY <1>2 DEF Opening
  <2>2. PICK fl \in SUBSET Flags : fl = {"READ"}
    BY DEF Flags
  <2>3. Opening(j) \in Request
    BY <2>1, <2>2, OpenRequest
  <2> QED  BY <1>2, <2>3 DEF Jobs
<1>3. CASE j \in [kind : {"upload"}, path : Names, source : Seq(Byte)]
  <2>1. /\ Opening(j) = [op |-> "OPEN", path |-> j.path, flags |-> {"WRITE", "CREAT", "TRUNC"}]
        /\ j.path \in Names
    BY <1>3 DEF Opening
  <2>2. PICK fl \in SUBSET Flags : fl = {"WRITE", "CREAT", "TRUNC"}
    BY DEF Flags
  <2>3. Opening(j) \in Request
    BY <2>1, <2>2, OpenRequest
  <2> QED  BY <1>3, <2>3 DEF Jobs
<1>4. CASE j \in [kind : {"one"}, request : OneRequest]
  BY <1>4 DEF Jobs, Request
<1> QED  BY <1>1, <1>2, <1>3, <1>4 DEF Command

LEMMA BeginKept ==
    ASSUME SftpInv, Begin PROVE SftpInv'
<1>1. Disk /\ Tables /\ Wires /\ Client1 /\ OursInv
  BY DEF SftpInv
<1>2. PICK j : j = Head(todo)
  OBVIOUS
<1>3. j \in Command /\ Tail(todo) \in Seq(Command)
  BY <1>1, <1>2, HeadTailProperties DEF Begin, Client1
<1>4. /\ UNCHANGED world /\ leaked' = leaked /\ todo' = Tail(todo) /\ job' = j /\ awaits = "idle"
      /\ awaits' = IF j.kind \in Jobs THEN "open" ELSE "status"
      /\ offset' = 0 /\ got' = <<>> /\ result' = "err" /\ target' = 0 /\ base' = <<>>
      /\ dirty' = FALSE /\ link["ours"] = "up"
  BY <1>2 DEF Begin
<1>5. PICK q : q = IF j.kind \in Jobs THEN Opening(j) ELSE j.request
  OBVIOUS
<1>6. Send(q)
  BY <1>2, <1>5 DEF Begin, Opening, Jobs
<1>7. q \in Request /\ (j.kind \notin Jobs => j.kind = "one" /\ q \in OneRequest)
  BY <1>3, <1>5, BeginRequest
<1>8. held' = held /\ link' = link /\ nodes' = nodes
  BY <1>1, <1>4, SameWorld
<1>9. IsList(<<>>) /\ NamesOf(<<>>) = <<>> /\ IsPrefix(<<>>, <<>>)
  <2>1. IsList(<<>>)
    BY DEF IsList
  <2> QED  BY <2>1, EmptyBegins
<1>10. Asks(q)'
  <2>1. CASE j.kind \in Jobs
    <3>1. q = Opening(job)' /\ Fresh' /\ awaits' = "open"
      BY <1>4, <1>5, <2>1 DEF Fresh, Opening
    <3>2. AsksOpen(q)'
      BY <1>4, <2>1, <3>1 DEF AsksOpen
    <3> QED  BY <3>2 DEF Asks
  <2>2. CASE j.kind \notin Jobs
    <3>1. AsksOne(q)'
      BY <1>4, <1>7, <2>2 DEF AsksOne
    <3> QED  BY <3>1 DEF Asks
  <2> QED  BY <2>1, <2>2
<1>11. Client1'
  <2>1. target' \in 0..Len(nodes')
    BY <1>1, <1>4, <1>8, NodeFacts
  <2>2. IsList(got') /\ IsList(base')
    BY <1>4, <1>9
  <2> QED  BY <1>1, <1>3, <1>4, <2>1, <2>2 DEF Client1, AnyJob
<1>12. Shows'
  BY <1>4, <1>9 DEF Shows, NamesOf
<1>13. Counted'
  <2>1. ~Owes
    BY <1>4 DEF Owes
  <2>2. rep'["ours"] = <<>>
    <3>1. /\ link' = link /\ phase' = phase /\ menu' = menu /\ left' = left /\ faults' = faults
      BY <1>1, <1>4, SameWorld
    <3> QED  BY <1>1, <1>6, <1>7, <3>1, SendWires
  <2>3. ~Owes'
    BY <1>4, <2>2 DEF Owes, Got, Received
  <2>4. Counted
    BY <1>1 DEF OursInv
  <2> QED  BY <1>4, <1>8, <2>1, <2>3, <2>4, OwesSame
<1> QED  BY <1>4, <1>6, <1>7, <1>10, <1>11, <1>12, <1>13, Sends

\* The requests on a handle.
LEMMA HandleRequest ==
    ASSUME NEW h \in Nat, NEW o \in Nat
    PROVE  /\ [op |-> "CLOSE", handle |-> h] \in Request
           /\ [op |-> "READDIR", handle |-> h] \in Request
           /\ [op |-> "READ", handle |-> h, offset |-> o, len |-> Chunk] \in Request
<1>1. /\ [op |-> "CLOSE", handle |-> h] \in [op : {"CLOSE", "READDIR", "FSTAT"}, handle : Nat]
      /\ [op |-> "READDIR", handle |-> h] \in [op : {"CLOSE", "READDIR", "FSTAT"}, handle : Nat]
  OBVIOUS
<1>2. [op |-> "READ", handle |-> h, offset |-> o, len |-> Chunk]
        \in [op : {"READ"}, handle : Nat, offset : Nat, len : Nat]
  BY SftpAssumption
<1> QED  BY <1>1, <1>2 DEF Request

LEMMA WriteRequest ==
    ASSUME NEW h \in Nat, NEW o \in Nat, NEW d \in Seq(Byte)
    PROVE  [op |-> "WRITE", handle |-> h, offset |-> o, data |-> d] \in Request
<1>1. [op |-> "WRITE", handle |-> h, offset |-> o, data |-> d]
        \in [op : {"WRITE"}, handle : Nat, offset : Nat, data : Seq(Byte)]
  OBVIOUS
<1> QED  BY <1>1 DEF Request

\* A command that owes a handle goes on, in one of three ways.
Proceeds ==
    /\ UNCHANGED world /\ UNCHANGED watched /\ leaked' = leaked /\ todo' = todo /\ job' = job
    /\ Received /\ Owes /\ IsList(got') /\ offset' \in Nat
LEMMA GoesOn ==
    ASSUME SftpInv, Proceeds, awaits' \in {"read", "write", "close"},
           NEW q \in Request, Send(q), Asks(q)', Shows'
    PROVE  SftpInv'
<1>1. Disk /\ Tables /\ Wires /\ Client1 /\ Counted
  BY ReplyHere DEF Proceeds
<1>2. /\ held' = held /\ link' = link /\ nodes' = nodes
      /\ phase' = phase /\ menu' = menu /\ left' = left /\ faults' = faults
  BY <1>1, SameWorld DEF Proceeds
<1>3. req'["ours"] = <<q>>
  BY <1>1, <1>2, SendWires
<1>4. Client1'
  BY <1>1, <1>2, ClientSame DEF Proceeds
<1>5. Owes'
  BY <1>3 DEF Owes
<1>6. Counted'
  BY <1>1, <1>2, <1>5, OwesSame DEF Proceeds
<1> QED  BY <1>4, <1>6, Sends DEF Proceeds

\* It closes its handle ...
LEMMA GoesClose ==
    ASSUME SftpInv, Proceeds, job.kind \in Jobs, NEW h, Match(h), handle' = h, NEW r, SendClose(h, r), Shows'
    PROVE  SftpInv'
<1>1. Disk /\ Tables
  BY DEF SftpInv
<1>2. h \in Nat
  BY <1>1, HandleNumber
<1>3. PICK q : q = [op |-> "CLOSE", handle |-> h]
  OBVIOUS
<1>4. q \in Request
  BY <1>2, <1>3, HandleRequest
<1>5. Send(q) /\ awaits' = "close"
  BY <1>3 DEF SendClose
<1>6. nodes' = nodes /\ Ours' = Ours /\ job' = job /\ UNCHANGED watched
  BY <1>1, SameWorld DEF Proceeds
<1>7. Match(h)'
  BY <1>6, SameMatch
<1>8. AsksClose(q)'
  BY <1>3, <1>5, <1>6, <1>7 DEF AsksClose
<1>9. Asks(q)'
  BY <1>8 DEF Asks
<1> QED  BY <1>4, <1>5, <1>9, GoesOn

\* ... or an upload reads more of its source ...
LEMMA GoesWrite ==
    ASSUME SftpInv, Proceeds, job.kind = "upload", NEW h, Match(h), handle' = h, result = "err",
           got' = got, NEW o \in Nat, offset' = o, o <= Len(job.source),
           ~dirty => Begins(nodes[target].data, job.source, o), SourceStep(h, o)
    PROVE  SftpInv'
<1>1. Disk /\ Tables /\ Client1 /\ Shows
  BY DEF SftpInv, OursInv
<1>2. h \in Nat /\ target # 0 /\ target \in 1..Len(nodes)
  BY <1>1, HandleNumber, MatchTarget
<1>3. nodes' = nodes /\ Ours' = Ours /\ job' = job /\ UNCHANGED watched
  BY <1>1, SameWorld DEF Proceeds
<1>4. target' = target /\ dirty' = dirty /\ base' = base
  BY <1>3 DEF watched
<1>5. Match(h)'
  BY <1>3, SameMatch
<1>6. job.source \in Seq(Byte)
  BY <1>1 DEF Client1, AnyJob, Command, NoJob
<1>7. IsList(job.source) /\ Len(job.source) \in Nat
  BY <1>6, SeqIsList, LenProperties
<1>8. CASE SendClose(h, "err")
  <2>1. result' = "err"
    BY <1>8 DEF SendClose
  <2>2. Shows'
    BY <1>1, <1>3, <2>1, ReturnShows
  <2>3. job.kind \in Jobs
    BY DEF Jobs
  <2> QED  BY <1>8, <2>2, <2>3, GoesClose
<1>9. CASE o = Len(job.source) /\ SendClose(h, "ok")
  <2>1. ~dirty => nodes[target].data = job.source
    <3> SUFFICES ASSUME ~dirty PROVE nodes[target].data = job.source
      OBVIOUS
    <3>1. PICK d : d = nodes[target].data
      OBVIOUS
    <3>2. PICK w : w = job.source
      OBVIOUS
    <3>3. IsList(d)
      BY <1>1, <1>2, <3>1, NodeFacts, SeqIsList
    <3>4. IsList(w) /\ Begins(d, w, o) /\ o >= Len(w)
      BY <1>7, <1>9, <3>1, <3>2
    <3>5. d = w
      BY <3>3, <3>4, WholeOf
    <3> QED  BY <3>1, <3>2, <3>5
  <2>2. Shows'
    <3>1. ~dirty => IsPrefix(nodes[target].data, job.source)
      BY <1>1, <1>2 DEF Shows
    <3> QED  BY <1>3, <1>4, <2>1, <3>1 DEF Shows
  <2>3. job.kind \in Jobs
    BY DEF Jobs
  <2> QED  BY <1>9, <2>2, <2>3, GoesClose
<1>10. ASSUME NEW n \in 1..Min({Chunk, Len(job.source) - o}),
              Send([op |-> "WRITE", handle |-> h, offset |-> o,
                    data |-> SubSeq(job.source, o + 1, o + n)]),
              awaits' = "write", sent' = n, result' = result
       PROVE  SftpInv'
  <2>1. n \in Nat \ {0} /\ o + n <= Len(job.source)
    <3>1. PICK a \in Nat : a = Chunk
      BY SftpAssumption
    <3>2. PICK b \in Nat : b = Len(job.source) - o
      BY <1>7
    <3>3. Min({a, b}) \in Nat /\ Min({a, b}) <= b
      BY Lesser
    <3>4. n \in 1..Min({a, b})
      BY <1>10, <3>1, <3>2
    <3>5. n \in Nat \ {0} /\ n <= b
      BY <3>3, <3>4
    <3> QED  BY <1>7, <3>2, <3>5
  <2>2. PICK d : d = SubSeq(job.source, o + 1, o + n)
    OBVIOUS
  <2>3. d \in Seq(Byte)
    <3>1. PICK a \in Nat : a = o + 1
      OBVIOUS
    <3>2. PICK e \in Nat : e = o + n
      BY <2>1
    <3>3. PICK w : w = job.source
      OBVIOUS
    <3>4. \A i \in a..e : w[i] \in Byte
      BY <1>6, <1>7, <2>1, <3>1, <3>2, <3>3, ElementOfSeq
    <3>5. SubSeq(w, a, e) \in Seq(Byte)
      BY <3>4, SubSeqProperties
    <3> QED  BY <2>2, <3>1, <3>2, <3>3, <3>5
  <2>4. PICK q : q = [op |-> "WRITE", handle |-> h, offset |-> o, data |-> d]
    OBVIOUS
  <2>5. q \in Request
    BY <1>2, <2>3, <2>4, WriteRequest
  <2>6. Send(q)
    BY <1>10, <2>2, <2>4
  <2>7. AsksWrite(q)'
    <3>1. q.op = "WRITE"
      BY <2>4
    <3>2. q = [op |-> "WRITE", handle |-> handle', offset |-> offset',
               data |-> SubSeq(job'.source, offset' + 1, offset' + sent')]
      BY <1>3, <1>10, <2>2, <2>4
    <3> QED  BY <1>3, <1>4, <1>5, <1>10, <2>1, <3>1, <3>2 DEF AsksWrite
  <2>8. Asks(q)'
    BY <2>7 DEF Asks
  <2>9. Shows'
    BY <1>1, <1>3, <1>10, ReturnShows
  <2> QED  BY <1>10, <2>5, <2>6, <2>8, <2>9, GoesOn
<1>11. \/ o = Len(job.source) /\ SendClose(h, "ok")
       \/ \E n \in 1..Min({Chunk, Len(job.source) - o}) :
            /\ Send([op |-> "WRITE", handle |-> h, offset |-> o,
                     data |-> SubSeq(job.source, o + 1, o + n)])
            /\ awaits' = "write" /\ sent' = n /\ result' = result
       \/ SendClose(h, "err")
  BY DEF SourceStep
<1> QED  BY <1>8, <1>9, <1>10, <1>11

\* ... or it reads more of what it has open.
LEMMA GoesRead ==
    ASSUME SftpInv, Proceeds, NEW h, Match(h), handle' = h, result = "err", result' = "err",
           awaits' = "read", NEW o \in Nat, offset' = o, Send(NextRead(h, o)),
           job.kind \in {"list", "download"},
           job.kind = "list" => Begins(NamesOf(got'), base, Ours[h].next),
           job.kind = "download" /\ ~dirty => Begins(got', base, o)
    PROVE  SftpInv'
<1>1. Disk /\ Tables /\ Client1
  BY DEF SftpInv
<1>2. h \in Nat
  BY <1>1, HandleNumber
<1>3. nodes' = nodes /\ Ours' = Ours /\ job' = job /\ UNCHANGED watched
  BY <1>1, SameWorld DEF Proceeds
<1>4. target' = target /\ dirty' = dirty /\ base' = base
  BY <1>3 DEF watched
<1>5. Match(h)'
  BY <1>3, SameMatch
<1>6. IsList(base) /\ IsList(got')
  BY <1>1 DEF Client1, Proceeds
<1>7. PICK q : q = NextRead(h, o)
  OBVIOUS
<1>8. q \in Request
  BY <1>2, <1>7, HandleRequest DEF NextRead
<1>9. Asks(q)'
  <2>1. CASE job.kind = "list"
    <3>1. q = [op |-> "READDIR", handle |-> h]
      BY <1>7, <2>1 DEF NextRead
    <3>2. Begins(NamesOf(got)', base', Ours'[h].next)
      BY <1>3, <1>4, <2>1 DEF NamesOf
    <3>3. AsksReaddir(q)'
      BY <1>3, <1>5, <2>1, <3>1, <3>2 DEF AsksReaddir
    <3> QED  BY <3>3 DEF Asks
  <2>2. CASE job.kind = "download"
    <3>1. q = [op |-> "READ", handle |-> h, offset |-> o, len |-> Chunk]
      BY <1>7, <2>2 DEF NextRead
    <3>2. AsksRead(q)'
      BY <1>3, <1>4, <1>5, <2>2, <3>1 DEF AsksRead
    <3> QED  BY <3>2 DEF Asks
  <2> QED  BY <2>1, <2>2
<1>10. Shows'
  <2>1. CASE job.kind = "list"
    <3>1. PICK x : x = got'
      OBVIOUS
    <3>2. IsList(x) /\ IsList(NamesOf(x)) /\ Begins(NamesOf(x), base, Ours[h].next)
      BY <1>6, <2>1, <3>1, NamesList
    <3>3. IsPrefix(NamesOf(x), base)
      BY <1>6, <3>2, PrefixOf
    <3>4. IsPrefix(NamesOf(got)', base')
      BY <1>4, <3>1, <3>3 DEF NamesOf
    <3> QED  BY <1>3, <2>1, <3>4 DEF Shows
  <2>2. CASE job.kind = "download"
    <3>1. ~dirty => IsPrefix(got', base)
      BY <1>6, <2>2, PrefixOf
    <3> QED  BY <1>3, <1>4, <2>2, <3>1 DEF Shows
  <2> QED  BY <2>1, <2>2
<1>11. Send(q)
  BY <1>7
<1> QED  BY <1>8, <1>9, <1>10, <1>11, GoesOn

LEMMA OpenedKept ==
    ASSUME SftpInv, Opened PROVE SftpInv'
<1>1. /\ UNCHANGED world /\ UNCHANGED watched /\ leaked' = leaked /\ todo' = todo /\ job' = job
      /\ offset' = offset /\ got' = got /\ awaits = "open" /\ Got("HANDLE")
      /\ handle' = Answer.handle
      /\ \/ /\ job.kind # "upload" /\ Send(NextRead(Answer.handle, 0)) /\ awaits' = "read"
            /\ result' = result
         \/ job.kind = "upload" /\ SourceStep(Answer.handle, 0)
  BY DEF Opened
<1>2. Received /\ Answer.type = "HANDLE"
  BY <1>1 DEF Got
<1>3. Disk /\ Tables /\ Client1 /\ Says(Answer)
  BY <1>2, ReplyHere
<1>4. PICK h : h = Answer.handle
  OBVIOUS
<1>5. /\ job.kind \in Jobs /\ got = <<>> /\ offset = 0 /\ result = "err" /\ Match(h)
      /\ job.kind = "list" => Ours[h].next = 0
      /\ job.kind = "upload" /\ ~dirty => nodes[target].data = <<>>
  BY <1>1, <1>2, <1>3, <1>4 DEF Says, SaysOpened
<1>6. Proceeds
  BY <1>1, <1>2, <1>3 DEF Proceeds, Owes, Client1
<1>7. PICK o \in Nat : o = 0
  OBVIOUS
<1>8. IsList(base) /\ (job.kind = "upload" => job.source \in Seq(Byte))
  BY <1>3 DEF Client1, AnyJob, Command, NoJob
<1>9. CASE job.kind = "upload" /\ SourceStep(h, o)
  <2>1. IsList(job.source) /\ Len(job.source) \in Nat
    BY <1>8, <1>9, SeqIsList, LenProperties
  <2>2. Begins(<<>>, job.source, 0)
    BY <2>1, EmptyBegins
  <2>3. o <= Len(job.source) /\ (~dirty => Begins(nodes[target].data, job.source, o)) /\ offset' = o
    BY <1>1, <1>5, <1>7, <1>9, <2>1, <2>2
  <2> QED  BY <1>1, <1>4, <1>5, <1>6, <1>9, <2>3, GoesWrite
<1>10. CASE job.kind # "upload" /\ Send(NextRead(h, o)) /\ awaits' = "read" /\ result' = result
  <2>1. job.kind \in {"list", "download"}
    BY <1>5, <1>10 DEF Jobs
  <2>2. Begins(<<>>, base, 0) /\ NamesOf(<<>>) = <<>>
    BY <1>8, EmptyBegins
  <2>3. /\ job.kind = "list" => Begins(NamesOf(got'), base, Ours[h].next)
        /\ job.kind = "download" /\ ~dirty => Begins(got', base, o)
    BY <1>1, <1>5, <1>7, <2>2
  <2>4. result' = "err" /\ offset' = o /\ handle' = h
    BY <1>1, <1>4, <1>5, <1>7, <1>10
  <2> QED  BY <1>5, <1>6, <1>10, <2>1, <2>3, <2>4, GoesRead
<1> QED  BY <1>1, <1>4, <1>7, <1>9, <1>10

\* What a reply to a read says.
LEMMA ReadSays ==
    ASSUME SftpInv, Received, awaits = "read", NEW h, h = handle, NEW r, r = Answer
    PROVE  /\ SaysRead(r) /\ Match(h) /\ Owes /\ job.kind \in Jobs
           /\ Disk /\ Tables /\ Client1 /\ Shows
<1>1. Disk /\ Tables /\ Client1 /\ Shows /\ Says(Answer)
  BY ReplyHere
<1>2. SaysRead(r)
  BY <1>1 DEF Says
<1> QED  BY <1>1, <1>2 DEF SaysRead, Owes, Jobs

LEMMA ReadMoreKept ==
    ASSUME SftpInv, ReadMore PROVE SftpInv'
<1>1. PICK r : r = Answer
  OBVIOUS
<1>2. PICK x : x = IF r.type = "NAME" THEN r.entries ELSE r.data
  OBVIOUS
<1>3. /\ UNCHANGED world /\ UNCHANGED watched /\ leaked' = leaked /\ todo' = todo /\ job' = job
      /\ awaits = "read" /\ awaits' = awaits /\ handle' = handle /\ result' = result
      /\ got' = got \o x /\ offset' = offset + Len(x) /\ Send(NextRead(handle, offset + Len(x)))
      /\ Received /\ r.type \in {"NAME", "DATA"}
  BY <1>1, <1>2 DEF ReadMore, Got
<1>4. PICK h : h = handle
  OBVIOUS
<1>5. SaysRead(r) /\ Match(h) /\ Owes /\ Client1
  BY <1>1, <1>3, <1>4, ReadSays
<1>6. IsList(x) /\ IsList(got) /\ offset \in Nat
  BY <1>2, <1>3, <1>5 DEF SaysRead, Client1
<1>7. PICK o \in Nat : o = offset + Len(x)
  BY <1>6 DEF IsList
<1>8. PICK y : y = Join(got, x)
  OBVIOUS
<1>9. got' = y /\ IsList(y)
  BY <1>3, <1>6, <1>8, Joined DEF Join
<1>10. Proceeds
  BY <1>3, <1>5, <1>7, <1>9 DEF Proceeds
<1>11. /\ result = "err" /\ job.kind \in {"list", "download"}
       /\ job.kind = "list" => Begins(NamesOf(got'), base, Ours[h].next)
       /\ job.kind = "download" /\ ~dirty => Begins(got', base, o)
  BY <1>2, <1>3, <1>4, <1>5, <1>7 DEF SaysRead
<1>12. Send(NextRead(h, o)) /\ handle' = h /\ offset' = o /\ awaits' = "read" /\ result' = "err"
  BY <1>3, <1>4, <1>7, <1>11
<1> QED  BY <1>5, <1>10, <1>11, <1>12, GoesRead

LEMMA SinkFailsKept ==
    ASSUME SftpInv, SinkFails PROVE SftpInv'
<1>1. PICK r : r = Answer
  OBVIOUS
<1>2. /\ UNCHANGED world /\ UNCHANGED watched /\ leaked' = leaked /\ todo' = todo /\ job' = job
      /\ awaits = "read" /\ handle' = handle /\ offset' = offset /\ SendClose(handle, "err")
      /\ Received /\ r.type = "DATA"
  BY <1>1 DEF SinkFails, Got
<1>3. PICK k \in 0..(Len(r.data) - 1) : got' = got \o SubSeq(r.data, 1, k)
  BY <1>1 DEF SinkFails
<1>4. PICK h : h = handle
  OBVIOUS
<1>5. SaysRead(r) /\ Match(h) /\ Owes /\ Client1 /\ Disk /\ Tables /\ job.kind \in Jobs
  BY <1>1, <1>2, <1>4, ReadSays
<1>6. /\ IsList(r.data) /\ IsList(got) /\ IsList(base) /\ offset \in Nat /\ job.kind = "download"
      /\ ~dirty => Begins(got \o r.data, base, offset + Len(r.data))
  BY <1>2, <1>5 DEF SaysRead, Client1
<1> DEFINE d == r.data  z == 0  u == 1
<1>7. PICK p : p = Stretch(d, u, k)
  OBVIOUS
<1>8. Len(d) \in Nat /\ k \in Nat /\ k <= Len(d)
  BY <1>3, <1>6 DEF IsList
<1>9. Cuts(p, d, z, k)
  <2>1. z \in Nat /\ z <= k /\ u = z + 1 /\ k = k - z /\ IsList(d)
    BY <1>6, <1>8
  <2> HIDE DEF d, z, u
  <2> QED  BY <1>7, <1>8, <2>1, Cutting
<1>10. IsList(p) /\ Len(p) = k /\ \A i \in 1..k : p[i] = d[i]
  BY <1>9 DEF Cuts
<1>11. PICK x : x = Join(got, p)
  OBVIOUS
<1>12. PICK y : y = Join(got, d)
  OBVIOUS
<1> HIDE DEF d
<1>13. /\ IsList(x) /\ Len(x) = Len(got) + k
       /\ \A i \in 1..Len(got) : x[i] = got[i]
       /\ \A i \in 1..k : x[Len(got) + i] = p[i]
  <2>0. IsList(p) /\ IsList(got)
    BY <1>6, <1>10
  <2>1. /\ IsList(x) /\ Len(x) = Len(got) + Len(p)
        /\ \A i \in 1..Len(got) : x[i] = got[i]
        /\ \A i \in 1..Len(p) : x[Len(got) + i] = p[i]
    BY <1>11, <2>0, Joined
  <2> QED  BY <1>10, <2>1
<1>14. /\ IsList(y) /\ Len(y) = Len(got) + Len(d)
       /\ \A i \in 1..Len(got) : y[i] = got[i]
       /\ \A i \in 1..Len(d) : y[Len(got) + i] = d[i]
  <2>1. IsList(d)
    BY <1>6 DEF d
  <2> QED  BY <1>6, <1>12, <2>1, Joined
<1>15. got' = x
  BY <1>3, <1>7, <1>11 DEF Join, Stretch, d
<1>16. PICK n \in Nat : n = Len(got) + k
  BY <1>6, <1>8 DEF IsList
<1>17. Begins(x, y, n)
  <2>1. n <= Len(y) /\ Len(x) = n
    BY <1>6, <1>8, <1>13, <1>14, <1>16 DEF IsList
  <2>2. ASSUME NEW i \in 1..n PROVE x[i] = y[i]
    <3>1. CASE i <= Len(got)
      BY <1>6, <1>13, <1>14, <3>1 DEF IsList
    <3>2. CASE ~(i <= Len(got))
      <4>1. PICK j \in 1..k : i = Len(got) + j
        <5>1. i - Len(got) \in 1..k /\ i = Len(got) + (i - Len(got))
          BY <1>6, <1>8, <1>16, <3>2 DEF IsList
        <5> QED  BY <5>1
      <4>2. x[i] = p[j] /\ p[j] = d[j] /\ j \in 1..Len(d)
        BY <1>8, <1>10, <1>13, <4>1
      <4> QED  BY <1>14, <4>1, <4>2
    <3> QED  BY <3>1, <3>2
  <2> QED  BY <2>1, <2>2 DEF Begins
<1>18. ~dirty => IsPrefix(x, base)
  <2> SUFFICES ASSUME ~dirty PROVE IsPrefix(x, base)
    OBVIOUS
  <2>1. PICK m : m = offset + Len(d)
    OBVIOUS
  <2>2. Begins(y, base, m)
    BY <1>6, <1>12, <2>1 DEF Join, d
  <2>3. Begins(x, base, n)
    BY <1>6, <1>13, <1>14, <1>17, <2>2, ShorterBegins
  <2> QED  BY <1>6, <1>13, <2>3, PrefixOf
<1>19. Proceeds
  BY <1>2, <1>5, <1>6, <1>13, <1>15 DEF Proceeds
<1>20. Shows'
  <2>1. base' = base /\ dirty' = dirty /\ result' = "err"
    BY <1>2 DEF watched, SendClose
  <2> QED  BY <1>2, <1>6, <1>15, <1>18, <2>1 DEF Shows
<1>21. SendClose(h, "err") /\ handle' = h
  BY <1>2, <1>4
<1> QED  BY <1>5, <1>19, <1>20, <1>21, GoesClose

LEMMA ReadEndsKept ==
    ASSUME SftpInv, ReadEnds PROVE SftpInv'
<1>1. PICK r : r = Answer
  OBVIOUS
<1>2. PICK c : c = IF r.code = "EOF" THEN "ok" ELSE "err"
  OBVIOUS
<1>3. /\ UNCHANGED world /\ UNCHANGED watched /\ leaked' = leaked /\ todo' = todo /\ job' = job
      /\ awaits = "read" /\ handle' = handle /\ offset' = offset /\ got' = got
      /\ SendClose(handle, c) /\ Received /\ r.type = "STATUS"
  BY <1>1, <1>2 DEF ReadEnds, Got
<1>4. PICK h : h = handle
  OBVIOUS
<1>5. /\ SaysRead(r) /\ Match(h) /\ Owes /\ Client1 /\ Disk /\ Tables /\ Shows /\ job.kind \in Jobs
  BY <1>1, <1>3, <1>4, ReadSays
<1>6. Proceeds
  BY <1>3, <1>5 DEF Proceeds, Client1
<1>7. nodes' = nodes
  BY <1>3, <1>5, SameWorld
<1>8. result' = c
  BY <1>3 DEF SendClose
<1>9. Shows'
  <2>1. CASE c = "err"
    BY <1>3, <1>5, <1>7, <1>8, <2>1, ReturnShows
  <2>2. CASE c # "err"
    <3>1. /\ job.kind \in {"list", "download"}
          /\ job.kind = "list" => NamesOf(got) = base
          /\ job.kind = "download" /\ ~dirty => got = base
      BY <1>2, <1>3, <1>5, <2>2 DEF SaysRead
    <3>2. base' = base /\ dirty' = dirty
      BY <1>3 DEF watched
    <3>3. /\ job.kind = "list" => NamesOf(got)' = base'
      BY <1>3, <3>1, <3>2 DEF NamesOf
    <3>4. /\ job.kind = "list" => IsPrefix(NamesOf(got)', base')
          /\ job.kind = "download" /\ ~dirty => IsPrefix(got, base)
      <4>1. job.kind = "list" => IsPrefix(NamesOf(got), base)
        BY <1>5 DEF Shows
      <4> QED  BY <1>3, <1>5, <3>2, <4>1 DEF Shows, NamesOf
    <3> QED  BY <1>3, <3>1, <3>2, <3>3, <3>4 DEF Shows
  <2> QED  BY <2>1, <2>2
<1>10. SendClose(h, c) /\ handle' = h
  BY <1>3, <1>4
<1> QED  BY <1>5, <1>6, <1>9, <1>10, GoesClose

LEMMA WriteAnsweredKept ==
    ASSUME SftpInv, WriteAnswered PROVE SftpInv'
<1>1. PICK r : r = Answer
  OBVIOUS
<1>2. /\ UNCHANGED world /\ UNCHANGED watched /\ leaked' = leaked /\ todo' = todo /\ job' = job
      /\ awaits = "write" /\ handle' = handle /\ got' = got /\ Received /\ r.type = "STATUS"
      /\ \/ r.code = "OK" /\ offset' = offset + sent /\ SourceStep(handle, offset + sent)
         \/ r.code # "OK" /\ SendClose(handle, "err") /\ offset' = offset
  BY <1>1 DEF WriteAnswered, Got
<1>3. PICK h : h = handle
  OBVIOUS
<1>4. Disk /\ Tables /\ Client1 /\ Shows /\ Says(Answer)
  BY <1>2, ReplyHere
<1>5. SaysWritten(r)
  BY <1>1, <1>2, <1>4 DEF Says
<1>6. /\ job.kind = "upload" /\ Match(h) /\ result = "err" /\ sent \in Nat \ {0}
      /\ offset + sent <= Len(job.source)
      /\ r.code = "OK" /\ ~dirty => Begins(nodes[target].data, job.source, offset + sent)
  BY <1>3, <1>5 DEF SaysWritten
<1>7. PICK o \in Nat : o = offset + sent
  BY <1>4, <1>6 DEF Client1
<1>8. Proceeds
  BY <1>2, <1>4, <1>6, <1>7 DEF Proceeds, Owes, Client1
<1>9. CASE r.code = "OK" /\ offset' = o /\ SourceStep(h, o)
  <2>1. /\ o <= Len(job.source) /\ handle' = h
        /\ ~dirty => Begins(nodes[target].data, job.source, o)
    BY <1>2, <1>3, <1>6, <1>7, <1>9
  <2> QED  BY <1>2, <1>6, <1>8, <1>9, <2>1, GoesWrite
<1>10. CASE SendClose(h, "err")
  <2>1. nodes' = nodes
    BY <1>2, <1>4, SameWorld
  <2>2. result' = "err"
    BY <1>10 DEF SendClose
  <2>3. Shows'
    BY <1>2, <1>4, <2>1, <2>2, ReturnShows
  <2>4. job.kind \in Jobs /\ handle' = h
    BY <1>2, <1>3, <1>6 DEF Jobs
  <2> QED  BY <1>6, <1>8, <1>10, <2>3, <2>4, GoesClose
<1> QED  BY <1>2, <1>3, <1>7, <1>9, <1>10

\* The connection is lost, or left.
LEMMA LostKept ==
    ASSUME SftpInv, Lost PROVE SftpInv'
<1>1. Disk /\ Tables /\ Wires /\ Client1 /\ OursInv
  BY DEF SftpInv
<1>2. /\ UNCHANGED world /\ UNCHANGED watched /\ req' = req /\ rep' = rep /\ leaked' = leaked
      /\ todo' = todo /\ job' = job /\ handle' = handle /\ offset' = offset /\ sent' = sent
      /\ got' = got /\ awaits' = "gone" /\ link["ours"] = "cut"
      /\ result' = IF awaits = "idle" THEN result ELSE "err"
  BY DEF Lost
<1>3. /\ Disk' /\ Tables' /\ nodes' = nodes /\ Ours' = Ours /\ held' = held /\ link' = link
      /\ phase' = phase /\ menu' = menu /\ left' = left /\ faults' = faults
  BY <1>1, <1>2, SameWorld
<1>4. Wires'
  BY <1>1, <1>2, <1>3 DEF Wires, Wire, Asked
<1>5. target' = target /\ base' = base /\ dirty' = dirty
  BY <1>2 DEF watched
<1>6. Client1'
  BY <1>1, <1>2, <1>3, <1>5 DEF Client1, IsList
<1>7. Shows'
  BY <1>1, <1>2, <1>3, ReturnShows DEF OursInv
<1>8. Pending'
  <2> SUFFICES ASSUME req["ours"] # <<>> PROVE Asks(Asked("ours"))'
    BY <1>2 DEF Pending
  <2>1. PICK q : q = Asked("ours")
    OBVIOUS
  <2>2. Asked("ours")' = q /\ Asks(q)
    BY <1>1, <1>2, <2>1 DEF OursInv, Pending, Asked
  <2>3. \A h : Match(h) => Match(h)'
    BY <1>2, <1>3, SameMatch
  <2>4. result = "err" => result' = "err"
    BY <1>2
  <2>5. AsksInit(q) => AsksInit(q)'
    BY <1>2, <1>3 DEF AsksInit
  <2>6. AsksOpen(q) => AsksOpen(q)'
    BY <1>2, <1>5, <2>4 DEF AsksOpen, Fresh, Opening
  <2>7. AsksReaddir(q) => AsksReaddir(q)'
    BY <1>2, <1>3, <1>5, <2>3, <2>4 DEF AsksReaddir, NamesOf
  <2>8. AsksRead(q) => AsksRead(q)'
    BY <1>2, <1>5, <2>3, <2>4 DEF AsksRead
  <2>9. AsksWrite(q) => AsksWrite(q)'
    BY <1>2, <1>3, <1>5, <2>3, <2>4 DEF AsksWrite
  <2>10. AsksClose(q) => AsksClose(q)'
    BY <1>2, <2>3 DEF AsksClose
  <2>11. AsksOne(q) => AsksOne(q)'
    BY <1>2, <2>4 DEF AsksOne
  <2>12. Asks(q)'
    BY <2>2, <2>5, <2>6, <2>7, <2>8, <2>9, <2>10, <2>11 DEF Asks
  <2> QED  BY <2>2, <2>12
<1>9. OursInv'
  BY <1>1, <1>2, <1>3, <1>7, <1>8, CutKeeps
<1> QED  BY <1>3, <1>4, <1>6, <1>9 DEF SftpInv

LEMMA QuitKept ==
    ASSUME SftpInv, Quit PROVE SftpInv'
<1>1. /\ Disk /\ Tables /\ Wires /\ Client1 /\ OursInv /\ link = [f \in Session |-> link[f]]
  BY DEF SftpInv, Wires
<1>2. /\ UNCHANGED <<names, nodes, handles, held, next_handle>>
      /\ UNCHANGED <<phase, menu, left, faults>> /\ req' = req /\ rep' = rep
      /\ leaked' = leaked /\ target' = target /\ base' = base /\ dirty' = dirty
      /\ todo' = todo /\ job' = job /\ handle' = handle /\ offset' = offset
      /\ got' = got /\ result' = result /\ awaits = "idle" /\ awaits' = "gone"
      /\ link' = [link EXCEPT !["ours"] = "cut"]
  BY DEF Quit, fs, server, limits, history
<1>3. link'["ours"] = "cut" /\ link' = [f \in Session |-> link'[f]]
  BY <1>1, <1>2 DEF Session
<1>4. Disk' /\ Tables'
  BY <1>1, <1>2, SameTables
<1>5. Wires'
  BY <1>1, <1>2, <1>3 DEF Wires, Wire, Asked
<1>6. Client1'
  BY <1>1, <1>2, <1>3 DEF Client1, IsList
<1>7. Shows'
  BY <1>1, <1>2, SameShows DEF OursInv
<1>8. Pending'
  <2>1. ~Asks(Asked("ours"))
    BY <1>2 DEF Asks, AsksInit, AsksOpen, AsksReaddir, AsksRead, AsksWrite, AsksClose, AsksOne
  <2> QED  BY <1>1, <1>2, <2>1 DEF OursInv, Pending
<1>9. OursInv'
  BY <1>1, <1>3, <1>7, <1>8, CutKeeps
<1> QED  BY <1>4, <1>5, <1>6, <1>9 DEF SftpInv

-----------------------------------------------------------------------------
(* The theorems.                                                           *)

\* The invariant holds at first.
LEMMA FirstDisk == ASSUME SftpInit PROVE Disk
<1>1. PICK sc \in Scenarios :
        LET there == SetToSeq(DOMAIN sc.files) IN
        /\ names = [n \in Names |-> IF Contains(there, n)
                                      THEN CHOOSE i \in DOMAIN there : there[i] = n
                                      ELSE 0]
        /\ nodes = [i \in DOMAIN there |-> [kind |-> "file", data |-> sc.files[there[i]]]]
  BY DEF SftpInit
<1> DEFINE S == DOMAIN sc.files  t == SetToSeq(S)  n == Len(t)
<1>2. S \in SUBSET Names /\ \A m \in S : sc.files[m] \in Seq(Byte)
  BY SftpAssumption
<1>3. t \in Seq(S)
  <2> HIDE DEF S
  <2> QED  BY <1>2, Listing
<1>4. /\ names = [m \in Names |-> IF Contains(t, m) THEN CHOOSE i \in DOMAIN t : t[i] = m ELSE 0]
      /\ nodes = [i \in DOMAIN t |-> [kind |-> "file", data |-> sc.files[t[i]]]]
  BY <1>1
<1> HIDE DEF S, t
<1>5. n \in Nat /\ DOMAIN t = 1..n /\ \A i \in 1..n : t[i] \in S
  BY <1>3, LenProperties, ElementOfSeq
<1> HIDE DEF n
<1>6. nodes \in [1..n -> Node]
  <2>1. \A i \in 1..n : [kind |-> "file", data |-> sc.files[t[i]]] \in Node
    BY <1>2, <1>5 DEF Node, S
  <2> QED  BY <1>4, <1>5, <2>1
<1>7. nodes \in Seq(Node) /\ Len(nodes) = n
  BY <1>5, <1>6, SeqDef, LenProperties
<1>8. names \in [Names -> 0..n]
  <2>1. ASSUME NEW m \in Names
        PROVE  (IF Contains(t, m) THEN CHOOSE i \in DOMAIN t : t[i] = m ELSE 0) \in 0..n
    <3>1. CASE Contains(t, m)
      <4>1. \E i \in DOMAIN t : t[i] = m
        BY <1>5, <3>1 DEF Contains, n
      <4>2. (CHOOSE i \in DOMAIN t : t[i] = m) \in DOMAIN t
        BY <4>1
      <4> QED  BY <1>5, <3>1, <4>2
    <3>2. CASE ~Contains(t, m)
      BY <1>5, <3>2
    <3> QED  BY <3>1, <3>2
  <2> QED  BY <1>4, <2>1
<1> QED  BY <1>7, <1>8 DEF Disk

LEMMA FirstSftp == ASSUME SftpInit PROVE SftpInv
<1>1. Disk
  BY FirstDisk
<1>2. PICK sc \in Scenarios :
        /\ phase = [s \in Session |-> "init"]
        /\ handles = [s \in Session |-> <<>>]
        /\ next_handle = [s \in Session |-> 0]
        /\ link = [s \in Session |-> "up"]
        /\ req = [s \in Session |-> IF s = "ours" THEN <<INIT>> ELSE <<>>]
        /\ rep = [s \in Session |-> <<>>]
        /\ todo = sc.jobs /\ job = NoJob /\ awaits = "version"
        /\ handle = 0 /\ offset = 0 /\ sent = 0 /\ got = <<>> /\ result = "ok"
        /\ menu = sc.menu /\ left = sc.requests /\ faults = sc.faults
        /\ held = [s \in Session |-> {}]
        /\ leaked = 0 /\ target = 0 /\ base = <<>> /\ dirty = FALSE
  BY DEF SftpInit
<1>3. /\ sc.jobs \in Seq(Command) /\ sc.menu \subseteq Request
      /\ sc.requests \in Nat /\ sc.faults \in Nat
  BY SftpAssumption
<1>4. Tables
  <2>1. ASSUME NEW s \in Session PROVE Table(s)
    <3> DEFINE e == handles[s]
    <3>1. e = <<>> /\ held[s] = {}
      BY <1>2
    <3>2. DOMAIN e = {} /\ e = [h \in DOMAIN e |-> e[h]]
      BY <3>1
    <3>3. IsFiniteSet({}) /\ Cardinality({}) = 0 /\ 0 <= MaxHandles
      BY FS_EmptySet, SftpAssumption
    <3>4. {<<h, Object(e[h])>> : h \in DOMAIN e} = {}
      BY <3>2
    <3> QED  BY <3>1, <3>2, <3>3, <3>4 DEF Table
  <2> QED  BY <1>2, <2>1 DEF Tables
<1>5. /\ req["ours"] = <<INIT>> /\ req["other"] = <<>> /\ Asked("ours") = INIT
      /\ \A s \in Session : rep[s] = <<>>
  <2>1. Head(<<INIT>>) = INIT
    OBVIOUS
  <2> QED  BY <1>2, <2>1 DEF Session, Asked
<1>6. INIT \in Request
  BY DEF INIT, Request
<1>7. Wires
  <2>1. ASSUME NEW s \in Session PROVE Wire(s)
    <3>1. CASE s = "ours"
      BY <1>5, <1>6, <3>1 DEF Wire
    <3>2. CASE s = "other"
      BY <1>5, <3>2 DEF Wire
    <3> QED  BY <3>1, <3>2 DEF Session
  <2> QED  BY <1>2, <1>3, <2>1 DEF Wires
<1>8. Client1
  <2>1. IsList(<<>>)
    BY DEF IsList
  <2>2. target \in 0..Len(nodes)
    BY <1>1, <1>2, NodeFacts
  <2> QED  BY <1>2, <1>3, <2>1, <2>2 DEF Client1, AnyJob
<1>9. Pending
  <2>1. AsksInit(INIT)
    BY <1>2 DEF AsksInit, Session
  <2> QED  BY <1>5, <2>1 DEF Pending, Asks
<1>10. Replied /\ Shows
  BY <1>2, <1>5 DEF Replied, Received, Shows, NoJob, Session
<1>11. Counted
  <2>1. ~Owes /\ held["ours"] = {} /\ leaked = 0
    BY <1>2 DEF Owes, Session
  <2> QED  BY <2>1, FS_EmptySet DEF Counted
<1> QED  BY <1>1, <1>4, <1>7, <1>8, <1>9, <1>10, <1>11 DEF SftpInv, OursInv

\* Every step keeps it.
LEMMA SftpStep == ASSUME SftpInv, [SftpNext]_sftpVars PROVE SftpInv'
<1>1. ASSUME NEW s \in Session, ServeRequest(s) \/ Fail(s) PROVE SftpInv'
  <2>1. Serves(s)
    BY <1>1, ServesAll DEF SftpInv
  <2> QED  BY <2>1, OursKept, OtherServed DEF Session
<1>2. ASSUME NEW s \in Session, ServerEnds(s) \/ Cut(s) PROVE SftpInv'
  BY <1>2, EndKept, CutKept
<1>3. CASE OtherSends
  BY <1>3, OtherSendsKept
<1>4. CASE Client
  BY <1>4, ConnectedKept, BeginKept, OpenedKept, NotOpenedKept, ReadMoreKept, SinkFailsKept,
     ReadEndsKept, FlushFailsKept, WriteAnsweredKept, CloseAnsweredKept, AnsweredKept, LostKept,
     QuitKept DEF Client
<1>5. CASE UNCHANGED sftpVars
  <2>1. /\ Disk /\ Tables /\ Wires /\ Client1 /\ OursInv
    BY DEF SftpInv
  <2>2. /\ UNCHANGED <<names, nodes, handles, held, next_handle>>
        /\ UNCHANGED <<phase, link, req, rep, menu, left, faults>>
        /\ todo' = todo /\ job' = job /\ awaits' = awaits /\ handle' = handle /\ offset' = offset
        /\ sent' = sent /\ got' = got /\ result' = result
        /\ leaked' = leaked /\ target' = target /\ base' = base /\ dirty' = dirty
    BY <1>5 DEF sftpVars, fs, server, client, limits, history
  <2>3. Disk' /\ Tables'
    BY <2>1, <2>2, SameTables
  <2>4. Wires'
    BY <2>1, <2>2 DEF Wires, Wire, Asked
  <2>5. Client1'
    BY <2>1, <2>2 DEF Client1, IsList
  <2>6. Untouched
    BY <2>2 DEF Untouched, Steady, Ours
  <2>7. OursInv'
    BY <2>1, <2>6, UntouchedKeeps
  <2> QED  BY <2>3, <2>4, <2>5, <2>7 DEF SftpInv
<1> QED  BY <1>1, <1>2, <1>3, <1>4, <1>5 DEF SftpNext

\* The invariant says it all.
LEMMA SftpFaithful == ASSUME SftpInv PROVE Faithful
<1>1. Tables /\ Client1 /\ OursInv
  BY DEF SftpInv
<1>2. Listed = NamesOf(got)
  <2>1. DOMAIN got = 1..Len(got)
    BY <1>1 DEF Client1, IsList
  <2> QED  BY <2>1 DEF Listed, NamesOf
<1>3. Shows
  BY <1>1 DEF OursInv
<1>4. Intact
  BY <1>2, <1>3 DEF Intact, Shows
<1>5. HandlesKept
  <2>1. ASSUME NEW s \in Session
        PROVE  /\ Cardinality(DOMAIN handles[s]) <= MaxHandles
               /\ held[s] = {<<h, Object(handles[s][h])>> : h \in DOMAIN handles[s]}
    BY <1>1 DEF Tables, Table
  <2>2. awaits = "idle" /\ link["ours"] = "up" => Cardinality(held["ours"]) = leaked
    BY <1>1 DEF OursInv, Counted, Owes, Client1
  <2> QED  BY <2>1, <2>2 DEF HandlesKept
<1> QED  BY <1>4, <1>5 DEF Faithful

\* Transfers are faithful: however the requests of two sessions on the same
\* files interleave, whatever fails and whenever a connection breaks, what
\* upload, download and list have done and returned is as they promise.
THEOREM TransfersFaithful == SftpSpec => []Faithful
<1>1. SftpInit => SftpInv
  BY FirstSftp
<1>2. SftpInv /\ [SftpNext]_sftpVars => SftpInv'
  BY SftpStep
<1>3. SftpInv => Faithful
  BY SftpFaithful
<1> QED  BY <1>1, <1>2, <1>3, PTL DEF SftpSpec

\* A refusal by a handler comes alone.
LEMMA CleanHandler ==
    ASSUME Wires, NEW s \in Session, Handle(s), NEW r, r = Head(rep'[s]),
           r.type = "STATUS", r.code # "OK"
    PROVE  UNCHANGED <<fs, handles, next_handle>>
<1> DEFINE Same == UNCHANGED <<fs, handles, next_handle>>
<1>1. ASSUME NEW x, Reply(s, x) PROVE r = x
  BY <1>1, ReplySent
<1>2. ASSUME NEW code, Refuse(s, code) PROVE Same
  BY <1>2 DEF Refuse, server
<1>3. ~Reply(s, Status("OK"))
  <2> SUFFICES ASSUME Reply(s, Status("OK")) PROVE FALSE
    OBVIOUS
  <2>1. r = Status("OK")
    BY <1>1
  <2> QED  BY <2>1 DEF Status
<1>4. ASSUME NEW x, Reply(s, x) PROVE x.type = "STATUS"
  BY <1>1, <1>4
<1>5. CASE Handshake(s)
  <2>1. PICK x : x = [type |-> "VERSION"] /\ Reply(s, x)
    BY <1>5 DEF Handshake
  <2> QED  BY <1>4, <2>1
<1>6. CASE OverCap(s) \/ Query(s)
  BY <1>6 DEF OverCap, Query, server
<1>7. ASSUME NEW o, Insert(s, o), MayOpen(s) PROVE FALSE
  <2>1. PICK x : x = [type |-> "HANDLE", handle |-> HandleId(s)] /\ Reply(s, x)
    BY <1>7 DEF Insert, MayOpen
  <2>2. x.type = "HANDLE"
    BY <2>1
  <2> QED  BY <1>4, <2>1, <2>2
<1>8. CASE Open(s)
  <2>1. (\E o : Insert(s, o) /\ MayOpen(s)) \/ \E code : Refuse(s, code)
    BY <1>8 DEF Open
  <2> QED  BY <1>2, <1>7, <2>1
<1>9. CASE Opendir(s)
  <2>1. (\E o : Insert(s, o) /\ MayOpen(s)) \/ \E code : Refuse(s, code)
    BY <1>9 DEF Opendir
  <2> QED  BY <1>2, <1>7, <2>1
<1>10. CASE Close(s)
  <2>1. Refuse(s, "FAILURE")
    BY <1>3, <1>10 DEF Close
  <2> QED  BY <1>2, <2>1
<1>11. CASE Read(s)
  <2>1. (\E code : Refuse(s, code)) \/ UNCHANGED <<fs, server>>
    BY <1>11 DEF Read
  <2> QED  BY <1>2, <2>1 DEF server
<1>12. CASE Write(s)
  <2>1. Refuse(s, "FAILURE")
    BY <1>3, <1>12 DEF Write
  <2> QED  BY <1>2, <2>1
<1>13. CASE Readdir(s)
  <2>1. (\E code : Refuse(s, code)) \/ \E e : Reply(s, [type |-> "NAME", entries |-> e])
    BY <1>13 DEF Readdir
  <2>2. ASSUME NEW e, Reply(s, [type |-> "NAME", entries |-> e]) PROVE FALSE
    <3>1. PICK x : x = [type |-> "NAME", entries |-> e]
      OBVIOUS
    <3>2. Reply(s, x) /\ x.type = "NAME"
      BY <2>2, <3>1
    <3> QED  BY <1>4, <3>2
  <2> QED  BY <1>2, <2>1, <2>2
<1>14. CASE RemoveFile(s) \/ Mkdir(s) \/ Rmdir(s) \/ Rename(s) \/ Setstat(s) \/ Fsetstat(s)
  <2>1. \E code : Refuse(s, code)
    BY <1>3, <1>14 DEF RemoveFile, Mkdir, Rmdir, Rename, Setstat, Fsetstat, Does
  <2> QED  BY <1>2, <2>1
<1>15. CASE NotServed(s)
  <2>1. \E code : Refuse(s, code)
    BY <1>15 DEF NotServed
  <2> QED  BY <1>2, <2>1
<1> QED  BY <1>5, <1>6, <1>8, <1>9, <1>10, <1>11, <1>12, <1>13, <1>14, <1>15 DEF Handle

\* Our client takes its replies, and makes none.
LEMMA ClientTakes ==
    ASSUME Client PROVE rep' = rep \/ rep' = [rep EXCEPT !["ours"] = <<>>]
<1>1. CASE Connected \/ NotOpened \/ CloseAnswered \/ Answered \/ FlushFails
  BY <1>1 DEF Connected, NotOpened, CloseAnswered, Answered, FlushFails, Return
<1>2. CASE Begin \/ ReadMore
  BY <1>2 DEF Begin, ReadMore, Send
<1>3. CASE Opened \/ WriteAnswered
  BY <1>3 DEF Opened, WriteAnswered, SourceStep, SendClose, Send
<1>4. CASE SinkFails \/ ReadEnds
  BY <1>4 DEF SinkFails, ReadEnds, SendClose, Send
<1>5. CASE Lost \/ Quit
  BY <1>5 DEF Lost, Quit
<1> QED  BY <1>1, <1>2, <1>3, <1>4, <1>5 DEF Client

\* What counts as a refusal: a request answered with a status that is not OK,
\* and not because a system call failed.
Refuses(s) ==
    /\ req[s] # <<>> /\ req'[s] = <<>>
    /\ rep'[s] # <<>> /\ rep'[s] # rep[s]
    /\ Head(rep'[s]).type = "STATUS" /\ Head(rep'[s]).code # "OK"
    /\ faults' = faults
LEMMA CleanStep ==
    ASSUME SftpInv, SftpNext, NEW s \in Session, Refuses(s)
    PROVE  UNCHANGED <<fs, handles, next_handle>>
<1>1. Wires /\ rep = [f \in Session |-> rep[f]]
  BY DEF SftpInv, Wires
<1>2. rep'[s] # <<>> /\ rep'[s] # rep[s] /\ faults' = faults
  BY DEF Refuses
<1>3. ASSUME NEW f \in Session, ServeRequest(f) PROVE UNCHANGED <<fs, handles, next_handle>>
  <2>1. Serves(f)
    BY <1>1, <1>3, ServesAll
  <2>2. f = s
    BY <1>1, <1>2, <2>1, WiresKept
  <2>3. PICK r : r = Head(rep'[s])
    OBVIOUS
  <2>4. Handle(s) /\ r.type = "STATUS" /\ r.code # "OK"
    BY <1>3, <2>2, <2>3 DEF ServeRequest, Refuses
  <2> QED  BY <1>1, <2>3, <2>4, CleanHandler
<1>4. ASSUME NEW f \in Session, Fail(f) PROVE FALSE
  <2>1. faults' = faults - 1 /\ faults \in Nat
    BY <1>1, <1>4 DEF Fail, Wires
  <2> QED  BY <1>2, <2>1
<1>5. ASSUME NEW f \in Session, ServerEnds(f) \/ Cut(f) PROVE FALSE
  <2>1. rep' = rep \/ rep' = [rep EXCEPT ![f] = <<>>]
    BY <1>5 DEF ServerEnds, Cut
  <2> QED  BY <1>1, <1>2, <2>1
<1>6. ~OtherSends
  <2> SUFFICES ASSUME OtherSends PROVE FALSE
    OBVIOUS
  <2>1. rep' = [rep EXCEPT !["other"] = <<>>]
    BY DEF OtherSends
  <2> QED  BY <1>1, <1>2, <2>1
<1>7. ~Client
  <2> SUFFICES ASSUME Client PROVE FALSE
    OBVIOUS
  <2>1. rep' = rep \/ rep' = [rep EXCEPT !["ours"] = <<>>]
    BY ClientTakes
  <2> QED  BY <1>1, <1>2, <2>1
<1> QED  BY <1>3, <1>4, <1>5, <1>6, <1>7 DEF SftpNext

\* A request that is refused has done nothing: no handler changes a file or
\* its table of handles and then answers with an error, unless a system call
\* failed after the first of several.
THEOREM RefusalsClean == SftpSpec => CleanRefusal
<1>1. SftpInit => SftpInv
  BY FirstSftp
<1>2. SftpInv /\ [SftpNext]_sftpVars => SftpInv'
  BY SftpStep
<1>3. SftpInv /\ [SftpNext]_sftpVars =>
        [\A s \in Session :
           /\ req[s] # <<>> /\ req'[s] = <<>>
           /\ rep'[s] # <<>> /\ rep'[s] # rep[s]
           /\ Head(rep'[s]).type = "STATUS" /\ Head(rep'[s]).code # "OK"
           /\ faults' = faults
           => UNCHANGED <<fs, handles, next_handle>>]_sftpVars
  BY CleanStep DEF Refuses
<1> QED  BY <1>1, <1>2, <1>3, PTL DEF SftpSpec, CleanRefusal
=============================================================================
