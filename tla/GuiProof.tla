----------------------------- MODULE GuiProof -------------------------------
(***************************************************************************)
(* Module Gui, whose client programs are those of ClientSetup, for every   *)
(* value of the constants.                                                 *)
(*                                                                         *)
(* First what the user's known_hosts file guarantees when any number of    *)
(* tabs and command-line clients meet any number of hosts at the same      *)
(* time, each looking and appending without a lock (IInv).  Then the path  *)
(* of a session's output from its pipe to the terminal of its tab          *)
(* (WindowInv).                                                            *)
(***************************************************************************)
EXTENDS Gui, SequenceTheorems, TLAPS

-----------------------------------------------------------------------------
(* The inductive invariant, part by part.                                  *)

Lines == [mark : {"key", "ca", "junk", "joined"}, label : Labels, key : Keys]
Early == {"idle", "start", "passphrase", "certificate", "dial", "hello", "ask", "record"}
Late == {"proof", "auth", "connected", "failed"}
CertKeys == {cert.key : cert \in HostCerts}
Trusts == [how : {"not", "cert", "pin", "first"}, key : Keys \cup CertKeys \cup {None}]

TypeOK ==
    /\ setup \in Setups
    /\ pc \in [Clients -> Early \cup Late]
    /\ target \in [Clients -> Targets \cup {None}]
    /\ offered \in [Clients -> Keys \cup {None}]
    /\ recorded \in [Clients -> SUBSET Keys]
    /\ trusted \in [Clients -> Trusts]
    /\ known \in Seq(Lines)
    /\ ended \in BOOLEAN /\ legible \in BOOLEAN
    /\ ~ended => known # <<>>
    /\ hosts \subseteq Targets

\* Where a tab's host comes from: the list of the GUI is filtered when it is
\* read and checked when it is changed.
TargetInv ==
    /\ \A h \in hosts : validate_host(h)
    /\ \A c \in Clients : pc[c] # "idle" =>
         target[c] \in Targets /\ (c \in Tabs => validate_host(target[c]))

\* A client that still asks found nothing; nobody trusts before having looked.
AskInv ==
    \A c \in Clients :
        /\ pc[c] \in {"ask", "record"} => recorded[c] = {} /\ offered[c] \in Keys
        /\ trusted[c].how # "not" => pc[c] \in Late

\* What TrustKept says of one client.
Kept(c) ==
    trusted[c].how \in {"pin", "first"} /\ ~Spoiled =>
        /\ ~Odd(Label(c)) /\ (c \in Tabs \/ ~Label(c).spaced) =>
              \E i \in DOMAIN known :
                  LineFor(known[i], Label(c)) /\ known[i].key = trusted[c].key
        /\ recorded[c] # {} => known_hosts_lookup(known, Label(c)) = {trusted[c].key}
KeptInv == \A c \in Clients : Kept(c)

IInv == TypeOK /\ TargetInv /\ AskInv /\ KeptInv

-----------------------------------------------------------------------------
(* The file.                                                               *)

\* A change that leaves the first line for a label where it is, and puts none
\* in front of it, leaves the lookup as it was.
LEMMA FirstDecides ==
    ASSUME NEW f \in Seq(Lines), NEW g \in Seq(Lines), NEW l, NEW m \in 1..Len(f),
           m <= Len(g), \A i \in 1..m : g[i] = f[i],
           LineFor(f[m], l), \A i \in 1..(m - 1) : ~LineFor(f[i], l)
    PROVE  known_hosts_lookup(g, l) = known_hosts_lookup(f, l)
<1> DEFINE First(q, i) ==
        LineFor(q[i], l) /\ \A j \in DOMAIN q : LineFor(q[j], l) => i <= j
<1>1. DOMAIN f = 1..Len(f) /\ DOMAIN g = 1..Len(g) /\ Len(f) \in Nat /\ Len(g) \in Nat
  OBVIOUS
<1>2. ASSUME NEW q \in Seq(Lines), m <= Len(q), \A i \in 1..m : q[i] = f[i]
      PROVE  known_hosts_lookup(q, l) = {f[m].key}
  <2>1. DOMAIN q = 1..Len(q) /\ Len(q) \in Nat /\ m \in DOMAIN q
    BY <1>1, <1>2
  <2>2. \A j \in 1..(m - 1) : ~LineFor(q[j], l)
    BY <1>1, <1>2
  <2>3. First(q, m)
    BY <1>1, <1>2, <2>1, <2>2
  <2>4. \A i \in DOMAIN q : First(q, i) => i = m
    BY <2>1, <2>3
  <2>5. known_hosts_lookup(q, l) = {q[m].key}
    BY <2>1, <2>3, <2>4 DEF known_hosts_lookup
  <2> QED  BY <1>2, <2>5
<1>3. known_hosts_lookup(f, l) = {f[m].key}
  BY <1>1, <1>2
<1>4. known_hosts_lookup(g, l) = {f[m].key}
  BY <1>1, <1>2
<1> QED  BY <1>3, <1>4

\* What a lookup finds is the key of the first line for the label.
LEMMA FoundFirst ==
    ASSUME NEW f \in Seq(Lines), NEW l, NEW k \in known_hosts_lookup(f, l)
    PROVE  \E m \in 1..Len(f) : /\ LineFor(f[m], l) /\ f[m].key = k /\ k \in Keys
                                /\ \A i \in 1..(m - 1) : ~LineFor(f[i], l)
<1>1. PICK m \in DOMAIN f : /\ LineFor(f[m], l) /\ f[m].key = k
                            /\ \A j \in DOMAIN f : LineFor(f[j], l) => m <= j
  BY DEF known_hosts_lookup
<1>2. DOMAIN f = 1..Len(f) /\ Len(f) \in Nat /\ f[m] \in Lines
  OBVIOUS
<1>3. k \in Keys
  BY <1>1, <1>2 DEF Lines
<1>4. \A i \in 1..(m - 1) : ~LineFor(f[i], l)
  BY <1>1, <1>2
<1> QED  BY <1>1, <1>2, <1>3, <1>4

\* Nothing is found in a file that cannot be read.
LEMMA FoundMeansLegible ==
    ASSUME NEW l, known_hosts_lookup(Text, l) # {}
    PROVE  legible /\ Text = known
<1>1. known_hosts_lookup(<<>>, l) = {}
  BY DEF known_hosts_lookup
<1> QED  BY <1>1 DEF Text

\* The line a program writes carries a key that a lookup finds, under every
\* label but those with a comma, a mark in front or whitespace.
LEMMA LineCarries ==
    ASSUME NEW l, NEW k, ~Odd(l), ~l.spaced
    PROVE  LineFor(known_hosts_line(l, k), l)
BY DEF LineFor, known_hosts_line, Odd

\* The ways a step may change the file: a line is added, or the unfinished last
\* line becomes one that shows the damage.
Added == \E line \in Lines : known' = Append(known, line)
Overwrote ==
    /\ ~ended
    /\ \E y \in Lines : y.mark \in {"junk", "joined"} /\ known' = [known EXCEPT ![Len(known)] = y]
FileStep ==
    /\ known' = known \/ Added \/ Overwrote
    /\ legible' \in BOOLEAN /\ (legible' => legible)
    /\ ended' \in BOOLEAN /\ (~ended' => known' # <<>>)

\* Writing a line is one of them.
LEMMA BehindIs ==
    ASSUME TypeOK, NEW line \in Lines, known' \in Behind(line)
    PROVE  /\ IF ended THEN known' = Append(known, line) ELSE Overwrote
           /\ known' # <<>>
<1>1. CASE ended
  <2>1. known' = Append(known, line)
    BY <1>1 DEF Behind
  <2> QED  BY <1>1, <2>1 DEF TypeOK
<1>2. CASE ~ended
  <2>1. PICK y \in Together(known[Len(known)], line) : known' = [known EXCEPT ![Len(known)] = y]
    BY <1>2 DEF Behind
  <2>2. y \in Lines /\ y.mark \in {"junk", "joined"}
    <3>1. [line EXCEPT !.mark = "junk"] \in Lines /\ [line EXCEPT !.mark = "junk"].mark = "junk"
      BY DEF Lines
    <3>2. ASSUME NEW l \in Labels
          PROVE  /\ [line EXCEPT !.mark = "joined", !.label = l] \in Lines
                 /\ [line EXCEPT !.mark = "joined", !.label = l].mark = "joined"
      BY DEF Lines
    <3>3. y = [line EXCEPT !.mark = "junk"]
          \/ \E l \in Labels : y = [line EXCEPT !.mark = "joined", !.label = l]
      BY DEF Together
    <3>4. CASE y = [line EXCEPT !.mark = "junk"]
      BY <3>1, <3>4
    <3>5. ASSUME NEW l \in Labels, y = [line EXCEPT !.mark = "joined", !.label = l]
          PROVE  y \in Lines /\ y.mark \in {"junk", "joined"}
      BY <3>2, <3>5
    <3> QED  BY <3>3, <3>4, <3>5
  <2>3. known # <<>> /\ Len(known) \in Nat /\ Len(known) > 0 /\ Len(known') = Len(known)
    BY <1>2, <2>1, <2>2 DEF TypeOK
  <2>4. Overwrote
    BY <1>2, <2>1, <2>2 DEF Overwrote
  <2>5. known' # <<>>
    BY <2>3, <2>1
  <2> HIDE DEF Overwrote
  <2> QED  BY <1>2, <2>4, <2>5
<1> QED  BY <1>1, <1>2

\* Whatever a client does to the file is one of them.
LEMMA FileChanges ==
    ASSUME IInv, NEW c \in Clients, Connecting(c)
    PROVE  FileStep
<1>0. TypeOK
  BY DEF IInv
<1>1. ASSUME At(c, "record")
      PROVE  /\ known_hosts_line(Label(c), offered[c]) \in Lines
             /\ [known_hosts_line(Label(c), offered[c]) EXCEPT !.mark = "junk"] \in Lines
  <2>1. Label(c) \in Labels /\ offered[c] \in Keys
    BY <1>1 DEF IInv, TargetInv, AskInv, At, Label, Labels
  <2> QED  BY <2>1 DEF known_hosts_line, Lines
<1>2. CASE Record(c)
  <2>1. known' = Append(known, known_hosts_line(Label(c), offered[c])) \/ Overwrote
    BY <1>0, <1>1, <1>2, BehindIs DEF Record
  <2>2. known' # <<>>
    BY <1>0, <1>1, <1>2, BehindIs DEF Record
  <2>3. legible' = legible /\ ended' = TRUE
    BY <1>2 DEF Record
  <2> QED  BY <1>0, <1>1, <1>2, <2>1, <2>2, <2>3 DEF FileStep, Added, TypeOK, Record
<1>3. CASE RecordFails(c)
  <2> DEFINE line == known_hosts_line(Label(c), offered[c])
             junk == [line EXCEPT !.mark = "junk"]
  <2>1. line \in Lines /\ junk \in Lines
    BY <1>1, <1>3 DEF RecordFails
  <2>2. \/ UNCHANGED fileVars
        \/ /\ known' \in Behind(line) \/ known' \in Behind(junk)
           /\ ended' = FALSE /\ legible' \in {legible, FALSE}
    BY <1>3 DEF RecordFails
  <2> HIDE DEF line, junk
  <2>3. CASE UNCHANGED fileVars
    BY <1>0, <2>3 DEF fileVars, FileStep, TypeOK
  <2>4. CASE ~UNCHANGED fileVars
    <3>1. known' # <<>> /\ (Added \/ Overwrote)
      BY <1>0, <2>1, <2>2, <2>4, BehindIs DEF Added
    <3>2. ended' \in BOOLEAN /\ legible' \in BOOLEAN /\ (legible' => legible)
      <4>1. legible \in BOOLEAN
        BY <1>0 DEF TypeOK
      <4>2. ended' = FALSE /\ (legible' = legible \/ legible' = FALSE)
        BY <2>2, <2>4, Zenon
      <4>3. CASE legible' = legible
        BY <4>1, <4>2, <4>3
      <4>4. CASE legible' = FALSE
        BY <4>2, <4>4
      <4> QED  BY <4>2, <4>3, <4>4
    <3> QED  BY <3>1, <3>2 DEF FileStep
  <2> QED  BY <2>3, <2>4
<1>4. CASE ~Record(c) /\ ~RecordFails(c)
  <2>1. UNCHANGED fileVars
    BY <1>4 DEF Connecting, UseAgent, LoadIdentity, Passphrase, LoadCertificate, Dial,
                OnHostCert, OnHostKey, Ask, Prove, Authenticate, credVars, fileVars
  <2> QED  BY <1>0, <2>1 DEF fileVars, FileStep, TypeOK
<1> QED  BY <1>2, <1>3, <1>4

\* The file stays a list of lines.
LEMMA LinesStay ==
    ASSUME TypeOK, FileStep
    PROVE  known' \in Seq(Lines)
<1>0. known \in Seq(Lines) /\ (~ended => known # <<>>)
  BY DEF TypeOK
<1>1. CASE known' = known
  BY <1>0, <1>1
<1>2. ASSUME NEW line \in Lines, known' = Append(known, line)
      PROVE  known' \in Seq(Lines)
  BY <1>0, <1>2
<1>3. ASSUME ~ended, NEW y \in Lines, known' = [known EXCEPT ![Len(known)] = y]
      PROVE  known' \in Seq(Lines)
  <2>1. Len(known) \in 1..Len(known)
    BY <1>0, <1>3
  <2> QED  BY <1>0, <1>3, <2>1, ExceptSeq
<1> QED  BY <1>1, <1>2, <1>3 DEF FileStep, Added, Overwrote

\* What is not spoiled afterwards was not spoiled before, and has at most
\* grown by a line.
LEMMA DamageStays ==
    ASSUME TypeOK, FileStep, ~Spoiled'
    PROVE  ~Spoiled /\ (known' = known \/ Added)
<1>1. known \in Seq(Lines) /\ DOMAIN known = 1..Len(known) /\ Len(known) \in Nat
  BY DEF TypeOK
<1>2. ~Overwrote
  <2> SUFFICES ASSUME Overwrote PROVE FALSE
    OBVIOUS
  <2>1. PICK y \in Lines : y.mark \in {"junk", "joined"} /\ known' = [known EXCEPT ![Len(known)] = y]
    BY DEF Overwrote
  <2>2. Len(known) \in DOMAIN known
    BY <1>1 DEF Overwrote, TypeOK
  <2>3. Len(known) \in DOMAIN known' /\ known'[Len(known)] = y
    BY <1>1, <2>1, <2>2
  <2> QED  BY <2>1, <2>3 DEF Spoiled
<1>3. known' = known \/ Added
  BY <1>2 DEF FileStep
<1>4. \A i \in DOMAIN known : i \in DOMAIN known' /\ known'[i] = known[i]
  BY <1>1, <1>3 DEF Added
<1>5. legible
  BY DEF FileStep, Spoiled
<1> QED  BY <1>3, <1>4, <1>5 DEF Spoiled

\* A lookup that found something finds the same, unless it found the last,
\* unfinished line.
LEMMA LookupKept ==
    ASSUME TypeOK, FileStep, NEW l, known_hosts_lookup(known, l) # {},
           Overwrote => ~Unfinished(l)
    PROVE  known_hosts_lookup(known', l) = known_hosts_lookup(known, l)
<1>1. known \in Seq(Lines) /\ DOMAIN known = 1..Len(known) /\ Len(known) \in Nat
      /\ known' \in Seq(Lines)
  BY LinesStay DEF TypeOK
<1>2. PICK m \in 1..Len(known) :
        LineFor(known[m], l) /\ \A i \in 1..(m - 1) : ~LineFor(known[i], l)
  BY <1>1, FoundFirst
<1>3. CASE known' = known
  BY <1>3
<1>4. CASE Added
  <2>1. m <= Len(known') /\ \A i \in 1..m : known'[i] = known[i]
    BY <1>1, <1>4 DEF Added
  <2> QED  BY <1>1, <1>2, <2>1, FirstDecides
<1>5. CASE Overwrote
  <2>1. m # Len(known)
    BY <1>2, <1>5 DEF Overwrote, Unfinished
  <2>2. m <= Len(known') /\ \A i \in 1..m : known'[i] = known[i]
    <3>1. PICK y \in Lines : known' = [known EXCEPT ![Len(known)] = y]
      BY <1>5 DEF Overwrote
    <3>0. PICK n \in Nat : n = Len(known)
      BY <1>1
    <3>2. Len(known') = Len(known) /\ \A i \in 1..(Len(known) - 1) : known'[i] = known[i]
      <4>1. DOMAIN known' = 1..Len(known)
        BY <1>1, <3>1
      <4>2. Len(known') = Len(known)
        BY <1>1, <4>1
      <4>3. ASSUME NEW i \in 1..(Len(known) - 1) PROVE known'[i] = known[i]
        <5>1. i \in DOMAIN known /\ i # Len(known)
          <6>1. i \in 1..(n - 1)
            BY <3>0
          <6>2. i \in 1..n /\ i # n
            BY <3>0, <6>1
          <6> QED  BY <1>1, <3>0, <6>2
        <5> QED  BY <3>1, <5>1, Zenon
      <4> QED  BY <4>2, <4>3
    <3>3. m \in Nat /\ m <= Len(known) - 1
      <4>1. m \in 1..n /\ m # n
        BY <1>2, <2>1, <3>0
      <4>2. m \in Nat /\ m <= n - 1
        BY <3>0, <4>1
      <4> QED  BY <3>0, <4>2
    <3> QED  BY <1>1, <3>2, <3>3
  <2> QED  BY <1>1, <1>2, <2>2, FirstDecides
<1> QED  BY <1>3, <1>4, <1>5 DEF FileStep

-----------------------------------------------------------------------------
(* The steps.                                                              *)

\* A sequence over a set is one over any larger set.
LEMMA SeqWidens ==
    ASSUME NEW S, NEW T, S \subseteq T, NEW q \in Seq(S)
    PROVE  q \in Seq(T)
<1>1. Len(q) \in Nat /\ q \in [1..Len(q) -> S]
  BY LenProperties
<1>2. q \in [1..Len(q) -> T]
  BY <1>1
<1> QED  BY <1>1, <1>2

\* The invariant holds before any client is started.
LEMMA InitOK == Init => IInv
<1> SUFFICES ASSUME Init PROVE IInv
  OBVIOUS
<1> USE SetupAssumption DEF Init, SetupInit
<1>1. Untrusted \in Trusts
  BY DEF Untrusted, Trusts
<1>2. PICK f \in Files : known = f.lines /\ ended = f.ended /\ legible = f.legible
  OBVIOUS
<1>3. known \in Seq(Lines) /\ ended \in BOOLEAN /\ legible \in BOOLEAN
      /\ (~ended => known # <<>>)
  <2>1. /\ f.lines \in Seq([mark : {"key", "ca"}, label : Labels, key : Keys])
        /\ f.ended \in BOOLEAN /\ f.legible \in BOOLEAN /\ (~f.ended => f.lines # <<>>)
    BY DEF SetupAssumption
  <2>2. [mark : {"key", "ca"}, label : Labels, key : Keys] \subseteq Lines
    BY DEF Lines
  <2>3. f.lines \in Seq(Lines)
    BY <2>1, <2>2, SeqWidens
  <2> QED  BY <1>2, <2>1, <2>3
<1>4. hosts \subseteq Targets /\ \A h \in hosts : validate_host(h)
  BY GuiAssumption DEF drop_invalid_hosts, GuiAssumption
<1>5. TypeOK
  BY <1>1, <1>3, <1>4 DEF TypeOK, Early
<1>6. TargetInv /\ AskInv /\ KeptInv
  BY <1>4 DEF TargetInv, AskInv, KeptInv, Kept, Untrusted
<1> QED  BY <1>5, <1>6 DEF IInv

\* A client that trusts already: what TrustKept says of it outlives every step
\* that leaves its own decision alone.
LEMMA TrustOutlives ==
    ASSUME IInv, NEW d \in Clients, FileStep,
           trusted'[d] = trusted[d], target'[d] = target[d], recorded'[d] = recorded[d]
    PROVE  Kept(d)'
<1> SUFFICES ASSUME trusted[d].how \in {"pin", "first"}, ~Spoiled'
             PROVE  /\ ~Odd(Label(d)) /\ (d \in Tabs \/ ~Label(d).spaced) =>
                          \E i \in DOMAIN known' :
                              LineFor(known'[i], Label(d)) /\ known'[i].key = trusted[d].key
                    /\ recorded[d] # {} =>
                          known_hosts_lookup(known', Label(d)) = {trusted[d].key}
  BY DEF Kept, Label
<1>0. TypeOK /\ Kept(d)
  BY DEF IInv, KeptInv
<1>1. ~Spoiled /\ (known' = known \/ Added)
  BY <1>0, DamageStays
<1>2. \A i \in DOMAIN known : i \in DOMAIN known' /\ known'[i] = known[i]
  BY <1>0, <1>1 DEF Added, TypeOK
<1>3. /\ ~Odd(Label(d)) /\ (d \in Tabs \/ ~Label(d).spaced) =>
            \E i \in DOMAIN known :
                LineFor(known[i], Label(d)) /\ known[i].key = trusted[d].key
      /\ recorded[d] # {} => known_hosts_lookup(known, Label(d)) = {trusted[d].key}
  BY <1>0, <1>1 DEF Kept
<1>4. recorded[d] # {} => known_hosts_lookup(known', Label(d)) = {trusted[d].key}
  <2>1. CASE known' = known
    BY <1>3, <2>1
  <2>2. CASE Added
    <3>1. ~Overwrote
      <4>1. ASSUME Overwrote PROVE Len(known') = Len(known)
        BY <1>0, <4>1 DEF Overwrote, TypeOK
      <4>2. Len(known') = Len(known) + 1 /\ Len(known) \in Nat
        BY <1>0, <2>2 DEF Added, TypeOK
      <4> QED  BY <4>1, <4>2
    <3> QED  BY <1>0, <1>3, <3>1, LookupKept
  <2> QED  BY <1>1, <2>1, <2>2
<1> QED  BY <1>2, <1>3, <1>4

\* The steps of connect.
LEMMA ConnectingOK ==
    ASSUME IInv, NEW c \in Clients, Connecting(c), UNCHANGED hosts
    PROVE  IInv'
<1> USE DEF IInv
<1>0. FileStep
  BY FileChanges
<1>k. /\ known' \in Seq(Lines) /\ ended' \in BOOLEAN /\ legible' \in BOOLEAN
      /\ (~ended' => known' # <<>>)
  BY <1>0, LinesStay DEF FileStep
\* The others.
<1>o. ASSUME NEW d \in Clients, trusted'[d] = trusted[d], target'[d] = target[d],
             recorded'[d] = recorded[d]
      PROVE  Kept(d)'
  BY <1>0, <1>o, TrustOutlives
\* The steps that neither look nor trust.
<1>1. ASSUME UNCHANGED <<setup, target, recorded, trusted>>,
             offered' = offered \/ offered' = [offered EXCEPT ![c] = None],
             NEW p \in (Early \cup Late) \ {"idle", "ask", "record"},
             pc' = [pc EXCEPT ![c] = p], pc[c] # "idle",
             pc[c] \in Late => p \in Late
      PROVE  IInv'
  <2>1. TypeOK'
    BY <1>1, <1>k DEF TypeOK
  <2>2. TargetInv' /\ AskInv'
    BY <1>1 DEF TargetInv, AskInv, TypeOK
  <2>3. KeptInv'
    BY <1>1, <1>o DEF KeptInv
  <2> QED  BY <2>1, <2>2, <2>3
<1>2. CASE UseAgent(c) \/ LoadCertificate(c)
  BY <1>1, <1>2 DEF UseAgent, LoadCertificate, credVars, Goto, At, Early, Late
<1>3. CASE LoadIdentity(c)
  <2>1. setup[c].file \in {"missing", "bad", "locked", "plain"}
    BY SetupAssumption DEF SetupAssumption, TypeOK
  <2> QED  BY <1>1, <1>3, <2>1 DEF LoadIdentity, credVars, Goto, At, Early, Late
<1>4. CASE Passphrase(c)
  BY <1>1, <1>4 DEF Passphrase, credVars, Goto, At, Early, Late
<1>5. CASE Dial(c)
  BY <1>1, <1>5 DEF Dial, Goto, At, Early, Late
<1>6. CASE OnHostCert(c)
  <2>1. PICK cert \in HostCerts :
          IF verify_host_cert(c, cert)
            THEN /\ trusted' = [trusted EXCEPT ![c] = [how |-> "cert", key |-> cert.key]]
                 /\ Goto(c, "proof")
            ELSE Goto(c, "failed") /\ UNCHANGED trusted
    BY <1>6 DEF OnHostCert
  <2>2. CASE ~verify_host_cert(c, cert)
    BY <1>1, <1>6, <2>1, <2>2 DEF OnHostCert, Goto, At, Early, Late
  <2>3. CASE verify_host_cert(c, cert)
    <3>0. [how |-> "cert", key |-> cert.key] \in Trusts
      BY DEF Trusts, CertKeys
    <3>1. /\ trusted' = [trusted EXCEPT ![c] = [how |-> "cert", key |-> cert.key]]
          /\ pc' = [pc EXCEPT ![c] = "proof"] /\ pc[c] = "hello"
          /\ UNCHANGED <<setup, target, offered, recorded>>
      BY <1>6, <2>1, <2>3 DEF OnHostCert, Goto, At
    <3>2. TypeOK'
      BY <1>k, <3>0, <3>1 DEF TypeOK, Late
    <3>3. TargetInv' /\ AskInv'
      BY <3>1 DEF TargetInv, AskInv, TypeOK, Late
    <3>4. Kept(c)'
      BY <3>1 DEF Kept, TypeOK
    <3>5. KeptInv'
      BY <3>1, <3>4, <1>o DEF KeptInv, TypeOK
    <3> QED  BY <3>2, <3>3, <3>5
  <2> QED  BY <2>2, <2>3
<1>7. CASE OnHostKey(c)
  <2> DEFINE found == known_hosts_lookup(Text, Label(c))
  <2>1. PICK k \in Keys :
          /\ offered' = [offered EXCEPT ![c] = IF found = {} THEN k ELSE None]
          /\ recorded' = [recorded EXCEPT ![c] = found]
          /\ Goto(c, IF found = {} THEN "ask" ELSE IF found = {k} THEN "proof" ELSE "failed")
          /\ trusted' = IF found = {k}
                          THEN [trusted EXCEPT ![c] = [how |-> "pin", key |-> k]]
                          ELSE trusted
    BY <1>7 DEF OnHostKey
  <2>2. found \subseteq Keys
    <3> SUFFICES ASSUME NEW x \in found PROVE x \in Keys
      OBVIOUS
    <3>1. Text = known
      BY FoundMeansLegible
    <3> QED  BY <3>1, FoundFirst DEF TypeOK
  <2>3. [how |-> "pin", key |-> k] \in Trusts
    BY DEF Trusts
  <2>4. /\ pc[c] = "hello" /\ trusted[c].how = "not"
        /\ UNCHANGED <<setup, target, known, ended, legible>>
    BY <1>7 DEF OnHostKey, At, AskInv, Late, fileVars
  <2>5. TypeOK'
    BY <2>1, <2>2, <2>3, <2>4 DEF TypeOK, Goto, Early, Late
  <2>6. TargetInv' /\ AskInv'
    BY <2>1, <2>2, <2>4 DEF TargetInv, AskInv, TypeOK, Goto, Early, Late
  <2>7. Kept(c)'
    <3>1. CASE found = {k}
      <4>1. Text = known /\ known_hosts_lookup(known, Label(c)) = {k}
        BY <3>1, FoundMeansLegible
      <4>2. \E i \in DOMAIN known : LineFor(known[i], Label(c)) /\ known[i].key = k
        <5>1. known \in Seq(Lines) /\ known_hosts_lookup(known, Label(c)) # {}
          BY <4>1 DEF TypeOK
        <5>2. PICK i \in 1..Len(known) :
                LineFor(known[i], Label(c)) /\ known_hosts_lookup(known, Label(c)) = {known[i].key}
          BY <5>1, FoundFirst
        <5>3. known[i].key = k
          BY <4>1, <5>2
        <5> QED  BY <5>1, <5>2, <5>3
      <4>3. trusted'[c].key = k /\ Label(c)' = Label(c)
        BY <2>1, <2>4, <3>1 DEF TypeOK, Label
      <4> QED  BY <2>4, <4>1, <4>2, <4>3 DEF Kept
    <3>2. CASE found # {k}
      BY <2>1, <2>4, <3>2 DEF Kept
    <3> QED  BY <3>1, <3>2
  <2>8. KeptInv'
    BY <2>1, <2>4, <2>7, <1>o DEF KeptInv, TypeOK
  <2> QED  BY <2>5, <2>6, <2>8
<1>8. CASE Ask(c)
  <2>1. PICK accept \in BOOLEAN :
          /\ Goto(c, IF accept THEN "record" ELSE "failed")
          /\ offered' = [offered EXCEPT ![c] = IF accept THEN @ ELSE None]
    <3>1. PICK yes \in BOOLEAN :
            LET accept == IF setup[c].accept_new THEN TRUE ELSE setup[c].tty /\ yes
            IN  /\ Goto(c, IF accept THEN "record" ELSE "failed")
                /\ offered' = [offered EXCEPT ![c] = IF accept THEN @ ELSE None]
      BY <1>8 DEF Ask
    <3>2. CASE IF setup[c].accept_new THEN TRUE ELSE setup[c].tty /\ yes
      BY <3>1, <3>2
    <3>3. CASE ~(IF setup[c].accept_new THEN TRUE ELSE setup[c].tty /\ yes)
      BY <3>1, <3>3
    <3> QED  BY <3>2, <3>3
  <2>2. pc[c] = "ask" /\ UNCHANGED <<setup, target, recorded, trusted>>
    BY <1>8 DEF Ask, At
  <2>3. TypeOK'
    BY <1>k, <2>1, <2>2 DEF TypeOK, Goto, Early, Late
  <2>4. TargetInv' /\ AskInv'
    BY <2>1, <2>2 DEF TargetInv, AskInv, TypeOK, Goto, Early, Late
  <2>5. KeptInv'
    BY <2>2, <1>o DEF KeptInv
  <2> QED  BY <2>3, <2>4, <2>5
<1>9. CASE Record(c)
  <2>1. /\ pc[c] = "record" /\ UNCHANGED <<setup, target, recorded>>
        /\ recorded[c] = {} /\ offered[c] \in Keys /\ target[c] \in Targets
        /\ c \in Tabs => ~target[c].host.spaced
        /\ offered' = [offered EXCEPT ![c] = None]
        /\ trusted[c].how = "not"
        /\ trusted' = [trusted EXCEPT ![c] = [how |-> "first", key |-> offered[c]]]
        /\ pc' = [pc EXCEPT ![c] = "proof"]
    BY <1>9 DEF Record, At, Goto, AskInv, TargetInv, TypeOK, Late, validate_host
  <2>3. [how |-> "first", key |-> offered[c]] \in Trusts
    BY <2>1 DEF Trusts
  <2>4. TypeOK'
    BY <1>k, <2>1, <2>3 DEF TypeOK, Late
  <2>5. TargetInv' /\ AskInv'
    BY <2>1 DEF TargetInv, AskInv, TypeOK, Late
  <2>6. Kept(c)'
    <3> DEFINE line == known_hosts_line(Label(c), offered[c])
    <3> SUFFICES ASSUME ~Spoiled', ~Odd(Label(c)), c \in Tabs \/ ~Label(c).spaced
                 PROVE  \E i \in DOMAIN known' :
                            LineFor(known'[i], Label(c)) /\ known'[i].key = offered[c]
      BY <2>1 DEF Kept, Label, TypeOK
    <3>1. line \in Lines /\ line.key = offered[c]
      BY <2>1 DEF known_hosts_line, Lines, Label, Labels
    <3>2. IF ended THEN known' = Append(known, line) ELSE Overwrote
      BY <1>9, <3>1, BehindIs DEF Record
    <3>3. known' = Append(known, line)
      <4>1. known' = known \/ Added
        BY <1>0, DamageStays
      <4>2. CASE ended
        BY <3>2, <4>2
      <4>3. CASE Overwrote
        <5>1. PICK y \in Lines : /\ y.mark \in {"junk", "joined"}
                                 /\ known' = [known EXCEPT ![Len(known)] = y]
          BY <4>3 DEF Overwrote
        <5>2. Len(known) \in DOMAIN known' /\ known'[Len(known)] = y
          BY <4>3, <5>1 DEF Overwrote, TypeOK
        <5> QED  BY <5>1, <5>2 DEF Spoiled
      <4> QED  BY <3>2, <4>2, <4>3
    <3>4. ~Label(c).spaced
      BY <2>1 DEF Label, host_label
    <3>5. LineFor(line, Label(c))
      BY <3>4, LineCarries
    <3>6. Len(known) + 1 \in DOMAIN known' /\ known'[Len(known) + 1] = line
      BY <3>1, <3>3 DEF TypeOK
    <3> QED  BY <3>1, <3>5, <3>6
  <2>7. KeptInv'
    BY <2>1, <2>6, <1>o DEF KeptInv, TypeOK
  <2> QED  BY <2>4, <2>5, <2>7
<1>10. CASE RecordFails(c)
  BY <1>1, <1>10 DEF RecordFails, Goto, At, Early, Late
<1>11. CASE Prove(c) \/ Authenticate(c)
  BY <1>1, <1>11 DEF Prove, Authenticate, Goto, At, Early, Late
<1> QED
  BY <1>2, <1>3, <1>4, <1>5, <1>6, <1>7, <1>8, <1>9, <1>10, <1>11 DEF Connecting

\* A program starts with any host, a tab with one from the list.
LEMMA LaunchOK ==
    ASSUME IInv, NEW c \in Clients, NEW h \in Targets, c \in Tabs => validate_host(h),
           Launch(c, h), UNCHANGED hosts
    PROVE  IInv'
<1> USE DEF IInv
<1>1. /\ pc[c] = "idle" /\ pc' = [pc EXCEPT ![c] = "start"]
      /\ target' = [target EXCEPT ![c] = h]
      /\ UNCHANGED <<setup, offered, recorded, trusted, known, ended, legible>>
  BY DEF Launch, At, Goto, fileVars
<1>2. trusted[c].how = "not"
  BY <1>1 DEF AskInv, TypeOK, Trusts, Late
<1>3. TypeOK'
  BY <1>1 DEF TypeOK, Early
<1>4. TargetInv' /\ AskInv'
  BY <1>1, <1>2 DEF TargetInv, AskInv, TypeOK, Late
<1>5. FileStep
  BY <1>1 DEF FileStep, TypeOK
<1>6. ASSUME NEW d \in Clients PROVE Kept(d)'
  <2>1. CASE d = c
    BY <1>1, <1>2, <2>1 DEF Kept
  <2>2. CASE d # c
    <3>1. target'[d] = target[d]
      BY <1>1, <2>2 DEF TypeOK
    <3> QED  BY <1>1, <1>5, <3>1, TrustOutlives
  <2> QED  BY <2>1, <2>2
<1> QED  BY <1>3, <1>4, <1>6 DEF KeptInv

\* Every step of the GUI and its neighbours is a step of connect, a launch, a
\* change to the list of hosts, or none of these.
LEMMA StepKinds ==
    ASSUME IInv, [Next]_vars
    PROVE  \/ \E c \in Clients : Connecting(c) /\ UNCHANGED hosts
           \/ \E c \in Clients, h \in Targets :
                 (c \in Tabs => validate_host(h)) /\ Launch(c, h) /\ UNCHANGED hosts
           \/ /\ UNCHANGED setupVars
              /\ hosts' \subseteq Targets /\ \A h \in hosts' : validate_host(h)
<1> DEFINE Kinds ==
        \/ \E c \in Clients : Connecting(c) /\ UNCHANGED hosts
        \/ \E c \in Clients, h \in Targets :
              (c \in Tabs => validate_host(h)) /\ Launch(c, h) /\ UNCHANGED hosts
        \/ /\ UNCHANGED setupVars
           /\ hosts' \subseteq Targets /\ \A h \in hosts' : validate_host(h)
<1>h. hosts \subseteq Targets /\ \A h \in hosts : validate_host(h)
  BY DEF IInv, TargetInv, TypeOK
<1>q. UNCHANGED <<setupVars, storeVars>> => Kinds
  BY <1>h DEF storeVars
<1>1. ASSUME NEW t \in Tabs,
             Backend(t) \/ Window(t) \/ closeSession(t) \/ Produce(t) \/ SessionEnds(t)
             \/ ConnEnds(t)
      PROVE  UNCHANGED <<setupVars, storeVars>>
  BY <1>1 DEF Backend, Window, ConnectFailed, Spawn, Insert, ReaderTask, ReaderEnds,
              ExitEmits, ExitRemoves, disconnect_session, Resolve, Reject, closeSession,
              Produce, SessionEnds, ConnEnds
<1>2. ASSUME NEW t \in Tabs, NEW h \in Targets, Click(t, h)
      PROVE  Kinds
  <2>1. t \in Clients
    BY GuiAssumption DEF GuiAssumption
  <2>2. CASE h \in hosts
    BY <1>2, <1>h, <2>1, <2>2 DEF Click, storeVars
  <2>3. CASE h \notin hosts
    BY <1>2, <1>q, <2>3 DEF Click
  <2> QED  BY <2>2, <2>3
<1>3. ASSUME NEW h \in Targets, SaveHost(h) \/ DeleteHost(h)
      PROVE  Kinds
  BY <1>3, <1>h DEF SaveHost, DeleteHost
<1>4. ASSUME NEW c \in Clients, Client(c)
      PROVE  Kinds
  BY <1>4 DEF Client, guiVars, storeVars
<1>5. ASSUME NEW c \in Clients \ Tabs, NEW h \in Targets, Typed(c, h)
      PROVE  Kinds
  BY <1>5 DEF Typed, guiVars, storeVars
<1>6. CASE Deliver
  BY <1>6, <1>q DEF Deliver
<1>7. CASE UNCHANGED vars
  BY <1>7, <1>q DEF vars, guiVars
<1> QED  BY <1>q, <1>1, <1>2, <1>3, <1>4, <1>5, <1>6, <1>7 DEF Next

\* Every step of a client, a tab or the backend keeps the invariant.
LEMMA NextOK == IInv /\ [Next]_vars => IInv'
<1> SUFFICES ASSUME IInv, [Next]_vars PROVE IInv'
  OBVIOUS
<1>1. CASE \E c \in Clients : Connecting(c) /\ UNCHANGED hosts
  BY <1>1, ConnectingOK
<1>2. CASE \E c \in Clients, h \in Targets :
             (c \in Tabs => validate_host(h)) /\ Launch(c, h) /\ UNCHANGED hosts
  BY <1>2, LaunchOK
<1>3. CASE /\ UNCHANGED setupVars
           /\ hosts' \subseteq Targets /\ \A h \in hosts' : validate_host(h)
  <2>1. UNCHANGED <<setup, pc, target, offered, recorded, trusted, known, ended, legible>>
    BY <1>3 DEF setupVars, fileVars
  <2>2. TypeOK'
    BY <1>3, <2>1 DEF IInv, TypeOK
  <2>3. TargetInv' /\ AskInv'
    BY <1>3, <2>1 DEF IInv, TargetInv, AskInv
  <2>4. KeptInv'
    BY <2>1 DEF IInv, KeptInv, Kept, Spoiled, Label
  <2> QED  BY <2>2, <2>3, <2>4 DEF IInv
<1> QED  BY <1>1, <1>2, <1>3, StepKinds

\* The file changes in one of the ways above, whoever makes the step.
LEMMA EveryFileStep == IInv /\ [Next]_vars => TypeOK /\ FileStep
<1> SUFFICES ASSUME IInv, [Next]_vars PROVE TypeOK /\ FileStep
  OBVIOUS
<1>0. TypeOK
  BY DEF IInv
<1>1. CASE \E c \in Clients : Connecting(c)
  BY <1>0, <1>1, FileChanges
<1>2. CASE UNCHANGED fileVars
  BY <1>0, <1>2 DEF fileVars, FileStep, TypeOK
<1> QED  BY <1>1, <1>2, StepKinds DEF Launch, setupVars

-----------------------------------------------------------------------------
(* The theorems.                                                           *)

\* For any clients, hosts, keys and files, however writes fail: a key a client
\* came to trust by verify_host_key is in a line of known_hosts that a lookup
\* finds for its host, and is the one every lookup finds unless the client had
\* found none itself; as long as no line was cut off, and but for the labels
\* with a comma or a mark in front that validate_host lets through.
THEOREM TrustIsKept == Spec => []TrustKept
<1>1. Spec => []IInv
  BY InitOK, NextOK, PTL DEF Spec
<1>2. IInv => TrustKept
  BY DEF IInv, KeptInv, Kept, TrustKept
<1> QED  BY <1>1, <1>2, PTL

\* For any clients, hosts, keys and files, however writes fail: once
\* known_hosts_lookup has a key for a host in a finished line, no interleaving
\* of programs that append to the file changes it while it can be read.
THEOREM PinsStay == Spec => PinNeverMoves
<1> DEFINE Stays ==
        \A l \in Labels :
            known_hosts_lookup(Text, l) # {} /\ ~Unfinished(l) /\ legible' =>
                known_hosts_lookup(Text', l) = known_hosts_lookup(Text, l)
<1>1. Spec => []IInv
  BY InitOK, NextOK, PTL DEF Spec
<1>2. IInv /\ [Next]_vars => [Stays]_setupVars
  <2> SUFFICES ASSUME IInv, [Next]_vars, NEW l \in Labels,
                      known_hosts_lookup(Text, l) # {}, ~Unfinished(l), legible'
               PROVE  known_hosts_lookup(Text', l) = known_hosts_lookup(Text, l)
    OBVIOUS
  <2>1. TypeOK /\ FileStep
    BY EveryFileStep
  <2>2. Text = known /\ Text' = known'
    BY FoundMeansLegible DEF Text
  <2> QED  BY <2>1, <2>2, LookupKept
<1> QED  BY <1>1, <1>2, PTL DEF Spec, PinNeverMoves

-----------------------------------------------------------------------------
(* The output of a session, from the pipe to the terminal.                 *)

Events == [kind : {"trusted", "output", "exit"}, tab : Tabs, n : Nat]

\* What the window knows the session of, and what it does not (yet).
Known == {"open", "dead"}
Unknown == {"none", "connecting", "failed"}

WindowType ==
    /\ tab \in [Tabs -> Known \cup Unknown \cup {"closed"}]
    /\ produced \in [Tabs -> Nat]
    /\ pipe \in [Tabs -> Seq(Nat)]
    /\ events \in Seq(Events)
    /\ pendingOutput \in [Tabs -> Seq(Nat)]
    /\ term \in [Tabs -> Seq(Nat)]

\* The output of t: shown is what the window has handled, in the pipe pp is
\* what the reader has not emitted of made pieces.
Faithful(t, shown, q, pp, made) ==
    /\ \A i \in 1..Len(shown) : shown[i] = i
    /\ Len(shown) + Len(pp) <= made
    /\ Ordered(q, t, Len(shown), made - Len(pp))
    /\ \A i \in 1..Len(pp) : pp[i] = made - Len(pp) + i

\* One of terminal and buffer is empty: the terminal until the window knows the
\* session, the buffer from then on.
Shown(t) == IF tab[t] \in Known THEN term[t] ELSE pendingOutput[t]
Spare(t) == IF tab[t] \in Known THEN pendingOutput[t] ELSE term[t]

OutputInv ==
    \A t \in Tabs : tab[t] # "closed" =>
        /\ Spare(t) = <<>>
        /\ Faithful(t, Shown(t), events, pipe[t], produced[t])

WindowInv == WindowType /\ OutputInv

-----------------------------------------------------------------------------
(* The queue of events.                                                    *)

\* An event of another kind or tab leaves a tab's output in order.
LEMMA OtherEvent ==
    ASSUME NEW q \in Seq(Events), NEW e \in Events, NEW t, NEW a \in Nat, NEW b \in Nat,
           Ordered(q, t, a, b), ~(e.kind = "output" /\ e.tab = t)
    PROVE  Ordered(Append(q, e), t, a, b)
<1> DEFINE r == Append(q, e)
<1>1. Len(q) \in Nat /\ Len(r) = Len(q) + 1 /\ r[Len(q) + 1] = e
      /\ \A i \in 1..Len(q) : r[i] = q[i]
  OBVIOUS
<1> HIDE DEF r
<1>2. OutputOf(r, t) = OutputOf(q, t) /\ OutputOf(q, t) \subseteq 1..Len(q)
  BY <1>1 DEF OutputOf
<1>3. \A i \in OutputOf(q, t) : r[i] = q[i]
  BY <1>1, <1>2
<1>4. Ordered(r, t, a, b)
  BY <1>2, <1>3 DEF Ordered
<1> QED  BY <1>4 DEF r

\* The next piece of output, emitted after the last, leaves it in order.
LEMMA NextOutput ==
    ASSUME NEW q \in Seq(Events), NEW e \in Events, NEW t, NEW a \in Nat, NEW b \in Nat,
           Ordered(q, t, a, b), a <= b, e.kind = "output", e.tab = t, e.n = b + 1
    PROVE  Ordered(Append(q, e), t, a, b + 1)
<1> DEFINE r == Append(q, e)
           k == Len(q) + 1
<1>1. Len(q) \in Nat /\ Len(r) = Len(q) + 1 /\ r[k] = e
      /\ \A i \in 1..Len(q) : r[i] = q[i]
  OBVIOUS
<1> HIDE DEF r
<1>2. OutputOf(r, t) = OutputOf(q, t) \cup {k} /\ OutputOf(q, t) \subseteq 1..Len(q)
  BY <1>1 DEF OutputOf
<1>a. \A i \in 1..Len(q) : q[i] \in Events
  OBVIOUS
<1>b. \A i \in 1..Len(q) : q[i].n \in Nat
  BY <1>a DEF Events
<1>3. \A i \in OutputOf(q, t) : r[i] = q[i] /\ q[i].n \in Nat /\ i < k
  BY <1>1, <1>2, <1>b
<1>4. r[k].n = b + 1
  BY <1>1
<1> HIDE DEF k
<1>5. k \in Nat
  BY <1>1 DEF k
<1>6. \A i \in OutputOf(r, t) : a < r[i].n /\ r[i].n <= b + 1
  BY <1>2, <1>3, <1>4 DEF Ordered
<1>7. \A i, j \in OutputOf(r, t) : i < j => r[i].n < r[j].n
  <2> SUFFICES ASSUME NEW i \in OutputOf(r, t), NEW j \in OutputOf(r, t), i < j
               PROVE  r[i].n < r[j].n
    OBVIOUS
  <2>1. i \in OutputOf(q, t)
    <3>1. i \in Nat /\ j \in Nat /\ j <= k
      BY <1>1, <1>2, <1>3, <1>5
    <3> QED  BY <1>2, <1>5, <3>1
  <2>2. CASE j = k
    BY <1>3, <1>4, <2>1, <2>2 DEF Ordered
  <2>3. CASE j \in OutputOf(q, t)
    BY <1>3, <2>1, <2>3 DEF Ordered
  <2> QED  BY <1>2, <2>2, <2>3
<1>8. \A n \in (a + 1)..(b + 1) : \E i \in OutputOf(r, t) : r[i].n = n
  <2> SUFFICES ASSUME NEW n \in (a + 1)..(b + 1)
               PROVE  \E i \in OutputOf(r, t) : r[i].n = n
    OBVIOUS
  <2>1. CASE n = b + 1
    BY <1>2, <1>4, <2>1
  <2>2. CASE n \in (a + 1)..b
    BY <1>2, <1>3, <2>2 DEF Ordered
  <2> QED  BY <2>1, <2>2
<1> QED  BY <1>6, <1>7, <1>8 DEF Ordered, r

\* The window has handled an event that is not output of t.
LEMMA OtherHandled ==
    ASSUME NEW q \in Seq(Events), q # <<>>, NEW t, NEW a \in Nat, NEW b \in Nat,
           Ordered(q, t, a, b), ~(Head(q).kind = "output" /\ Head(q).tab = t)
    PROVE  Ordered(Tail(q), t, a, b)
<1> DEFINE r == Tail(q)
<1>1. Len(q) \in Nat /\ Len(q) > 0 /\ Len(r) = Len(q) - 1 /\ Head(q) = q[1]
      /\ \A i \in 1..Len(r) : r[i] = q[i + 1]
  OBVIOUS
<1> HIDE DEF r
<1>2. \A i \in OutputOf(r, t) : i \in Nat /\ i + 1 \in OutputOf(q, t) /\ r[i] = q[i + 1]
  BY <1>1 DEF OutputOf
<1>3. \A i \in OutputOf(q, t) : i \in Nat /\ i - 1 \in OutputOf(r, t) /\ r[i - 1] = q[i]
  <2> SUFFICES ASSUME NEW i \in OutputOf(q, t)
               PROVE  i \in Nat /\ i - 1 \in OutputOf(r, t) /\ r[i - 1] = q[i]
    OBVIOUS
  <2>1. i \in 1..Len(q) /\ i # 1
    BY <1>1 DEF OutputOf
  <2>2. i - 1 \in 1..Len(r) /\ i = (i - 1) + 1
    BY <1>1, <2>1
  <2>3. r[i - 1] = q[i]
    BY <1>1, <2>2
  <2> QED  BY <2>1, <2>2, <2>3 DEF OutputOf
<1>4. \A i \in OutputOf(r, t) : a < r[i].n /\ r[i].n <= b
  BY <1>2 DEF Ordered
<1>5. \A i, j \in OutputOf(r, t) : i < j => r[i].n < r[j].n
  <2> SUFFICES ASSUME NEW i \in OutputOf(r, t), NEW j \in OutputOf(r, t), i < j
               PROVE  r[i].n < r[j].n
    OBVIOUS
  <2>1. i + 1 \in OutputOf(q, t) /\ j + 1 \in OutputOf(q, t) /\ i + 1 < j + 1
    BY <1>2
  <2>2. q[i + 1].n < q[j + 1].n
    BY <2>1 DEF Ordered
  <2> QED  BY <1>2, <2>2
<1>6. \A n \in (a + 1)..b : \E i \in OutputOf(r, t) : r[i].n = n
  <2> SUFFICES ASSUME NEW n \in (a + 1)..b PROVE \E i \in OutputOf(r, t) : r[i].n = n
    OBVIOUS
  <2>1. PICK i \in OutputOf(q, t) : q[i].n = n
    BY DEF Ordered
  <2>2. i - 1 \in OutputOf(r, t) /\ r[i - 1].n = n
    BY <1>3, <2>1
  <2> QED  BY <2>2
<1> QED  BY <1>4, <1>5, <1>6 DEF Ordered, r

\* The output at the head of the queue is the next piece.
LEMMA OutputHandled ==
    ASSUME NEW q \in Seq(Events), q # <<>>, NEW t, NEW a \in Nat, NEW b \in Nat,
           Ordered(q, t, a, b), Head(q).kind = "output", Head(q).tab = t
    PROVE  Head(q).n = a + 1 /\ a + 1 <= b /\ Ordered(Tail(q), t, a + 1, b)
<1> DEFINE r == Tail(q)
<1>1. Len(q) \in Nat /\ Len(q) > 0 /\ Len(r) = Len(q) - 1 /\ Head(q) = q[1]
      /\ (\A i \in 1..Len(r) : r[i] = q[i + 1])
      /\ (\A i \in 1..Len(q) : q[i] \in Events)
  OBVIOUS
<1> HIDE DEF r
<1>2. 1 \in OutputOf(q, t) /\ \A i \in OutputOf(q, t) : i \in 1..Len(q) /\ q[i].n \in Nat
  BY <1>1 DEF OutputOf, Events
<1>3. a + 1 <= q[1].n /\ q[1].n <= b
  BY <1>2 DEF Ordered
<1>4. q[1].n = a + 1
  <2>1. a + 1 \in (a + 1)..b
    BY <1>2, <1>3
  <2>2. PICK i \in OutputOf(q, t) : q[i].n = a + 1
    BY <2>1 DEF Ordered
  <2>3. CASE i = 1
    BY <2>2, <2>3
  <2>4. CASE i # 1
    <3>1. 1 < i
      BY <1>2, <2>4
    <3>2. q[1].n < a + 1
      BY <1>2, <2>2, <3>1 DEF Ordered
    <3> QED  BY <1>2, <1>3, <3>2
  <2> QED  BY <2>3, <2>4
<1>5. \A i \in OutputOf(r, t) : i \in 1..Len(r) /\ i + 1 \in OutputOf(q, t) /\ r[i] = q[i + 1]
  BY <1>1 DEF OutputOf
<1>6. \A i \in OutputOf(q, t) : i # 1 => i - 1 \in OutputOf(r, t) /\ r[i - 1] = q[i]
  <2> SUFFICES ASSUME NEW i \in OutputOf(q, t), i # 1
               PROVE  i - 1 \in OutputOf(r, t) /\ r[i - 1] = q[i]
    OBVIOUS
  <2>2. i - 1 \in 1..Len(r) /\ i = (i - 1) + 1
    BY <1>1, <1>2
  <2>3. r[i - 1] = q[i]
    BY <1>1, <2>2
  <2> QED  BY <2>2, <2>3 DEF OutputOf
<1>7. \A i \in OutputOf(r, t) : a + 1 < r[i].n /\ r[i].n <= b
  <2> SUFFICES ASSUME NEW i \in OutputOf(r, t) PROVE a + 1 < r[i].n /\ r[i].n <= b
    OBVIOUS
  <2>1. i + 1 \in OutputOf(q, t) /\ 1 < i + 1 /\ r[i] = q[i + 1]
    BY <1>1, <1>5
  <2>2. q[1].n < q[i + 1].n /\ q[i + 1].n <= b
    BY <1>2, <2>1 DEF Ordered
  <2> QED  BY <1>4, <2>1, <2>2
<1>8. \A i, j \in OutputOf(r, t) : i < j => r[i].n < r[j].n
  <2> SUFFICES ASSUME NEW i \in OutputOf(r, t), NEW j \in OutputOf(r, t), i < j
               PROVE  r[i].n < r[j].n
    OBVIOUS
  <2>1. i + 1 \in OutputOf(q, t) /\ j + 1 \in OutputOf(q, t) /\ i + 1 < j + 1
    BY <1>1, <1>5
  <2>2. q[i + 1].n < q[j + 1].n
    BY <2>1 DEF Ordered
  <2> QED  BY <1>5, <2>2
<1>9. \A n \in ((a + 1) + 1)..b : \E i \in OutputOf(r, t) : r[i].n = n
  <2> SUFFICES ASSUME NEW n \in ((a + 1) + 1)..b PROVE \E i \in OutputOf(r, t) : r[i].n = n
    OBVIOUS
  <2>0. n \in (a + 1)..b /\ n # a + 1
    OBVIOUS
  <2>1. PICK i \in OutputOf(q, t) : q[i].n = n
    BY <2>0 DEF Ordered
  <2>2. i # 1
    BY <1>4, <2>0, <2>1
  <2>3. i - 1 \in OutputOf(r, t) /\ r[i - 1].n = n
    BY <1>6, <2>1, <2>2
  <2> QED  BY <2>3
<1> QED  BY <1>1, <1>3, <1>4, <1>7, <1>8, <1>9 DEF Ordered, r

-----------------------------------------------------------------------------
(* What the tasks and the window do to the output of a tab.                *)

\* The session produces a piece.
LEMMA WriteOK ==
    ASSUME NEW t, NEW shown \in Seq(Nat), NEW q \in Seq(Events), NEW pp \in Seq(Nat),
           NEW made \in Nat, Faithful(t, shown, q, pp, made)
    PROVE  Faithful(t, shown, q, Append(pp, made + 1), made + 1)
<1> DEFINE r == Append(pp, made + 1)
<1>1. Len(pp) \in Nat /\ Len(r) = Len(pp) + 1 /\ r[Len(pp) + 1] = made + 1
      /\ (\A i \in 1..Len(pp) : r[i] = pp[i]) /\ Len(shown) \in Nat
  OBVIOUS
<1> HIDE DEF r
<1>2. (made + 1) - Len(r) = made - Len(pp)
  BY <1>1
<1>3. Len(shown) + Len(r) <= made + 1
  BY <1>1 DEF Faithful
<1>4. \A i \in 1..Len(r) : r[i] = (made - Len(pp)) + i
  <2> SUFFICES ASSUME NEW i \in 1..Len(r) PROVE r[i] = (made - Len(pp)) + i
    OBVIOUS
  <2>1. CASE i = Len(pp) + 1
    BY <1>1, <2>1
  <2>2. CASE i \in 1..Len(pp)
    BY <1>1, <2>2 DEF Faithful
  <2> QED  BY <1>1, <2>1, <2>2
<1> QED  BY <1>2, <1>3, <1>4 DEF Faithful, r

\* The reader task turns a piece in the pipe into an event.
LEMMA ReadOK ==
    ASSUME NEW t \in Tabs, NEW shown \in Seq(Nat), NEW q \in Seq(Events), NEW pp \in Seq(Nat),
           NEW made \in Nat, Faithful(t, shown, q, pp, made), pp # <<>>
    PROVE  Faithful(t, shown, Append(q, [kind |-> "output", tab |-> t, n |-> Head(pp)]),
                    Tail(pp), made)
<1> DEFINE e == [kind |-> "output", tab |-> t, n |-> Head(pp)]
           a == Len(shown)
           b == made - Len(pp)
           r == Tail(pp)
<1>1. Len(pp) \in Nat /\ Len(pp) > 0 /\ Len(r) = Len(pp) - 1 /\ Head(pp) = pp[1]
      /\ (\A i \in 1..Len(r) : r[i] = pp[i + 1]) /\ a \in Nat /\ Head(pp) \in Nat
  OBVIOUS
<1>2. e \in Events /\ e.kind = "output" /\ e.tab = t /\ e.n = Head(pp)
  BY <1>1 DEF Events
<1> HIDE DEF r, e
<1>3. a + Len(pp) <= made /\ Ordered(q, t, a, b) /\ \A i \in 1..Len(pp) : pp[i] = b + i
  BY DEF Faithful
<1> HIDE DEF a
<1>4. b \in Nat /\ a <= b /\ Head(pp) = b + 1 /\ made - Len(r) = b + 1
  <2>1. Head(pp) = b + 1
    BY <1>1, <1>3
  <2>2. b \in Nat /\ a <= b /\ made - Len(r) = b + 1
    <3>1. PICK l : l = Len(pp)
      OBVIOUS
    <3>2. l \in Nat /\ l > 0 /\ Len(r) = l - 1 /\ a \in Nat /\ a + l <= made /\ b = made - l
      BY <1>1, <1>3, <3>1
    <3> HIDE DEF b
    <3> QED  BY <3>2
  <2> QED  BY <2>1, <2>2
<1> HIDE DEF b
<1>5. ASSUME NEW i \in 1..Len(r) PROVE r[i] = (b + 1) + i
  <2>1. i + 1 \in 1..Len(pp) /\ r[i] = pp[i + 1]
    BY <1>1
  <2>2. pp[i + 1] = b + (i + 1)
    BY <1>3, <2>1
  <2> QED  BY <1>4, <2>1, <2>2
<1>6. Ordered(Append(q, e), t, a, b + 1)
  BY <1>1, <1>2, <1>3, <1>4, NextOutput
<1>7. a + Len(r) <= made
  BY <1>1, <1>3
<1> QED  BY <1>4, <1>5, <1>6, <1>7 DEF Faithful, e, r, a

\* The backend emits something else.
LEMMA EmitOK ==
    ASSUME NEW t, NEW shown \in Seq(Nat), NEW q \in Seq(Events), NEW pp \in Seq(Nat),
           NEW made \in Nat, Faithful(t, shown, q, pp, made), NEW e \in Events,
           ~(e.kind = "output" /\ e.tab = t)
    PROVE  Faithful(t, shown, Append(q, e), pp, made)
<1>1. Len(shown) \in Nat /\ made - Len(pp) \in Nat
  BY DEF Faithful
<1>2. Ordered(Append(q, e), t, Len(shown), made - Len(pp))
  BY <1>1, OtherEvent DEF Faithful
<1> QED  BY <1>2 DEF Faithful

\* The window handles something else.
LEMMA HandleOther ==
    ASSUME NEW t, NEW shown \in Seq(Nat), NEW q \in Seq(Events), NEW pp \in Seq(Nat),
           NEW made \in Nat, Faithful(t, shown, q, pp, made), q # <<>>,
           ~(Head(q).kind = "output" /\ Head(q).tab = t)
    PROVE  Faithful(t, shown, Tail(q), pp, made)
<1>1. Len(shown) \in Nat /\ made - Len(pp) \in Nat
  BY DEF Faithful
<1>2. Ordered(Tail(q), t, Len(shown), made - Len(pp))
  BY <1>1, OtherHandled DEF Faithful
<1> QED  BY <1>2 DEF Faithful

\* The window shows, or keeps for later, the piece it handles.
LEMMA HandleOutput ==
    ASSUME NEW t, NEW shown \in Seq(Nat), NEW q \in Seq(Events), NEW pp \in Seq(Nat),
           NEW made \in Nat, Faithful(t, shown, q, pp, made), q # <<>>,
           Head(q).kind = "output", Head(q).tab = t
    PROVE  Faithful(t, Append(shown, Head(q).n), Tail(q), pp, made)
<1> DEFINE r == Append(shown, Head(q).n)
           a == Len(shown)
           b == made - Len(pp)
<1>1. a \in Nat /\ b \in Nat /\ Len(pp) \in Nat
  BY DEF Faithful
<1>2. Head(q).n = a + 1 /\ a + 1 <= b /\ Ordered(Tail(q), t, a + 1, b)
  BY <1>1, OutputHandled DEF Faithful
<1>3. Len(r) = a + 1 /\ r[a + 1] = a + 1 /\ \A i \in 1..a : r[i] = shown[i]
  BY <1>2
<1> HIDE DEF r
<1>4. \A i \in 1..Len(r) : r[i] = i
  <2> SUFFICES ASSUME NEW i \in 1..Len(r) PROVE r[i] = i
    OBVIOUS
  <2>1. CASE i = a + 1
    BY <1>3, <2>1
  <2>2. CASE i \in 1..a
    BY <1>3, <2>2 DEF Faithful
  <2> QED  BY <1>1, <1>3, <2>1, <2>2
<1>5. Len(r) + Len(pp) <= made
  BY <1>1, <1>2, <1>3
<1> QED  BY <1>2, <1>3, <1>4, <1>5 DEF Faithful, r

-----------------------------------------------------------------------------
(* The steps, again.                                                       *)

outVars == <<tab, produced, pipe, events, pendingOutput, term>>

\* No tab has any output at the start.
LEMMA WindowInit == Init => WindowInv
<1> SUFFICES ASSUME Init PROVE WindowInv
  OBVIOUS
<1>1. WindowType
  BY DEF Init, WindowType, Unknown
<1>2. ASSUME NEW t \in Tabs
      PROVE  Spare(t) = <<>> /\ Shown(t) = <<>> /\ events = <<>> /\ pipe[t] = <<>>
             /\ produced[t] = 0
  BY DEF Init, Spare, Shown
<1>3. ASSUME NEW t PROVE Faithful(t, <<>>, <<>>, <<>>, 0)
  <2>1. Len(<<>>) = 0 /\ OutputOf(<<>>, t) = {}
    BY DEF OutputOf
  <2> QED  BY <2>1 DEF Faithful, Ordered
<1>4. OutputInv
  BY <1>2, <1>3 DEF OutputInv
<1> QED  BY <1>1, <1>4 DEF WindowInv

\* A tab that a step leaves alone, but for events that are not its output.
LEMMA TabKept ==
    ASSUME WindowInv, NEW u \in Tabs, tab[u] # "closed",
           tab'[u] = tab[u] \/ {tab[u], tab'[u]} \subseteq Unknown
                            \/ {tab[u], tab'[u]} \subseteq Known,
           term'[u] = term[u], pendingOutput'[u] = pendingOutput[u],
           pipe'[u] = pipe[u], produced'[u] = produced[u],
           \/ events' = events
           \/ \E e \in Events : events' = Append(events, e) /\ ~(e.kind = "output" /\ e.tab = u)
           \/ /\ events # <<>> /\ events' = Tail(events)
              /\ ~(Head(events).kind = "output" /\ Head(events).tab = u)
    PROVE  Spare(u)' = <<>> /\ Faithful(u, Shown(u)', events', pipe'[u], produced'[u])
<1>1. Spare(u)' = Spare(u) /\ Shown(u)' = Shown(u)
  BY DEF Spare, Shown, Known, Unknown
<1>2. Spare(u) = <<>> /\ Faithful(u, Shown(u), events, pipe[u], produced[u])
  BY DEF WindowInv, OutputInv
<1>3. Shown(u) \in Seq(Nat) /\ pipe[u] \in Seq(Nat) /\ produced[u] \in Nat
      /\ events \in Seq(Events)
  BY DEF WindowInv, WindowType, Shown
<1>4. Faithful(u, Shown(u), events', pipe[u], produced[u])
  <2>1. CASE events' = events
    BY <1>2, <2>1
  <2>2. ASSUME NEW e \in Events, events' = Append(events, e),
               ~(e.kind = "output" /\ e.tab = u)
        PROVE  Faithful(u, Shown(u), events', pipe[u], produced[u])
    BY <1>2, <1>3, <2>2, EmitOK
  <2>3. CASE /\ events # <<>> /\ events' = Tail(events)
             /\ ~(Head(events).kind = "output" /\ Head(events).tab = u)
    BY <1>2, <1>3, <2>3, HandleOther
  <2> QED  BY <2>1, <2>2, <2>3
<1> QED  BY <1>1, <1>2, <1>4

\* The backend.
LEMMA BackendOutput ==
    ASSUME WindowInv, NEW t \in Tabs, Backend(t) \/ Produce(t) \/ SessionEnds(t) \/ ConnEnds(t)
    PROVE  WindowInv'
<1> USE DEF WindowInv
<1>1. CASE UNCHANGED outVars
  BY <1>1 DEF outVars, WindowType, OutputInv, Spare, Shown
<1>2. ASSUME NEW e \in Events, e.kind # "output", events' = Append(events, e),
             UNCHANGED <<tab, produced, pipe, pendingOutput, term>>
      PROVE  WindowInv'
  <2>1. WindowType'
    BY <1>2 DEF WindowType
  <2>2. OutputInv'
    BY <1>2, TabKept DEF OutputInv
  <2> QED  BY <2>1, <2>2
<1>3. CASE Spawn(t)
  <2>1. UNCHANGED <<tab, produced, pipe, pendingOutput, term>> /\ events' = events \o Trusted(t)
        /\ events \in Seq(Events)
    BY <1>3 DEF Spawn, windowVars, WindowType
  <2> DEFINE e == [kind |-> "trusted", tab |-> t, n |-> 0]
  <2>2. e \in Events /\ e.kind # "output"
    BY DEF Events
  <2> HIDE DEF e
  <2>3. Trusted(t) = <<e>> \/ Trusted(t) = <<>>
    BY DEF Trusted, e
  <2>4. CASE Trusted(t) = <<e>>
    <3>1. events' = Append(events, e)
      BY <2>1, <2>2, <2>4
    <3> QED  BY <1>2, <2>1, <2>2, <3>1
  <2>5. CASE Trusted(t) = <<>>
    <3>1. events' = events
      BY <2>1, <2>5
    <3> QED  BY <1>1, <2>1, <3>1 DEF outVars
  <2> QED  BY <2>3, <2>4, <2>5
<1>4. CASE ExitEmits(t)
  <2> DEFINE e == [kind |-> "exit", tab |-> t, n |-> 0]
  <2>1. e \in Events /\ e.kind # "output"
    BY DEF Events
  <2>2. events' = Append(events, e) /\ UNCHANGED <<tab, produced, pipe, pendingOutput, term>>
    BY <1>4 DEF ExitEmits, windowVars
  <2> HIDE DEF e
  <2> QED  BY <1>2, <2>1, <2>2
<1>5. CASE ReaderTask(t)
  <2> DEFINE e == [kind |-> "output", tab |-> t, n |-> Head(pipe[t])]
  <2>1. /\ pipe[t] # <<>> /\ pipe' = [pipe EXCEPT ![t] = Tail(pipe[t])]
        /\ events' = Append(events, e)
        /\ UNCHANGED <<tab, produced, pendingOutput, term>>
    BY <1>5 DEF ReaderTask, windowVars
  <2>2. e \in Events /\ e.kind = "output" /\ e.tab = t
    BY <2>1 DEF Events, WindowType
  <2>3. WindowType'
    BY <2>1, <2>2 DEF WindowType
  <2>4. ASSUME NEW u \in Tabs, tab'[u] # "closed"
        PROVE  Spare(u)' = <<>> /\ Faithful(u, Shown(u)', events', pipe'[u], produced'[u])
    <3>1. CASE u # t
      BY <2>1, <2>2, <2>4, <3>1, TabKept DEF WindowType
    <3>2. CASE u = t
      <4>1. /\ Spare(t)' = Spare(t) /\ Shown(t)' = Shown(t) /\ tab[t] # "closed"
            /\ pipe'[t] = Tail(pipe[t]) /\ produced'[t] = produced[t]
        BY <2>1, <2>4, <3>2 DEF Spare, Shown, WindowType
      <4>2. Spare(t) = <<>> /\ Faithful(t, Shown(t), events, pipe[t], produced[t])
        BY <4>1 DEF OutputInv
      <4>3. Shown(t) \in Seq(Nat) /\ pipe[t] \in Seq(Nat) /\ produced[t] \in Nat
            /\ events \in Seq(Events)
        BY DEF WindowType, Shown
      <4>4. Faithful(t, Shown(t), Append(events, e), Tail(pipe[t]), produced[t])
        BY <2>1, <4>2, <4>3, ReadOK
      <4> QED  BY <2>1, <3>2, <4>1, <4>2, <4>4
    <3> QED  BY <3>1, <3>2
  <2> QED  BY <2>3, <2>4 DEF OutputInv
<1>6. CASE Produce(t)
  <2>1. /\ produced' = [produced EXCEPT ![t] = produced[t] + 1]
        /\ pipe' = [pipe EXCEPT ![t] = Append(pipe[t], produced[t] + 1)]
        /\ UNCHANGED <<tab, events, pendingOutput, term>>
    BY <1>6 DEF Produce, windowVars
  <2>3. WindowType'
    BY <2>1 DEF WindowType
  <2>4. ASSUME NEW u \in Tabs, tab'[u] # "closed"
        PROVE  Spare(u)' = <<>> /\ Faithful(u, Shown(u)', events', pipe'[u], produced'[u])
    <3>1. CASE u # t
      BY <2>1, <2>4, <3>1, TabKept DEF WindowType
    <3>2. CASE u = t
      <4>1. /\ Spare(t)' = Spare(t) /\ Shown(t)' = Shown(t) /\ tab[t] # "closed"
            /\ pipe'[t] = Append(pipe[t], produced[t] + 1) /\ produced'[t] = produced[t] + 1
        BY <2>1, <2>4, <3>2 DEF Spare, Shown, WindowType
      <4>2. Spare(t) = <<>> /\ Faithful(t, Shown(t), events, pipe[t], produced[t])
        BY <4>1 DEF OutputInv
      <4>3. Shown(t) \in Seq(Nat) /\ pipe[t] \in Seq(Nat) /\ produced[t] \in Nat
            /\ events \in Seq(Events)
        BY DEF WindowType, Shown
      <4>4. Faithful(t, Shown(t), events, Append(pipe[t], produced[t] + 1), produced[t] + 1)
        BY <4>2, <4>3, WriteOK
      <4> QED  BY <2>1, <3>2, <4>1, <4>2, <4>4
    <3> QED  BY <3>1, <3>2
  <2> QED  BY <2>3, <2>4 DEF OutputInv
<1>7. CASE ConnectFailed(t) \/ Insert(t) \/ ReaderEnds(t) \/ ExitRemoves(t)
           \/ disconnect_session(t) \/ SessionEnds(t) \/ ConnEnds(t)
  BY <1>1, <1>7 DEF ConnectFailed, Insert, ReaderEnds, ExitRemoves, disconnect_session,
                    SessionEnds, ConnEnds, outVars, windowVars, sessionVars
<1> QED  BY <1>3, <1>4, <1>5, <1>6, <1>7 DEF Backend

\* The tabs, but for the events.
LEMMA TabOutput ==
    ASSUME WindowInv, NEW t \in Tabs,
           Window(t) \/ closeSession(t) \/ \E h \in Targets : Click(t, h)
    PROVE  WindowInv'
<1> USE DEF WindowInv
<1>1. ASSUME NEW p \in Unknown, tab[t] \in Unknown, tab' = [tab EXCEPT ![t] = p],
             UNCHANGED <<produced, pipe, events, pendingOutput, term>>
      PROVE  WindowInv'
  <2>1. WindowType'
    BY <1>1 DEF WindowType
  <2>2. ASSUME NEW u \in Tabs, tab'[u] # "closed"
        PROVE  Spare(u)' = <<>> /\ Faithful(u, Shown(u)', events', pipe'[u], produced'[u])
    <3>1. tab[u] # "closed" /\ (tab'[u] = tab[u] \/ {tab[u], tab'[u]} \subseteq Unknown)
      BY <1>1, <2>2 DEF WindowType, Unknown
    <3> QED  BY <1>1, <3>1, TabKept
  <2> QED  BY <2>1, <2>2 DEF OutputInv
<1>2. CASE \E h \in Targets : Click(t, h)
  BY <1>1, <1>2 DEF Click, sessionVars, Unknown
<1>3. CASE Reject(t)
  BY <1>1, <1>3 DEF Reject, sessionVars, Unknown
<1>4. CASE closeSession(t)
  <2>1. tab' = [tab EXCEPT ![t] = "closed"]
        /\ UNCHANGED <<produced, pipe, events, pendingOutput, term>>
    BY <1>4 DEF closeSession
  <2>2. WindowType'
    BY <2>1 DEF WindowType
  <2>3. ASSUME NEW u \in Tabs, tab'[u] # "closed"
        PROVE  Spare(u)' = <<>> /\ Faithful(u, Shown(u)', events', pipe'[u], produced'[u])
    <3>1. tab'[u] = tab[u]
      BY <2>1, <2>3 DEF WindowType
    <3> QED  BY <2>1, <2>3, <3>1, TabKept
  <2> QED  BY <2>2, <2>3 DEF OutputInv
<1>5. CASE Resolve(t)
  <2>1. /\ tab[t] = "connecting" /\ tab' = [tab EXCEPT ![t] = "open"]
        /\ term' = [term EXCEPT ![t] = pendingOutput[t]]
        /\ pendingOutput' = [pendingOutput EXCEPT ![t] = <<>>]
        /\ UNCHANGED <<produced, pipe, events>>
    BY <1>5 DEF Resolve, sessionVars
  <2>2. WindowType'
    BY <2>1 DEF WindowType, Known
  <2>3. ASSUME NEW u \in Tabs, tab'[u] # "closed"
        PROVE  Spare(u)' = <<>> /\ Faithful(u, Shown(u)', events', pipe'[u], produced'[u])
    <3>1. CASE u # t
      BY <2>1, <2>3, <3>1, TabKept DEF WindowType
    <3>2. CASE u = t
      <4>1. Shown(t)' = pendingOutput[t] /\ Shown(t) = pendingOutput[t] /\ Spare(t)' = <<>>
        BY <2>1 DEF Shown, Spare, Known, WindowType
      <4>2. Faithful(t, Shown(t), events, pipe[t], produced[t])
        BY <2>1 DEF OutputInv
      <4> QED  BY <2>1, <3>2, <4>1, <4>2
    <3> QED  BY <3>1, <3>2
  <2> QED  BY <2>2, <2>3 DEF OutputInv
<1> QED  BY <1>2, <1>3, <1>4, <1>5 DEF Window

\* The window takes an event.
LEMMA DeliverOutput ==
    ASSUME WindowInv, Deliver
    PROVE  WindowInv'
<1> USE DEF WindowInv
<1> DEFINE e == Head(events)
<1>1. /\ events # <<>> /\ events' = Tail(events) /\ UNCHANGED <<produced, pipe>>
      /\ OnOutput(e) \/ OnExit(e) \/ OnTrusted(e)
  BY DEF Deliver, sessionVars
<1>2. events \in Seq(Events) /\ events' \in Seq(Events) /\ e \in Events
  BY <1>1 DEF WindowType
<1>3. e.tab \in Tabs /\ e.n \in Nat
  BY <1>2 DEF Events
<1> HIDE DEF e
<1>4. CASE OnTrusted(e)
  <2>1. UNCHANGED <<tab, term, pendingOutput>> /\ e.kind # "output"
    BY <1>4 DEF OnTrusted, windowVars
  <2>2. WindowType'
    BY <1>1, <1>2, <2>1 DEF WindowType
  <2>3. OutputInv'
    BY <1>1, <2>1, TabKept DEF OutputInv, e
  <2> QED  BY <2>2, <2>3
<1>5. CASE OnExit(e)
  <2>1. /\ UNCHANGED <<term, pendingOutput>> /\ e.kind # "output"
        /\ tab' = IF tab[e.tab] \in Known THEN [tab EXCEPT ![e.tab] = "dead"] ELSE tab
    BY <1>5 DEF OnExit, Registered, Known
  <2>2. WindowType'
    BY <1>1, <1>2, <2>1 DEF WindowType, Known
  <2>3. ASSUME NEW u \in Tabs, tab'[u] # "closed"
        PROVE  Spare(u)' = <<>> /\ Faithful(u, Shown(u)', events', pipe'[u], produced'[u])
    <3>1. tab[u] # "closed" /\ (tab'[u] = tab[u] \/ {tab[u], tab'[u]} \subseteq Known)
      BY <2>1, <2>3 DEF WindowType, Known
    <3> QED  BY <1>1, <2>1, <3>1, TabKept DEF e
  <2> QED  BY <2>2, <2>3 DEF OutputInv
<1>6. CASE OnOutput(e)
  <2>0. PICK t \in Tabs, m \in Nat : t = e.tab /\ m = e.n
    BY <1>3
  <2>1. /\ UNCHANGED tab /\ e.kind = "output"
        /\ IF tab[t] \in Known
             THEN term' = [term EXCEPT ![t] = Append(term[t], m)] /\ UNCHANGED pendingOutput
             ELSE /\ pendingOutput' = [pendingOutput EXCEPT ![t] = Append(pendingOutput[t], m)]
                  /\ UNCHANGED term
    BY <1>6, <2>0 DEF OnOutput, Registered, Known
  <2>2. WindowType'
    <3>0. tab' = tab /\ produced' = produced /\ pipe' = pipe /\ events' \in Seq(Events)
      BY <1>1, <1>2, <2>1
    <3>1. term' \in [Tabs -> Seq(Nat)] /\ pendingOutput' \in [Tabs -> Seq(Nat)]
      <4>1. Append(term[t], m) \in Seq(Nat) /\ Append(pendingOutput[t], m) \in Seq(Nat)
        BY DEF WindowType
      <4>2. term \in [Tabs -> Seq(Nat)] /\ pendingOutput \in [Tabs -> Seq(Nat)]
        BY DEF WindowType
      <4> QED  BY <2>1, <4>1, <4>2
    <3> QED  BY <3>0, <3>1 DEF WindowType
  <2>3. ASSUME NEW u \in Tabs, tab'[u] # "closed"
        PROVE  Spare(u)' = <<>> /\ Faithful(u, Shown(u)', events', pipe'[u], produced'[u])
    <3>1. CASE u # t
      <4>1. term'[u] = term[u] /\ pendingOutput'[u] = pendingOutput[u] /\ tab'[u] = tab[u]
        BY <2>1, <3>1 DEF WindowType
      <4> QED  BY <1>1, <2>0, <2>3, <3>1, <4>1, TabKept DEF e
    <3>2. CASE u = t
      <4>1. Shown(t)' = Append(Shown(t), m) /\ Spare(t)' = Spare(t) /\ tab[t] # "closed"
        <5>1. CASE tab[t] \in Known
          BY <2>1, <2>3, <3>2, <5>1 DEF Shown, Spare, WindowType
        <5>2. CASE tab[t] \notin Known
          BY <2>1, <2>3, <3>2, <5>2 DEF Shown, Spare, WindowType
        <5> QED  BY <5>1, <5>2
      <4>2. Spare(t) = <<>> /\ Faithful(t, Shown(t), events, pipe[t], produced[t])
        BY <4>1 DEF OutputInv
      <4>3. Shown(t) \in Seq(Nat) /\ pipe[t] \in Seq(Nat) /\ produced[t] \in Nat
        BY DEF WindowType, Shown
      <4>4. Faithful(t, Append(Shown(t), m), Tail(events), pipe[t], produced[t])
        BY <1>1, <1>2, <2>0, <2>1, <4>2, <4>3, HandleOutput DEF e
      <4> QED  BY <1>1, <3>2, <4>1, <4>2, <4>4
    <3> QED  BY <3>1, <3>2
  <2> QED  BY <2>2, <2>3 DEF OutputInv
<1> QED  BY <1>1, <1>4, <1>5, <1>6

\* Every step keeps the output of every tab together.
LEMMA WindowNext == WindowInv /\ [Next]_vars => WindowInv'
<1> SUFFICES ASSUME WindowInv, [Next]_vars PROVE WindowInv'
  OBVIOUS
<1>1. CASE UNCHANGED outVars
  BY <1>1 DEF outVars, WindowInv, WindowType, OutputInv, Spare, Shown
<1>2. ASSUME NEW h \in Targets, SaveHost(h) \/ DeleteHost(h) PROVE WindowInv'
  BY <1>1, <1>2 DEF SaveHost, DeleteHost, windowVars, sessionVars, outVars
<1>3. ASSUME NEW c \in Clients, Client(c) PROVE WindowInv'
  BY <1>1, <1>3 DEF Client, guiVars, windowVars, sessionVars, outVars
<1>4. ASSUME NEW c \in Clients, NEW h \in Targets, Typed(c, h) PROVE WindowInv'
  BY <1>1, <1>4 DEF Typed, guiVars, windowVars, sessionVars, outVars
<1>5. CASE UNCHANGED vars
  BY <1>1, <1>5 DEF vars, guiVars, windowVars, sessionVars, outVars
<1> QED
  BY <1>2, <1>3, <1>4, <1>5, BackendOutput, TabOutput, DeliverOutput DEF Next

\* For any number of tabs and pieces of output, and however the backend's
\* events, connect_host's answer, the exit of a session and the closing of a tab
\* overtake each other: an open tab's terminal shows its session's output in
\* order from the first piece, nothing lost, doubled or left in the buffer.
THEOREM OutputReachesTerminal == Spec => []TerminalFaithful
<1>1. Spec => []WindowInv
  BY WindowInit, WindowNext, PTL DEF Spec
<1>2. WindowInv => TerminalFaithful
  <2> SUFFICES ASSUME WindowInv, NEW t \in Tabs, tab[t] # "closed"
               PROVE  /\ \A i \in 1..Len(term[t] \o pendingOutput[t]) :
                            (term[t] \o pendingOutput[t])[i] = i
                      /\ Len(term[t] \o pendingOutput[t]) <= produced[t] - Len(pipe[t])
                      /\ Ordered(events, t, Len(term[t] \o pendingOutput[t]),
                                 produced[t] - Len(pipe[t]))
                      /\ \A i \in 1..Len(pipe[t]) :
                            pipe[t][i] = produced[t] - Len(pipe[t]) + i
                      /\ Registered(t) => pendingOutput[t] = <<>>
    BY DEF TerminalFaithful
  <2>1. Spare(t) = <<>> /\ Faithful(t, Shown(t), events, pipe[t], produced[t])
    BY DEF WindowInv, OutputInv
  <2>2. term[t] \in Seq(Nat) /\ pendingOutput[t] \in Seq(Nat) /\ Len(pipe[t]) \in Nat
        /\ produced[t] \in Nat /\ Len(Shown(t)) \in Nat
    BY DEF WindowInv, WindowType, Shown
  <2>3. term[t] \o pendingOutput[t] = Shown(t)
    <3>0. \A s \in Seq(Nat) : s \o <<>> = s /\ <<>> \o s = s
      OBVIOUS
    <3>1. CASE tab[t] \in Known
      <4>1. pendingOutput[t] = <<>> /\ Shown(t) = term[t]
        BY <2>1, <3>1 DEF Shown, Spare
      <4> QED  BY <2>2, <3>0, <4>1
    <3>2. CASE tab[t] \notin Known
      <4>1. term[t] = <<>> /\ Shown(t) = pendingOutput[t]
        BY <2>1, <3>2 DEF Shown, Spare
      <4> QED  BY <2>2, <3>0, <4>1
    <3> QED  BY <3>1, <3>2
  <2>4. Registered(t) => pendingOutput[t] = <<>>
    BY <2>1 DEF Registered, Known, Spare
  <2>5. Len(Shown(t)) <= produced[t] - Len(pipe[t])
    BY <2>1, <2>2 DEF Faithful
  <2> QED  BY <2>1, <2>3, <2>4, <2>5 DEF Faithful
<1> QED  BY <1>1, <1>2, PTL
=============================================================================
