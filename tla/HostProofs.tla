----------------------------- MODULE HostProofs -----------------------------
(***************************************************************************)
(* Proofs about what the library sets up on a host, by itself and as       *)
(* MCHost puts it side by side: what Ensure, Restart, Stop, Uninstall and  *)
(* Purge of a service leave behind when they return, for every platform,   *)
(* scope, choice of directories and set of failing steps; and the accounts *)
(* of Linux and macOS, for any number of callers, accounts, failures and   *)
(* changes by an administrator.                                            *)
(***************************************************************************)
EXTENDS MCHost, FiniteSetTheorems, SequenceTheorems, WellFoundedInduction, TLAPS

-----------------------------------------------------------------------------
\* The service

\* Everything Ensure may have to reconcile.
Items == Kinds \cup {"logfile"}
Wanted == Managed \cup (IF "logs" \in Managed THEN {"logfile"} ELSE {})

-----------------------------------------------------------------------------
\* Directories

LEMMA SetupType ==
  ASSUME setup \in Setups
  PROVE  /\ Platform \in {"linux", "darwin"} /\ Scope \in {"User", "System"}
         /\ Declared \subseteq Kinds /\ Managed \subseteq Kinds
         /\ Faults \subseteq {"dirs", "write", "sync", "command", "query"}
  BY ServiceConstants DEF Setup, Platform, Scope, Declared, Managed, Faults, Kinds

LEMMA SameSequence ==
  ASSUME NEW S, NEW s \in Seq(S), NEW t \in Seq(S), Len(s) = Len(t),
         \A i \in 1..Len(s) : s[i] = t[i]
  PROVE  s = t
  OBVIOUS

LEMMA Append1 ==
  ASSUME NEW a, NEW x
  PROVE  Append(<<a>>, x) = <<a, x>>
<1> DEFINE S == {a, x}
           s == Append(<<a>>, x)
           t == <<a, x>>
<1>1. s \in Seq(S) /\ Len(s) = 2 /\ s[1] = a /\ s[2] = x
  OBVIOUS
<1>2. t \in Seq(S) /\ Len(t) = 2 /\ t[1] = a /\ t[2] = x
  OBVIOUS
<1> HIDE DEF s, t, S
<1>3. \A i \in 1..Len(s) : s[i] = t[i]
  BY <1>1, <1>2
<1>4. s = t
  BY <1>1, <1>2, <1>3, SameSequence
<1> QED BY <1>4 DEF s, t

LEMMA Append2 ==
  ASSUME NEW a, NEW b, NEW x
  PROVE  Append(<<a, b>>, x) = <<a, b, x>>
<1> DEFINE S == {a, b, x}
           s == Append(<<a, b>>, x)
           t == <<a, b, x>>
<1>1. s \in Seq(S) /\ Len(s) = 3 /\ s[1] = a /\ s[2] = b /\ s[3] = x
  OBVIOUS
<1>2. t \in Seq(S) /\ Len(t) = 3 /\ t[1] = a /\ t[2] = b /\ t[3] = x
  OBVIOUS
<1> HIDE DEF s, t, S
<1>3. \A i \in 1..Len(s) : s[i] = t[i]
  BY <1>1, <1>2
<1>4. s = t
  BY <1>1, <1>2, <1>3, SameSequence
<1> QED BY <1>4 DEF s, t

LEMMA Append3 ==
  ASSUME NEW a, NEW b, NEW c, NEW x
  PROVE  Append(<<a, b, c>>, x) = <<a, b, c, x>>
<1> DEFINE S == {a, b, c, x}
           s == Append(<<a, b, c>>, x)
           t == <<a, b, c, x>>
<1>1. s \in Seq(S) /\ Len(s) = 4 /\ s[1] = a /\ s[2] = b /\ s[3] = c /\ s[4] = x
  OBVIOUS
<1>2. t \in Seq(S) /\ Len(t) = 4 /\ t[1] = a /\ t[2] = b /\ t[3] = c /\ t[4] = x
  OBVIOUS
<1> HIDE DEF s, t, S
<1>3. \A i \in 1..Len(s) : s[i] = t[i]
  BY <1>1, <1>2
<1>4. s = t
  BY <1>1, <1>2, <1>3, SameSequence
<1> QED BY <1>4 DEF s, t

LEMMA UserPaths ==
  ASSUME Scope = "User"
  PROVE  /\ Path("config") = <<"home", "name">> /\ Path("runtime") = <<"home", "name", "run">>
         /\ Path("state") = <<"home", "name", "lib">> /\ Path("logs") = <<"home", "name", "log">>
         /\ Path("logfile") = <<"home", "name", "log", "out.log">>
  BY Append1, Append2, Append3 DEF Path, Directory, Base

LEMMA LinuxPaths ==
  ASSUME Scope = "System", Platform = "linux"
  PROVE  /\ Path("config") = <<"etc", "name">>
         /\ Path("runtime") = <<"run", "name">>
         /\ Path("state") = <<"var", "lib", "name">>
         /\ Path("logs") = <<"var", "log", "name">>
         /\ Path("logfile") = <<"var", "log", "name", "out.log">>
<1>1. /\ Base("config") = <<"etc">>
      /\ Base("runtime") = <<"run">>
      /\ Base("state") = <<"var", "lib">>
      /\ Base("logs") = <<"var", "log">>
  BY DEF Base
<1>2. /\ Append(<<"etc">>, "name") = <<"etc", "name">>
      /\ Append(<<"run">>, "name") = <<"run", "name">>
      /\ Append(<<"var", "lib">>, "name") = <<"var", "lib", "name">>
      /\ Append(<<"var", "log">>, "name") = <<"var", "log", "name">>
      /\ Append(<<"var", "log", "name">>, "out.log") = <<"var", "log", "name", "out.log">>
  BY Append1, Append2, Append3
<1>3. \A k \in Kinds : Directory(k) = Append(Base(k), "name")
  BY DEF Directory
<1>4. \A k \in Kinds : Path(k) = Directory(k)
  BY DEF Path, Kinds
<1>5. Path("logfile") = Append(Directory("logs"), "out.log")
  BY DEF Path
<1> QED BY <1>1, <1>2, <1>3, <1>4, <1>5, Zenon DEF Kinds

LEMMA DarwinPaths ==
  ASSUME Scope = "System", Platform = "darwin"
  PROVE  /\ Path("config") = <<"Library", "Application Support", "name">>
         /\ Path("runtime") = <<"private", "var", "run", "name">>
         /\ Path("state") = <<"Library", "Application Support", "name">>
         /\ Path("logs") = <<"Library", "Logs", "name">>
         /\ Path("logfile") = <<"Library", "Logs", "name", "out.log">>
<1>1. /\ Base("config") = <<"Library", "Application Support">>
      /\ Base("runtime") = <<"private", "var", "run">>
      /\ Base("state") = <<"Library", "Application Support">>
      /\ Base("logs") = <<"Library", "Logs">>
  BY DEF Base
<1>2. /\ Append(<<"Library", "Application Support">>, "name") = <<"Library", "Application Support", "name">>
      /\ Append(<<"private", "var", "run">>, "name") = <<"private", "var", "run", "name">>
      /\ Append(<<"Library", "Logs">>, "name") = <<"Library", "Logs", "name">>
      /\ Append(<<"Library", "Logs", "name">>, "out.log") = <<"Library", "Logs", "name", "out.log">>
  BY ZenonT(30), Append1, Append2, Append3
<1>3. \A k \in Kinds : Directory(k) = Append(Base(k), "name")
  BY DEF Directory
<1>4. \A k \in Kinds : Path(k) = Directory(k)
  BY DEF Path, Kinds
<1>5. Path("logfile") = Append(Directory("logs"), "out.log")
  BY DEF Path
<1> QED BY <1>1, <1>2, <1>3, <1>4, <1>5, Zenon DEF Kinds

LEMMA OrderType ==
  Order \in Seq(Wanted)
<1>1. ASSUME NEW k PROVE Optional(k, Managed) \in Seq(Wanted)
  <2>1. CASE k \in Managed
    <3>1. k \in Wanted
      BY <2>1 DEF Wanted
    <3>2. <<k>> \in Seq(Wanted)
      BY <3>1
    <3> QED BY <2>1, <3>2 DEF Optional
  <2>2. CASE k \notin Managed
    BY <2>2 DEF Optional
  <2> QED BY <2>1, <2>2
<1> DEFINE a == Optional("config", Managed)
           b == Optional("runtime", Managed)
           c == Optional("state", Managed)
           d == IF "logs" \in Managed THEN <<"logs", "logfile">> ELSE <<>>
<1>2. d \in Seq(Wanted)
  <2>1. CASE "logs" \in Managed
    <3>1. "logs" \in Wanted /\ "logfile" \in Wanted
      BY <2>1 DEF Wanted
    <3>2. <<"logs", "logfile">> \in Seq(Wanted)
      BY <3>1
    <3> QED BY <2>1, <3>2
  <2>2. CASE "logs" \notin Managed
    BY <2>2
  <2> QED BY <2>1, <2>2
<1>3. a \in Seq(Wanted) /\ b \in Seq(Wanted) /\ c \in Seq(Wanted)
  BY <1>1
<1>4. Order = a \o b \o c \o d
  BY DEF Order
<1> HIDE DEF a, b, c, d
<1>5. a \o b \in Seq(Wanted)
  BY <1>3
<1>6. a \o b \o c \in Seq(Wanted)
  BY <1>3, <1>5
<1> QED BY <1>2, <1>4, <1>6

LEMMA ToSetTail ==
  ASSUME NEW S, NEW s \in Seq(S), s # <<>>
  PROVE  /\ Head(s) \in S /\ Tail(s) \in Seq(S)
         /\ \A x \in ToSet(s) : x = Head(s) \/ x \in ToSet(Tail(s))
<1>1. Head(s) \in S /\ Tail(s) \in Seq(S) /\ Len(s) \in Nat /\ Len(s) >= 1
      /\ Len(Tail(s)) = Len(s) - 1 /\ DOMAIN s = 1..Len(s) /\ DOMAIN Tail(s) = 1..(Len(s) - 1)
  OBVIOUS
<1>2. ASSUME NEW i \in 1..Len(s) PROVE s[i] = Head(s) \/ s[i] \in ToSet(Tail(s))
  <2>1. CASE i = 1
    BY <2>1
  <2>2. CASE i # 1
    <3>1. i - 1 \in 1..(Len(s) - 1) /\ Tail(s)[i - 1] = s[i]
      BY <1>1, <2>2
    <3> QED BY <1>1, <3>1 DEF ToSet
  <2> QED BY <2>1, <2>2
<1> QED BY <1>1, <1>2 DEF ToSet

\* A prefix is shorter and agrees element by element.
LEMMA PrefixIs ==
  ASSUME NEW S, NEW s \in Seq(S), NEW t \in Seq(S), IsPrefix(s, t)
  PROVE  Len(s) <= Len(t) /\ \A i \in 1..Len(s) : s[i] = t[i]
<1>1. Len(s) <= Len(t) /\ SubSeq(s, 1, Len(s)) = SubSeq(t, 1, Len(s))
  BY DEF IsPrefix
<1>2. ASSUME NEW i \in 1..Len(s) PROVE s[i] = t[i]
  <2>1. SubSeq(s, 1, Len(s))[i] = s[i] /\ SubSeq(t, 1, Len(s))[i] = t[i]
    BY <1>1
  <2> QED BY <1>1, <2>1
<1> QED BY <1>1, <1>2

\* The paths as sequences of names, for comparing them.
Names == {"home", "name", "run", "lib", "log", "out.log", "etc", "var", "Library",
          "Application Support", "private", "Logs"}
Two(p, a, b) == p \in Seq(Names) /\ Len(p) = 2 /\ p[1] = a /\ p[2] = b
Three(p, a, b, c) == p \in Seq(Names) /\ Len(p) = 3 /\ p[1] = a /\ p[2] = b /\ p[3] = c
Four(p, a, b, c, d) ==
    p \in Seq(Names) /\ Len(p) = 4 /\ p[1] = a /\ p[2] = b /\ p[3] = c /\ p[4] = d

LEMMA TwoNames ==
  ASSUME NEW a \in Names, NEW b \in Names
  PROVE  Two(<<a, b>>, a, b)
  BY DEF Two

LEMMA ThreeNames ==
  ASSUME NEW a \in Names, NEW b \in Names, NEW c \in Names
  PROVE  Three(<<a, b, c>>, a, b, c)
  BY DEF Three

LEMMA FourNames ==
  ASSUME NEW a \in Names, NEW b \in Names, NEW c \in Names, NEW d \in Names
  PROVE  Four(<<a, b, c, d>>, a, b, c, d)
  BY DEF Four

LEMMA NamesAre ==
  /\ "home" \in Names /\ "name" \in Names /\ "run" \in Names /\ "lib" \in Names
  /\ "log" \in Names /\ "out.log" \in Names /\ "etc" \in Names /\ "var" \in Names
  /\ "Library" \in Names /\ "Application Support" \in Names /\ "private" \in Names
  /\ "Logs" \in Names
  BY DEF Names

LEMMA UserPathsAre ==
  ASSUME Scope = "User"
  PROVE  /\ Two(Path("config"), "home", "name")
         /\ Three(Path("runtime"), "home", "name", "run")
         /\ Three(Path("state"), "home", "name", "lib")
         /\ Three(Path("logs"), "home", "name", "log")
         /\ Four(Path("logfile"), "home", "name", "log", "out.log")
<1>1. Two(Path("config"), "home", "name")
  <2>1. Two(<<"home", "name">>, "home", "name")
    BY NamesAre, TwoNames, Zenon
  <2> QED BY <2>1, UserPaths, Zenon
<1>2. Three(Path("runtime"), "home", "name", "run")
  <2>1. Three(<<"home", "name", "run">>, "home", "name", "run")
    BY NamesAre, ThreeNames, Zenon
  <2> QED BY <2>1, UserPaths, Zenon
<1>3. Three(Path("state"), "home", "name", "lib")
  <2>1. Three(<<"home", "name", "lib">>, "home", "name", "lib")
    BY NamesAre, ThreeNames, Zenon
  <2> QED BY <2>1, UserPaths, Zenon
<1>4. Three(Path("logs"), "home", "name", "log")
  <2>1. Three(<<"home", "name", "log">>, "home", "name", "log")
    BY NamesAre, ThreeNames, Zenon
  <2> QED BY <2>1, UserPaths, Zenon
<1>5. Four(Path("logfile"), "home", "name", "log", "out.log")
  <2>1. Four(<<"home", "name", "log", "out.log">>, "home", "name", "log", "out.log")
    BY NamesAre, FourNames, Zenon
  <2> QED BY <2>1, UserPaths, Zenon
<1> QED BY <1>1, <1>2, <1>3, <1>4, <1>5

LEMMA LinuxPathsAre ==
  ASSUME Scope = "System", Platform = "linux"
  PROVE  /\ Two(Path("config"), "etc", "name")
         /\ Two(Path("runtime"), "run", "name")
         /\ Three(Path("state"), "var", "lib", "name")
         /\ Three(Path("logs"), "var", "log", "name")
         /\ Four(Path("logfile"), "var", "log", "name", "out.log")
<1>1. Two(Path("config"), "etc", "name")
  <2>1. Two(<<"etc", "name">>, "etc", "name")
    BY NamesAre, TwoNames, Zenon
  <2> QED BY <2>1, LinuxPaths, Zenon
<1>2. Two(Path("runtime"), "run", "name")
  <2>1. Two(<<"run", "name">>, "run", "name")
    BY NamesAre, TwoNames, Zenon
  <2> QED BY <2>1, LinuxPaths, Zenon
<1>3. Three(Path("state"), "var", "lib", "name")
  <2>1. Three(<<"var", "lib", "name">>, "var", "lib", "name")
    BY NamesAre, ThreeNames, Zenon
  <2> QED BY <2>1, LinuxPaths, Zenon
<1>4. Three(Path("logs"), "var", "log", "name")
  <2>1. Three(<<"var", "log", "name">>, "var", "log", "name")
    BY NamesAre, ThreeNames, Zenon
  <2> QED BY <2>1, LinuxPaths, Zenon
<1>5. Four(Path("logfile"), "var", "log", "name", "out.log")
  <2>1. Four(<<"var", "log", "name", "out.log">>, "var", "log", "name", "out.log")
    BY NamesAre, FourNames, Zenon
  <2> QED BY <2>1, LinuxPaths, Zenon
<1> QED BY <1>1, <1>2, <1>3, <1>4, <1>5

LEMMA DarwinPathsAre ==
  ASSUME Scope = "System", Platform = "darwin"
  PROVE  /\ Three(Path("config"), "Library", "Application Support", "name")
         /\ Four(Path("runtime"), "private", "var", "run", "name")
         /\ Three(Path("state"), "Library", "Application Support", "name")
         /\ Three(Path("logs"), "Library", "Logs", "name")
         /\ Four(Path("logfile"), "Library", "Logs", "name", "out.log")
<1>1. Three(Path("config"), "Library", "Application Support", "name")
  <2>1. Three(<<"Library", "Application Support", "name">>, "Library", "Application Support", "name")
    BY NamesAre, ThreeNames, Zenon
  <2> QED BY <2>1, DarwinPaths, Zenon
<1>2. Four(Path("runtime"), "private", "var", "run", "name")
  <2>1. Four(<<"private", "var", "run", "name">>, "private", "var", "run", "name")
    BY NamesAre, FourNames, Zenon
  <2> QED BY <2>1, DarwinPaths, Zenon
<1>3. Three(Path("state"), "Library", "Application Support", "name")
  <2>1. Three(<<"Library", "Application Support", "name">>, "Library", "Application Support", "name")
    BY NamesAre, ThreeNames, Zenon
  <2> QED BY <2>1, DarwinPaths, Zenon
<1>4. Three(Path("logs"), "Library", "Logs", "name")
  <2>1. Three(<<"Library", "Logs", "name">>, "Library", "Logs", "name")
    BY NamesAre, ThreeNames, Zenon
  <2> QED BY <2>1, DarwinPaths, Zenon
<1>5. Four(Path("logfile"), "Library", "Logs", "name", "out.log")
  <2>1. Four(<<"Library", "Logs", "name", "out.log">>, "Library", "Logs", "name", "out.log")
    BY NamesAre, FourNames, Zenon
  <2> QED BY <2>1, DarwinPaths, Zenon
<1> QED BY <1>1, <1>2, <1>3, <1>4, <1>5

LEMMA PathSequences ==
  ASSUME setup \in Setups, NEW k \in Items
  PROVE  Path(k) \in Seq(Names) /\ Len(Path(k)) \in 2..4
<1>1. /\ Platform \in {"linux", "darwin"} /\ Scope \in {"User", "System"}
      /\ k \in {"config", "runtime", "state", "logs", "logfile"}
  BY SetupType DEF Items, Kinds
<1>2. CASE Scope = "User"
  BY <1>1, <1>2, UserPathsAre DEF Two, Three, Four
<1>3. CASE Scope = "System" /\ Platform = "linux"
  BY <1>1, <1>3, LinuxPathsAre DEF Two, Three, Four
<1>4. CASE Scope = "System" /\ Platform = "darwin"
  <2>1. /\ Three(Path("config"), "Library", "Application Support", "name")
        /\ Four(Path("runtime"), "private", "var", "run", "name")
        /\ Three(Path("state"), "Library", "Application Support", "name")
        /\ Three(Path("logs"), "Library", "Logs", "name")
        /\ Four(Path("logfile"), "Library", "Logs", "name", "out.log")
    BY <1>4, DarwinPathsAre
  <2>2. \A i \in {"config", "state", "logs"} : Path(i) \in Seq(Names) /\ Len(Path(i)) = 3
    BY <2>1 DEF Three
  <2>3. \A i \in {"runtime", "logfile"} : Path(i) \in Seq(Names) /\ Len(Path(i)) = 4
    BY <2>1 DEF Four
  <2> QED BY <1>1, <2>2, <2>3
<1> QED BY <1>1, <1>2, <1>3, <1>4

\* A log file is not one of the directories.
LEMMA LogFileApart ==
  ASSUME setup \in Setups, NEW k \in Kinds
  PROVE  Path(k) # Path("logfile")
<1>1. /\ Platform \in {"linux", "darwin"} /\ Scope \in {"User", "System"}
      /\ k \in {"config", "runtime", "state", "logs"}
  BY SetupType DEF Kinds
<1>2. CASE Scope = "User"
  BY <1>1, <1>2, UserPathsAre DEF Two, Three, Four
<1>3. CASE Scope = "System" /\ Platform = "linux"
  BY <1>1, <1>3, LinuxPathsAre DEF Two, Three, Four
<1>4. CASE Scope = "System" /\ Platform = "darwin"
  BY <1>1, <1>4, DarwinPathsAre DEF Two, Three, Four
<1> QED BY <1>1, <1>2, <1>3, <1>4

LEMMA WantedApart ==
  ASSUME setup \in Setups, PathsDiffer, NEW k \in Wanted, NEW l \in Wanted, Path(k) = Path(l)
  PROVE  k = l
<1>1. Managed \subseteq Kinds /\ "logfile" \notin Kinds
  BY SetupType DEF Kinds
<1>2. CASE k \in Managed /\ l \in Managed
  BY <1>2 DEF PathsDiffer
<1>3. k \in Managed \cup {"logfile"} /\ l \in Managed \cup {"logfile"}
  BY DEF Wanted
<1>4. k \in Managed => Path(k) # Path("logfile")
  BY <1>1, LogFileApart
<1>5. l \in Managed => Path(l) # Path("logfile")
  BY <1>1, LogFileApart
<1> QED BY <1>2, <1>3, <1>4, <1>5

\* Of the managed directories only the user's config directory has others below.
LEMMA BelowIs ==
  ASSUME setup \in Setups, PathsDiffer, NEW k \in Managed, NEW l \in Managed,
         Path(k) \in Below(Path(l))
  PROVE  k = l \/ (Scope = "User" /\ l = "config")
<1>1. k \in Kinds /\ l \in Kinds /\ k \in Items /\ l \in Items
  BY SetupType DEF Items
<1>2. /\ Platform \in {"linux", "darwin"} /\ Scope \in {"User", "System"}
      /\ k \in {"config", "runtime", "state", "logs"} /\ l \in {"config", "runtime", "state", "logs"}
  BY <1>1, SetupType DEF Kinds
<1>3. Path(k) \in Seq(Names) /\ Path(l) \in Seq(Names) /\ Len(Path(l)) \in 2..4
  BY <1>1, PathSequences
<1>4. Len(Path(l)) <= Len(Path(k)) /\ \A i \in 1..Len(Path(l)) : Path(l)[i] = Path(k)[i]
  BY <1>3, PrefixIs DEF Below
<1>5. /\ Path(l)[1] = Path(k)[1] /\ Path(l)[2] = Path(k)[2]
      /\ Len(Path(l)) >= 3 => Path(l)[3] = Path(k)[3]
  BY <1>3, <1>4
<1>6. CASE Scope = "User" /\ l # "config"
  <2>1. Len(Path(l)) = 3 /\ Len(Path("config")) = 2
    BY <1>2, <1>6, UserPathsAre DEF Two, Three
  <2>2. k # "config" /\ Path(l)[3] = Path(k)[3]
    BY <1>4, <1>5, <2>1
  <2>3. /\ Path("runtime")[3] = "run" /\ Path("state")[3] = "lib" /\ Path("logs")[3] = "log"
    BY <1>6, UserPathsAre DEF Three
  <2> QED BY <1>2, <1>6, <2>2, <2>3
<1>7. CASE Scope = "System" /\ Platform = "linux"
  BY <1>2, <1>5, <1>7, LinuxPathsAre DEF Two, Three, Four
<1>8. CASE Scope = "System" /\ Platform = "darwin"
  <2>1. k = l \/ (k \in {"config", "state"} /\ l \in {"config", "state"})
    BY ZenonT(30), <1>2, <1>5, <1>8, DarwinPathsAre DEF Two, Three, Four
  <2>2. Path("config") = Path("state")
    BY <1>8, DarwinPaths
  <2>3. k \in {"config", "state"} /\ l \in {"config", "state"} => Path(k) = Path(l)
    BY <2>2
  <2> QED BY <2>1, <2>3 DEF PathsDiffer
<1> QED BY <1>2, <1>6, <1>7, <1>8

-----------------------------------------------------------------------------
\* The inductive invariants

\* An operation under way has not returned.
UnderWay == pc # "idle" => result = None

\* Ensure goes through the managed paths: each is still to do or as wanted.
Reconciling ==
    pc = "dirs" => todo \in Seq(Wanted) /\
        (PathsDiffer => \A k \in ToSet(Order) : k \in ToSet(todo) \/ dirs[Path(k)] = Mode(k))
Reconciled ==
    pc \in {"reload", "show"} =>
        (PathsDiffer => \A k \in ToSet(Order) : dirs[Path(k)] = Mode(k))
DirInv == UnderWay /\ Reconciling /\ Reconciled /\ DirsReconciled

\* What Ensure wrote is the specification it was called with, until the next
\* Ensure or Uninstall.
Written ==
    /\ ensured => def = want
    /\ pc \in {"reload", "show"} => def = want
    /\ pc = "remove" => ~ensured

\* A reliable systemd has read the definition, and what runs is that definition
\* unless the caller was told, or is about to be.
ReadIn ==
    Reliable =>
        /\ pc # "reload" => unit = def
        /\ running \in {0, def} \/ told \/ pc \in {"reload", "show"}

\* Where commands do not fail, nothing runs or is loaded without a definition,
\* and Uninstall removes the definition of a service that is stopped.
NothingLeft ==
    "command" \notin Faults =>
        /\ def = 0 => running = 0 /\ unit = 0 /\ (Platform = "linux" => ~enabled)
        /\ pc = "remove" => /\ running = 0
                            /\ Platform = "linux" => ~enabled
                            /\ Platform = "darwin" => unit = 0
ManagerInv == UnderWay /\ Written /\ ReadIn /\ NothingLeft /\ RestartApplies /\ StopStops

-----------------------------------------------------------------------------
\* The installation does not change

LEMMA SetupStays ==
  ASSUME [Next]_vars
  PROVE  setup' = setup
  BY DEF Next, vars, Upgrade, EnsureBegin, EnsureDirectory, EnsureDefinition, EnsureReload,
         EnsureShow, Start, Restart, Stop, UninstallStop, UninstallRemove, Purge

LEMMA SameSetup ==
  ASSUME setup' = setup
  PROVE  /\ Platform' = Platform /\ Scope' = Scope /\ Declared' = Declared /\ Faults' = Faults
         /\ Managed' = Managed /\ Order' = Order /\ Wanted' = Wanted
         /\ Paths' = Paths /\ (PathsDiffer' <=> PathsDiffer) /\ (Reliable' <=> Reliable)
         /\ \A k : Path(k)' = Path(k) /\ Mode(k)' = Mode(k)
<1>1. Platform' = Platform /\ Scope' = Scope /\ Declared' = Declared /\ Faults' = Faults
  BY DEF Platform, Scope, Declared, Faults
<1>2. Managed' = Managed
  BY <1>1 DEF Managed
<1>3. Order' = Order /\ Wanted' = Wanted
  BY <1>2 DEF Order, Wanted
<1>4. ASSUME NEW k PROVE Path(k)' = Path(k) /\ Mode(k)' = Mode(k)
  BY <1>1 DEF Path, Directory, Base, Mode
<1>5. Paths' = Paths
  BY <1>3, <1>4 DEF Paths
<1>6. PathsDiffer' <=> PathsDiffer
  BY <1>2, <1>4 DEF PathsDiffer
<1>7. Reliable' <=> Reliable
  BY <1>1 DEF Reliable
<1> QED BY <1>1, <1>2, <1>3, <1>4, <1>5, <1>6, <1>7

-----------------------------------------------------------------------------
\* Types

Modes == {"absent", "raw", "0600", "0660", "0700", "0750", "0770"}

LEMMA ReturnType ==
  ASSUME NEW op \in {"none", "ensure", "start", "restart", "stop", "uninstall", "purge"},
         NEW ok \in BOOLEAN, Return(op, ok)
  PROVE  /\ result' \in Results /\ pc' = "idle"
         /\ result'.op = op /\ result'.ok = ok /\ result'.selected = {}
<1>1. {} \in SUBSET Kinds
  OBVIOUS
<1> QED BY <1>1 DEF Return, Results

LEMMA NoneType ==
  None \in Results /\ None.op = "none"
  BY DEF None, Results

LEMMA ModeType ==
  ASSUME NEW k
  PROVE  Mode(k) \in Modes /\ Mode(k) # "absent"
  BY DEF Mode, Modes

LEMMA OrderItems ==
  ASSUME setup \in Setups
  PROVE  Wanted \subseteq Items /\ Order \in Seq(Items)
<1>1. Wanted \subseteq Items
  BY SetupType DEF Wanted, Items
<1> QED BY <1>1, OrderType

\* A step that keeps the installation and assigns values of the right type.
LEMMA TypeAssemble ==
  ASSUME TypeOK, [Next]_vars, want' \in 1..MaxSpec,
         def' \in 0..MaxSpec, unit' \in 0..MaxSpec, running' \in 0..MaxSpec,
         enabled' \in BOOLEAN, ensured' \in BOOLEAN, told' \in BOOLEAN,
         dirs' \in [Paths -> Modes],
         pc' \in {"idle", "dirs", "reload", "show", "remove"},
         todo' \in Seq(Items), result' \in Results
  PROVE  TypeOK'
<1>1. setup' \in Setups /\ Paths' = Paths
  BY SetupStays, SameSetup DEF TypeOK
<1> QED BY <1>1 DEF TypeOK, Modes, Items

LEMMA TypeStep ==
  ASSUME TypeOK, [Next]_vars
  PROVE  TypeOK'
<1> USE DEF TypeOK
<1>t. /\ want \in 1..MaxSpec /\ want \in 0..MaxSpec
      /\ def \in 0..MaxSpec /\ unit \in 0..MaxSpec /\ running \in 0..MaxSpec /\ 0 \in 0..MaxSpec
      /\ enabled \in BOOLEAN /\ ensured \in BOOLEAN /\ told \in BOOLEAN
      /\ dirs \in [Paths -> Modes] /\ todo \in Seq(Items) /\ result \in Results
      /\ pc \in {"idle", "dirs", "reload", "show", "remove"}
  BY ServiceConstants DEF Modes, Items
<1> HIDE DEF TypeOK
<1>1. CASE UNCHANGED vars
  BY <1>1, <1>t, TypeAssemble DEF vars
<1>2. CASE Upgrade
  <2>1. want' \in 1..MaxSpec
    BY <1>2, <1>t, ServiceConstants DEF Upgrade
  <2> QED BY <1>2, <1>t, <2>1, NoneType, TypeAssemble DEF Upgrade
<1>3. CASE EnsureBegin
  <2>1. todo' \in Seq(Items)
    BY <1>3, OrderItems DEF EnsureBegin, TypeOK
  <2> QED BY <1>3, <1>t, <2>1, NoneType, TypeAssemble DEF EnsureBegin
<1>4. CASE EnsureDirectory
  <2>1. dirs' \in [Paths -> Modes]
    <3>1. Mode(Head(todo)) \in Modes /\ "raw" \in Modes
      BY ModeType DEF Modes
    <3> QED BY <1>4, <1>t, <3>1 DEF EnsureDirectory
  <2>2. todo' \in Seq(Items)
    <3>1. todo # <<>> /\ todo' \in {todo, Tail(todo)}
      BY <1>4 DEF EnsureDirectory
    <3>2. Tail(todo) \in Seq(Items)
      BY <1>t, <3>1, ToSetTail
    <3> QED BY <1>t, <3>1, <3>2
  <2>3. result' \in Results /\ pc' \in {"idle", "dirs"}
    BY <1>4, <1>t, ReturnType DEF EnsureDirectory
  <2> QED BY <1>4, <1>t, <2>1, <2>2, <2>3, TypeAssemble DEF EnsureDirectory
<1>5. CASE EnsureDefinition
  <2>1. result' \in Results /\ pc' \in {"idle", "reload", "show"}
    BY <1>5, <1>t, ReturnType DEF EnsureDefinition
  <2>2. def' \in 0..MaxSpec /\ ensured' \in BOOLEAN
    BY <1>5, <1>t DEF EnsureDefinition
  <2> QED BY <1>5, <1>t, <2>1, <2>2, TypeAssemble DEF EnsureDefinition, manager
<1>6. CASE EnsureReload
  <2>1. result' \in Results /\ pc' \in {"idle", "show"}
    BY <1>6, <1>t, ReturnType DEF EnsureReload
  <2>2. unit' \in 0..MaxSpec
    BY <1>6, <1>t DEF EnsureReload
  <2> QED BY <1>6, <1>t, <2>1, <2>2, TypeAssemble DEF EnsureReload
<1>7. CASE EnsureShow
  <2>1. result' \in Results /\ pc' = "idle"
    BY <1>7, ReturnType DEF EnsureShow
  <2>2. told' \in BOOLEAN
    BY <1>7, <1>t DEF EnsureShow
  <2> QED BY <1>7, <1>t, <2>1, <2>2, TypeAssemble DEF EnsureShow
<1>8. CASE Start
  <2>1. result' \in Results /\ pc' = "idle"
    BY <1>8, ReturnType DEF Start, StartSystemd, StartLaunchd
  <2>2. /\ unit' \in 0..MaxSpec /\ running' \in 0..MaxSpec
    BY <1>8, <1>t DEF Start, StartSystemd, StartLaunchd, Run, manager
  <2>3. /\ enabled' \in BOOLEAN /\ told' \in BOOLEAN
    BY <1>8, <1>t DEF Start, StartSystemd, StartLaunchd, Run, manager
  <2> QED BY <1>8, <1>t, <2>1, <2>2, <2>3, TypeAssemble DEF Start
<1>9. CASE Restart
  <2>1. result' \in Results /\ pc' = "idle"
    BY <1>9, ReturnType DEF Restart
  <2>2. /\ unit' \in 0..MaxSpec /\ running' \in 0..MaxSpec /\ told' \in BOOLEAN
    BY <1>9, <1>t DEF Restart, Run
  <2> QED BY <1>9, <1>t, <2>1, <2>2, TypeAssemble DEF Restart
<1>10. CASE Stop
  <2>1. result' \in Results /\ pc' = "idle"
    <3>1. (Platform = "linux" \/ unit # 0) \in BOOLEAN
      OBVIOUS
    <3> QED BY <1>10, <3>1, ReturnType DEF Stop
  <2>2. /\ unit' \in 0..MaxSpec /\ running' \in 0..MaxSpec
        /\ told' \in BOOLEAN /\ enabled' \in BOOLEAN
    BY <1>10, <1>t DEF Stop, StopCommands, Run, manager
  <2> QED BY <1>10, <1>t, <2>1, <2>2, TypeAssemble DEF Stop
<1>11. CASE UninstallStop
  <2>1. result' \in Results /\ pc' \in {"idle", "remove"}
    BY <1>11, ReturnType, NoneType DEF UninstallStop
  <2>2. /\ unit' \in 0..MaxSpec /\ running' \in 0..MaxSpec
        /\ told' \in BOOLEAN /\ enabled' \in BOOLEAN
    BY <1>11, <1>t DEF UninstallStop, StopCommands, Run, manager
  <2> QED BY <1>11, <1>t, <2>1, <2>2, TypeAssemble DEF UninstallStop
<1>12. CASE UninstallRemove
  <2>1. result' \in Results /\ pc' = "idle"
    BY <1>12, ReturnType DEF UninstallRemove
  <2>2. def' \in 0..MaxSpec /\ unit' \in 0..MaxSpec
    BY <1>12, <1>t DEF UninstallRemove
  <2>3. dirs' \in [Paths -> Modes]
    <3>1. \A gone : Removed(dirs, gone) \in [Paths -> Modes]
      BY <1>t DEF Removed, Modes
    <3> QED BY <1>12, <1>t, <3>1 DEF UninstallRemove
  <2> QED BY <1>12, <1>t, <2>1, <2>2, <2>3, TypeAssemble DEF UninstallRemove
<1>13. CASE Purge
  <2>0. PICK selected \in SUBSET {"config", "state", "logs"} :
           \E n, gone :
              /\ dirs' = Removed(dirs, gone)
              /\ result' = [op |-> "purge", ok |-> n = Len(PurgeOrder(selected)), selected |-> selected]
    BY ZenonT(30), <1>13 DEF Purge
  <2>1. PICK n, gone :
           /\ dirs' = Removed(dirs, gone)
           /\ result' = [op |-> "purge", ok |-> n = Len(PurgeOrder(selected)), selected |-> selected]
    BY <2>0
  <2>2. dirs' \in [Paths -> Modes]
    BY <1>t, <2>1 DEF Removed, Modes
  <2>3. result' \in Results
    <3>1. selected \in SUBSET Kinds /\ (n = Len(PurgeOrder(selected))) \in BOOLEAN
      BY DEF Kinds
    <3> QED BY <2>1, <3>1 DEF Results
  <2> QED BY <1>13, <1>t, <2>2, <2>3, TypeAssemble DEF Purge, manager
<1> QED BY <1>1, <1>2, <1>3, <1>4, <1>5, <1>6, <1>7, <1>8, <1>9, <1>10, <1>11, <1>12, <1>13 DEF Next

LEMMA TypeInit ==
  ASSUME Init
  PROVE  TypeOK
<1>1. want \in 1..MaxSpec /\ 0 \in 0..MaxSpec
  BY ServiceConstants DEF Init
<1>2. dirs \in [Paths -> Modes]
  BY DEF Init, Modes
<1>3. todo \in Seq(Items)
  BY DEF Init
<1>4. result \in Results
  BY NoneType DEF Init
<1> QED BY <1>1, <1>2, <1>3, <1>4 DEF Init, TypeOK, Modes, Items

-----------------------------------------------------------------------------
\* Directories are reconciled

\* Steps after which nothing is being reconciled and Ensure has not just succeeded.
LEMMA DirQuiet ==
  ASSUME pc' \in {"idle", "remove"}, pc' = "idle" \/ result' = None,
         result'.op = "ensure" => ~result'.ok
  PROVE  DirInv'
  BY DEF DirInv, UnderWay, Reconciling, Reconciled, DirsReconciled

LEMMA DirStep ==
  ASSUME TypeOK, DirInv, [Next]_vars
  PROVE  DirInv'
<1>s. /\ Order' = Order /\ Wanted' = Wanted /\ Paths' = Paths /\ (PathsDiffer' <=> PathsDiffer)
      /\ \A k : Path(k)' = Path(k) /\ Mode(k)' = Mode(k)
  BY SetupStays, SameSetup
<1>t. setup \in Setups /\ dirs \in [Paths -> Modes]
  BY DEF TypeOK, Modes
<1>p. \A k \in ToSet(Order) : Path(k) \in Paths /\ k \in Wanted
  BY OrderType DEF Paths, ToSet
<1>1. CASE UNCHANGED vars
  <2>1. /\ pc' = pc /\ result' = result /\ todo' = todo /\ dirs' = dirs
    BY <1>1 DEF vars
  <2> QED BY <1>s, <2>1 DEF DirInv, UnderWay, Reconciling, Reconciled, DirsReconciled
<1>2. CASE Upgrade
  BY <1>2, NoneType, DirQuiet DEF Upgrade
<1>3. CASE EnsureBegin
  <2>1. pc' = "dirs" /\ todo' = Order /\ result' = None
    BY <1>3 DEF EnsureBegin
  <2>2. Reconciling'
    BY <1>s, <2>1, OrderType DEF Reconciling
  <2> QED BY <2>1, <2>2, NoneType DEF DirInv, UnderWay, Reconciled, DirsReconciled
<1>4. CASE EnsureDirectory
  <2>1. pc = "dirs" /\ todo # <<>> /\ result = None
    BY <1>4 DEF EnsureDirectory, DirInv, UnderWay
  <2>2. todo \in Seq(Wanted)
    BY <2>1 DEF DirInv, Reconciling
  <2>3. CASE dirs' = [dirs EXCEPT ![Path(Head(todo))] = Mode(Head(todo))]
             /\ todo' = Tail(todo) /\ UNCHANGED <<pc, result>>
    <3>1. /\ Head(todo) \in Wanted /\ Tail(todo) \in Seq(Wanted)
          /\ \A x \in ToSet(todo) : x = Head(todo) \/ x \in ToSet(Tail(todo))
      BY <2>1, <2>2, ToSetTail
    <3>2. ASSUME PathsDiffer, NEW k \in ToSet(Order)
          PROVE  k \in ToSet(todo') \/ dirs'[Path(k)] = Mode(k)
      <4>1. Path(k) \in Paths /\ k \in Wanted
        BY <1>p
      <4>2. CASE k = Head(todo)
        BY <1>t, <2>3, <4>1, <4>2
      <4>3. CASE k # Head(todo)
        <5>1. Path(k) # Path(Head(todo))
          BY <1>t, <3>1, <3>2, <4>1, <4>3, WantedApart
        <5>2. dirs'[Path(k)] = dirs[Path(k)]
          BY <1>t, <2>3, <4>1, <5>1
        <5>3. k \in ToSet(todo) \/ dirs[Path(k)] = Mode(k)
          BY <2>1, <3>2 DEF DirInv, Reconciling
        <5> QED BY <2>3, <3>1, <4>3, <5>2, <5>3
      <4> QED BY <4>2, <4>3
    <3>3. Reconciling'
      <4>1. todo' \in Seq(Wanted)'
        BY <1>s, <2>3, <3>1
      <4>2. PathsDiffer' => \A k \in ToSet(Order)' : k \in ToSet(todo)' \/ (dirs[Path(k)] = Mode(k))'
        BY <1>s, <3>2
      <4> QED BY <4>1, <4>2 DEF Reconciling
    <3> QED BY <2>1, <2>3, <3>3, NoneType DEF DirInv, UnderWay, Reconciled, DirsReconciled
  <2>4. CASE Return("ensure", FALSE)
    <3>1. pc' = "idle" /\ result'.op = "ensure" /\ result'.ok = FALSE
      BY <2>4, ReturnType
    <3> QED BY <3>1, DirQuiet
  <2> QED BY <1>4, <2>3, <2>4 DEF EnsureDirectory
<1>5. CASE EnsureDefinition
  <2>1. pc = "dirs" /\ todo = <<>> /\ result = None /\ dirs' = dirs
    BY <1>5 DEF EnsureDefinition, DirInv, UnderWay
  <2>2. PathsDiffer => \A k \in ToSet(Order) : dirs[Path(k)] = Mode(k)
    <3>1. ToSet(todo) = {}
      BY <2>1 DEF ToSet
    <3> QED BY <2>1, <3>1 DEF DirInv, Reconciling
  <2>3. Reconciled' /\ DirsReconciled'
    BY <1>s, <2>1, <2>2 DEF Reconciled, DirsReconciled
  <2>4. (pc' = "idle" \/ (pc' \in {"reload", "show"} /\ result' = result))
    BY <1>5, ReturnType DEF EnsureDefinition
  <2> QED BY <2>1, <2>3, <2>4 DEF DirInv, UnderWay, Reconciling
<1>6. CASE EnsureReload
  <2>1. pc = "reload" /\ result = None /\ dirs' = dirs
    BY <1>6 DEF EnsureReload, DirInv, UnderWay
  <2>2. PathsDiffer => \A k \in ToSet(Order) : dirs[Path(k)] = Mode(k)
    BY <2>1 DEF DirInv, Reconciled
  <2>3. Reconciled' /\ DirsReconciled'
    BY <1>s, <2>1, <2>2 DEF Reconciled, DirsReconciled
  <2>4. (pc' = "idle" \/ (pc' = "show" /\ result' = result))
    BY <1>6, ReturnType DEF EnsureReload
  <2> QED BY <2>1, <2>3, <2>4 DEF DirInv, UnderWay, Reconciling
<1>7. CASE EnsureShow
  <2>1. pc = "show" /\ dirs' = dirs
    BY <1>7 DEF EnsureShow
  <2>2. PathsDiffer => \A k \in ToSet(Order) : dirs[Path(k)] = Mode(k)
    BY <2>1 DEF DirInv, Reconciled
  <2>3. Reconciled' /\ DirsReconciled'
    BY <1>s, <2>1, <2>2 DEF Reconciled, DirsReconciled
  <2>4. pc' = "idle"
    BY <1>7, ReturnType DEF EnsureShow
  <2> QED BY <2>3, <2>4 DEF DirInv, UnderWay, Reconciling
<1>8. CASE Start
  <2>1. pc' = "idle" /\ result'.op = "start"
    BY <1>8, ReturnType DEF Start, StartSystemd, StartLaunchd
  <2> QED BY <2>1, DirQuiet
<1>9. CASE Restart
  <2>1. pc' = "idle" /\ result'.op = "restart"
    BY <1>9, ReturnType DEF Restart
  <2> QED BY <2>1, DirQuiet
<1>10. CASE Stop
  <2>1. pc' = "idle" /\ result'.op = "stop"
    <3>1. (Platform = "linux" \/ unit # 0) \in BOOLEAN
      OBVIOUS
    <3> QED BY <1>10, <3>1, ReturnType DEF Stop
  <2> QED BY <2>1, DirQuiet
<1>11. CASE UninstallStop
  <2>1. \/ pc' = "idle" /\ result'.op = "uninstall"
        \/ pc' = "remove" /\ result' = None
    BY <1>11, ReturnType DEF UninstallStop
  <2> QED BY <2>1, NoneType, DirQuiet
<1>12. CASE UninstallRemove
  <2>1. pc' = "idle" /\ result'.op = "uninstall"
    BY <1>12, ReturnType DEF UninstallRemove
  <2> QED BY <2>1, DirQuiet
<1>13. CASE Purge
  <2>1. pc' = "idle" /\ result'.op = "purge"
    BY <1>13 DEF Purge
  <2> QED BY <2>1, DirQuiet
<1> QED BY <1>1, <1>2, <1>3, <1>4, <1>5, <1>6, <1>7, <1>8, <1>9, <1>10, <1>11, <1>12, <1>13 DEF Next

LEMMA DirInit ==
  ASSUME Init
  PROVE  DirInv
  BY NoneType DEF Init, DirInv, UnderWay, Reconciling, Reconciled, DirsReconciled

-----------------------------------------------------------------------------
\* The service manager follows

\* Steps that leave the definition, the manager and the specification alone and
\* return from no Restart, Stop or Uninstall that succeeded.
LEMMA ManagerQuiet ==
  ASSUME ManagerInv, setup' = setup,
         UNCHANGED <<want, def, unit, running, enabled, told>>,
         pc' = pc \/ (pc' \in {"idle", "dirs"} /\ pc # "reload" /\ pc # "show"),
         ensured' => ensured,
         pc' # "idle" => result' = None,
         result'.ok => result'.op \notin {"restart", "stop", "uninstall"}
  PROVE  ManagerInv'
<1>s. Platform' = Platform /\ Faults' = Faults /\ (Reliable' <=> Reliable)
  BY SameSetup
<1>1. Written' /\ UnderWay'
  BY DEF ManagerInv, Written, UnderWay
<1>2. ReadIn'
  BY <1>s DEF ManagerInv, ReadIn
<1>3. NothingLeft'
  BY <1>s DEF ManagerInv, NothingLeft
<1>4. RestartApplies' /\ StopStops'
  BY DEF RestartApplies, StopStops
<1> QED BY <1>1, <1>2, <1>3, <1>4 DEF ManagerInv

LEMMA ManagerStep ==
  ASSUME TypeOK, ManagerInv, [Next]_vars
  PROVE  ManagerInv'
<1>s. /\ Platform' = Platform /\ Faults' = Faults /\ (Reliable' <=> Reliable)
      /\ setup' = setup
  BY SetupStays, SameSetup
<1>t. /\ want \in 1..MaxSpec /\ want # 0
      /\ def \in 0..MaxSpec /\ unit \in 0..MaxSpec /\ running \in 0..MaxSpec
      /\ enabled \in BOOLEAN /\ ensured \in BOOLEAN /\ told \in BOOLEAN
      /\ Platform \in {"linux", "darwin"}
  BY SetupType, ServiceConstants DEF TypeOK
<1>r. Reliable => /\ Platform = "linux" /\ "command" \notin Faults /\ "sync" \notin Faults
                  /\ "query" \notin Faults
  BY DEF Reliable
<1>i. UnderWay /\ Written /\ ReadIn /\ NothingLeft /\ RestartApplies /\ StopStops
  BY DEF ManagerInv
<1>1. CASE UNCHANGED vars
  BY <1>1, <1>i, <1>s DEF vars, ManagerInv, UnderWay, Written, ReadIn, NothingLeft,
     RestartApplies, StopStops
<1>2. CASE Upgrade
  <2>1. /\ pc = "idle" /\ pc' = "idle" /\ ensured' = FALSE /\ result' = None /\ result'.op = "none"
        /\ UNCHANGED <<def, unit, running, enabled, told>>
    BY <1>2, NoneType DEF Upgrade
  <2>2. Written' /\ UnderWay'
    BY <2>1 DEF Written, UnderWay
  <2>3. ReadIn'
    BY <1>i, <1>s, <2>1 DEF ReadIn
  <2>4. NothingLeft'
    BY <1>i, <1>s, <2>1 DEF NothingLeft
  <2> QED BY <2>1, <2>2, <2>3, <2>4 DEF ManagerInv, RestartApplies, StopStops
<1>3. CASE EnsureBegin
  <2>1. /\ pc = "idle" /\ pc' = "dirs" /\ ensured' = FALSE /\ result' = None /\ result'.op = "none"
        /\ UNCHANGED <<want, def, unit, running, enabled, told>>
    BY <1>3, NoneType DEF EnsureBegin
  <2> QED BY <1>s, <2>1, ManagerQuiet
<1>4. CASE EnsureDirectory
  <2>1. /\ pc = "dirs" /\ ensured' = ensured
        /\ UNCHANGED <<want, def, unit, running, enabled, told>>
    BY <1>4 DEF EnsureDirectory
  <2>2. result = None /\ result.op = "none"
    BY <1>i, <2>1, NoneType DEF UnderWay
  <2>3. \/ pc' = "dirs" /\ result' = None
        \/ pc' = "idle" /\ result'.op = "ensure"
    BY <1>4, <2>1, <2>2, ReturnType DEF EnsureDirectory
  <2> QED BY <1>s, <2>1, <2>2, <2>3, ManagerQuiet
<1>5. CASE EnsureDefinition
  <2>1. /\ pc = "dirs" /\ UNCHANGED <<want, unit, running, enabled, told>>
    BY <1>5 DEF EnsureDefinition, manager
  <2>2. result = None /\ result.op = "none"
    BY <1>i, <2>1, NoneType DEF UnderWay
  <2>3. CASE def' = def /\ pc' = "idle" /\ result'.op = "ensure" /\ ensured' = ensured
    BY <1>s, <2>1, <2>3, ManagerQuiet
  <2>4. CASE def' = def /\ pc' = "idle" /\ result'.op = "ensure" /\ def = want
    <3>1. Written' /\ UnderWay'
      BY <2>1, <2>4 DEF Written, UnderWay
    <3>2. ReadIn'
      BY <1>i, <1>s, <2>1, <2>4 DEF ReadIn
    <3>3. NothingLeft'
      BY <1>i, <1>s, <2>1, <2>4 DEF NothingLeft
    <3> QED BY <2>4, <3>1, <3>2, <3>3 DEF ManagerInv, RestartApplies, StopStops
  <2>5. CASE /\ def' = want /\ pc' = (IF Platform = "linux" THEN "reload" ELSE "show")
             /\ UNCHANGED <<ensured, result>>
    <3>1. Written' /\ UnderWay'
      BY <1>t, <2>1, <2>2, <2>5 DEF Written, UnderWay
    <3>2. ReadIn'
      BY <1>i, <1>r, <1>s, <2>1, <2>5 DEF ReadIn
    <3>3. NothingLeft'
      BY <1>i, <1>s, <1>t, <2>1, <2>5 DEF NothingLeft
    <3> QED BY <2>2, <2>5, <3>1, <3>2, <3>3 DEF ManagerInv, RestartApplies, StopStops
  <2>6. CASE def' = want /\ pc' = "idle" /\ result'.op = "ensure" /\ "sync" \in Faults
             /\ ensured' = ensured
    <3>1. Written' /\ UnderWay'
      BY <1>i, <2>1, <2>6 DEF Written, UnderWay
    <3>2. ReadIn'
      BY <1>r, <1>s, <2>6 DEF ReadIn
    <3>3. NothingLeft'
      BY <1>s, <1>t, <2>1, <2>6 DEF NothingLeft
    <3> QED BY <2>6, <3>1, <3>2, <3>3 DEF ManagerInv, RestartApplies, StopStops
  <2>7. Return("ensure", TRUE) \/ Return("ensure", FALSE) => pc' = "idle" /\ result'.op = "ensure"
    BY ReturnType
  <2>8. \/ def = want /\ Return("ensure", TRUE) /\ def' = def
        \/ /\ def' = want /\ pc' = (IF Platform = "linux" THEN "reload" ELSE "show")
           /\ UNCHANGED <<ensured, result>>
        \/ Return("ensure", FALSE) /\ UNCHANGED <<def, ensured>>
        \/ "sync" \in Faults /\ def' = want /\ Return("ensure", FALSE) /\ ensured' = ensured
    BY <1>5 DEF EnsureDefinition
  <2> QED BY <2>3, <2>4, <2>5, <2>6, <2>7, <2>8
<1>6. CASE EnsureReload
  <2>1. /\ pc = "reload" /\ UNCHANGED <<want, def, running, enabled, told, ensured>>
    BY <1>6 DEF EnsureReload
  <2>2. result = None /\ result.op = "none"
    BY <1>i, <2>1, NoneType DEF UnderWay
  <2>3. \/ unit' = def /\ pc' = "show" /\ result' = result
        \/ "command" \in Faults /\ pc' = "idle" /\ result'.op = "ensure" /\ unit' = unit
    BY <1>6, ReturnType DEF EnsureReload
  <2>4. Written' /\ UnderWay'
    BY <1>i, <2>1, <2>2, <2>3 DEF Written, UnderWay
  <2>5. ReadIn'
    BY <1>r, <1>s, <2>1, <2>3 DEF ReadIn
  <2>6. NothingLeft'
    BY <1>i, <1>s, <2>1, <2>3 DEF NothingLeft
  <2> QED BY <2>2, <2>3, <2>4, <2>5, <2>6 DEF ManagerInv, RestartApplies, StopStops
<1>7. CASE EnsureShow
  <2>1. /\ pc = "show" /\ UNCHANGED <<want, def, unit, running, enabled>>
        /\ pc' = "idle" /\ result'.op = "ensure"
    BY <1>7, ReturnType DEF EnsureShow
  <2>2. told' = (told \/ unit # 0) \/ ("query" \in Faults /\ told' = told)
    BY <1>7 DEF EnsureShow
  <2>3. def = want
    BY <1>i, <2>1 DEF Written
  <2>4. Written' /\ UnderWay'
    BY <2>1, <2>3 DEF Written, UnderWay
  <2>5. ReadIn'
    <3>1. SUFFICES ASSUME Reliable
                   PROVE  unit' = def' /\ (running' \in {0, def'} \/ told')
      BY <1>s, <2>1 DEF ReadIn
    <3>2. unit = def
      BY <1>i, <2>1, <3>1 DEF ReadIn
    <3> QED BY <1>r, <1>t, <2>1, <2>2, <2>3, <3>1, <3>2
  <2>6. NothingLeft'
    BY <1>i, <1>s, <2>1 DEF NothingLeft
  <2> QED BY <2>1, <2>4, <2>5, <2>6 DEF ManagerInv, RestartApplies, StopStops
<1>8. CASE Start
  <2>1. pc = "idle" /\ pc' = "idle" /\ result'.op = "start" /\ UNCHANGED <<want, def, ensured>>
    BY <1>8, ReturnType DEF Start, StartSystemd, StartLaunchd
  <2>2. Written' /\ UnderWay'
    BY <1>i, <2>1 DEF Written, UnderWay
  <2>3. ReadIn'
    BY <1>8, <1>i, <1>r, <1>s, <2>1 DEF ReadIn, Start, StartSystemd, StartLaunchd, Run, manager
  <2>4. NothingLeft'
    BY <1>8, <1>i, <1>s, <2>1 DEF NothingLeft, Start, StartSystemd, StartLaunchd, Run, manager
  <2> QED BY <2>1, <2>2, <2>3, <2>4 DEF ManagerInv, RestartApplies, StopStops
<1>9. CASE Restart
  <2>1. /\ pc = "idle" /\ pc' = "idle" /\ result'.op = "restart"
        /\ UNCHANGED <<want, def, enabled, ensured>>
    BY <1>9, ReturnType DEF Restart
  <2>2. Written' /\ UnderWay'
    BY <1>i, <2>1 DEF Written, UnderWay
  <2>3. ReadIn'
    <3>1. SUFFICES ASSUME Reliable
                   PROVE  unit' = def /\ (running' \in {0, def} \/ told')
      BY <1>s, <2>1 DEF ReadIn
    <3>2. unit = def /\ (running \in {0, def} \/ told)
      BY <1>i, <2>1, <3>1 DEF ReadIn
    <3>3. \/ unit' = (IF unit = 0 THEN def ELSE unit) /\ running' = unit'
          \/ UNCHANGED <<unit, running, told>>
      BY <1>9, <1>r, <3>1 DEF Restart, Run
    <3> QED BY <3>2, <3>3
  <2>4. NothingLeft'
    <3>1. SUFFICES ASSUME "command" \notin Faults, def = 0
                   PROVE  running' = 0 /\ unit' = 0 /\ (Platform = "linux" => ~enabled')
      BY <1>s, <2>1 DEF NothingLeft
    <3>2. running = 0 /\ unit = 0 /\ (Platform = "linux" => ~enabled)
      BY <1>i, <3>1 DEF NothingLeft
    <3>3. UNCHANGED <<unit, running>>
      BY <1>9, <3>1, <3>2 DEF Restart
    <3> QED BY <2>1, <3>2, <3>3
  <2>5. RestartApplies'
    <3>1. SUFFICES ASSUME Reliable, result'.ok, ensured
                   PROVE  running' = want
      BY <1>s, <2>1 DEF RestartApplies
    <3>2. unit = def /\ def = want
      BY <1>i, <2>1, <3>1 DEF ReadIn, Written
    <3>3. running' = unit' /\ unit' = (IF unit = 0 THEN def ELSE unit)
      BY <1>9, <3>1, ReturnType DEF Restart, Run
    <3> QED BY <3>2, <3>3
  <2> QED BY <2>1, <2>2, <2>3, <2>4, <2>5 DEF ManagerInv, StopStops
<1>10. CASE Stop
  <2>1. pc = "idle" /\ pc' = "idle" /\ result'.op = "stop" /\ UNCHANGED <<want, def, ensured>>
    <3>1. (Platform = "linux" \/ unit # 0) \in BOOLEAN
      OBVIOUS
    <3> QED BY <1>10, <3>1, ReturnType DEF Stop
  <2>2. Written' /\ UnderWay'
    BY <1>i, <2>1 DEF Written, UnderWay
  <2>3. ReadIn'
    BY <1>10, <1>i, <1>r, <1>s, <2>1 DEF ReadIn, Stop, StopCommands, Run, manager
  <2>4. NothingLeft'
    BY <1>10, <1>i, <1>s, <2>1 DEF NothingLeft, Stop, StopCommands, Run, manager
  <2>5. StopStops'
    BY <1>10, <1>i, <1>s DEF StopStops, NothingLeft, Stop, StopCommands, Run, manager
  <2> QED BY <2>1, <2>2, <2>3, <2>4, <2>5 DEF ManagerInv, RestartApplies
<1>11. CASE UninstallStop
  <2>1. /\ pc = "idle" /\ ensured' = FALSE /\ UNCHANGED <<want, def>>
        /\ \/ pc' = "idle" /\ result'.op = "uninstall" /\ ~result'.ok
           \/ pc' = "remove" /\ result' = None /\ result'.op = "none"
    BY <1>11, ReturnType, NoneType DEF UninstallStop
  <2>2. Written' /\ UnderWay'
    BY <2>1 DEF Written, UnderWay
  <2>3. ReadIn'
    BY <1>11, <1>i, <1>r, <1>s, <2>1 DEF ReadIn, UninstallStop, StopCommands, Run, manager
  <2>4. NothingLeft'
    BY <1>11, <1>i, <1>s, <1>t, <2>1 DEF NothingLeft, UninstallStop, StopCommands, Run, manager
  <2> QED BY <2>1, <2>2, <2>3, <2>4 DEF ManagerInv, RestartApplies, StopStops
<1>12. CASE UninstallRemove
  <2>1. /\ pc = "remove" /\ pc' = "idle" /\ result'.op = "uninstall"
        /\ UNCHANGED <<want, running, enabled, told, ensured>>
    BY <1>12, ReturnType DEF UninstallRemove
  <2>2. /\ def' \in {0, def}
        /\ \/ unit' = (IF Platform = "linux" /\ running = 0 THEN 0 ELSE unit) /\ def' = 0
           \/ unit' = unit /\ ("command" \in Faults \/ def' = def)
    BY <1>12 DEF UninstallRemove
  <2>3. Written' /\ UnderWay'
    BY <1>i, <2>1 DEF Written, UnderWay
  <2>4. ReadIn'
    BY <1>i, <1>r, <1>s, <2>1, <2>2 DEF ReadIn, NothingLeft
  <2>5. NothingLeft'
    BY <1>i, <1>s, <1>t, <2>1, <2>2 DEF NothingLeft
  <2>6. StopStops'
    BY <1>i, <1>s, <2>1 DEF StopStops, NothingLeft
  <2> QED BY <2>1, <2>3, <2>4, <2>5, <2>6 DEF ManagerInv, RestartApplies
<1>13. CASE Purge
  <2>1. /\ pc = "idle" /\ pc' = "idle" /\ result'.op = "purge"
        /\ UNCHANGED <<want, def, unit, running, enabled, told, ensured>>
    BY <1>13 DEF Purge, manager
  <2> QED BY <1>s, <2>1, ManagerQuiet
<1> QED BY <1>1, <1>2, <1>3, <1>4, <1>5, <1>6, <1>7, <1>8, <1>9, <1>10, <1>11, <1>12, <1>13 DEF Next

LEMMA ManagerInit ==
  ASSUME Init
  PROVE  ManagerInv
  BY NoneType DEF Init, ManagerInv, UnderWay, Written, ReadIn, NothingLeft, RestartApplies, StopStops

LEMMA ManagerFollowsFrom ==
  ASSUME ManagerInv
  PROVE  ManagerFollows
  BY DEF ManagerInv, Written, ReadIn, ManagerFollows, RestartTold, RestartToldAfterFailure

-----------------------------------------------------------------------------
\* Directories are removed only when asked for

LEMMA ToSetConcat ==
  ASSUME NEW S, NEW s \in Seq(S), NEW t \in Seq(S)
  PROVE  ToSet(s) \subseteq ToSet(s \o t) /\ ToSet(t) \subseteq ToSet(s \o t)
<1>1. /\ s \o t \in Seq(S) /\ Len(s \o t) = Len(s) + Len(t) /\ Len(s) \in Nat /\ Len(t) \in Nat
      /\ DOMAIN s = 1..Len(s) /\ DOMAIN t = 1..Len(t) /\ DOMAIN (s \o t) = 1..(Len(s) + Len(t))
  OBVIOUS
<1>2. ASSUME NEW i \in 1..Len(s) PROVE s[i] \in ToSet(s \o t)
  <2>1. i \in 1..(Len(s) + Len(t)) /\ (s \o t)[i] = s[i]
    BY <1>1
  <2> QED BY <1>1, <2>1 DEF ToSet
<1>3. ASSUME NEW i \in 1..Len(t) PROVE t[i] \in ToSet(s \o t)
  <2>1. Len(s) + i \in 1..(Len(s) + Len(t)) /\ (s \o t)[Len(s) + i] = t[i]
    BY <1>1
  <2> QED BY <1>1, <2>1 DEF ToSet
<1> QED BY <1>1, <1>2, <1>3 DEF ToSet

LEMMA OptionalIs ==
  ASSUME NEW k, NEW K
  PROVE  Optional(k, K) \in Seq(K) /\ (k \in K => k \in ToSet(Optional(k, K)))
<1>1. CASE k \in K
  <2>1. <<k>> \in Seq(K) /\ DOMAIN <<k>> = 1..1 /\ <<k>>[1] = k
    BY <1>1
  <2>2. k \in ToSet(<<k>>)
    BY <2>1 DEF ToSet
  <2> QED BY <1>1, <2>1, <2>2 DEF Optional
<1>2. CASE k \notin K
  BY <1>2 DEF Optional
<1> QED BY <1>1, <1>2

\* Every managed directory has its place in the order.
LEMMA OrderCovers ==
  ASSUME setup \in Setups
  PROVE  \A k \in Managed : k \in ToSet(Order) /\ Path(k) \in Paths
<1> DEFINE a == Optional("config", Managed)
           b == Optional("runtime", Managed)
           c == Optional("state", Managed)
           d == IF "logs" \in Managed THEN <<"logs", "logfile">> ELSE <<>>
<1>1. a \in Seq(Items) /\ b \in Seq(Items) /\ c \in Seq(Items)
  <2>1. \A k : Optional(k, Managed) \in Seq(Managed)
    BY OptionalIs
  <2>2. Managed \subseteq Items
    BY SetupType DEF Items
  <2> QED BY <2>1, <2>2
<1>2. d \in Seq(Items) /\ ("logs" \in Managed => "logs" \in ToSet(d))
  <2>1. <<"logs", "logfile">> \in Seq(Items)
    BY DEF Items, Kinds
  <2>2. "logs" \in ToSet(<<"logs", "logfile">>)
    BY DEF ToSet
  <2>3. <<>> \in Seq(Items)
    OBVIOUS
  <2> QED BY <2>1, <2>2, <2>3
<1>3. /\ "config" \in Managed => "config" \in ToSet(a)
      /\ "runtime" \in Managed => "runtime" \in ToSet(b)
      /\ "state" \in Managed => "state" \in ToSet(c)
  BY OptionalIs
<1>4. Order = a \o b \o c \o d
  BY DEF Order
<1> HIDE DEF a, b, c, d
<1>5. a \o b \in Seq(Items) /\ a \o b \o c \in Seq(Items)
  BY <1>1
<1>6. ToSet(a) \subseteq ToSet(a \o b) /\ ToSet(b) \subseteq ToSet(a \o b)
  BY <1>1, ToSetConcat
<1>7. ToSet(a \o b) \subseteq ToSet(a \o b \o c) /\ ToSet(c) \subseteq ToSet(a \o b \o c)
  BY <1>1, <1>5, ToSetConcat
<1>8. ToSet(a \o b \o c) \subseteq ToSet(Order) /\ ToSet(d) \subseteq ToSet(Order)
  BY <1>2, <1>4, <1>5, ToSetConcat
<1>9. \A k \in Managed : k \in {"config", "runtime", "state", "logs"}
  BY SetupType DEF Kinds
<1>10. \A k \in Managed : k \in ToSet(Order)
  BY <1>2, <1>3, <1>6, <1>7, <1>8, <1>9
<1> QED BY <1>10 DEF Paths

LEMMA PurgeOrderType ==
  ASSUME NEW selected
  PROVE  PurgeOrder(selected) \in Seq(selected)
<1> DEFINE a == Optional("config", selected)
           b == Optional("state", selected)
           c == Optional("logs", selected)
<1>1. a \in Seq(selected) /\ b \in Seq(selected) /\ c \in Seq(selected)
  BY OptionalIs
<1>2. PurgeOrder(selected) = a \o b \o c
  BY DEF PurgeOrder
<1> HIDE DEF a, b, c
<1> QED BY <1>1, <1>2

\* What one step may do to a directory that is there.
AskedFor(k) ==
    \/ k = "runtime" /\ result'.op = "uninstall"
    \/ result'.op = "purge" /\ k \in result'.selected

LEMMA RemovedStep ==
  ASSUME TypeOK, [Next]_vars, PathsDiffer, NEW k \in Protected,
         dirs[Path(k)] # "absent", dirs'[Path(k)] = "absent"
  PROVE  AskedFor(k)
<1>t. setup \in Setups /\ dirs \in [Paths -> Modes]
  BY DEF TypeOK, Modes
<1>k. k \in Managed /\ Path(k) \in Paths /\ (Scope = "User" => k # "runtime")
  BY <1>t, OrderCovers DEF Protected
<1>g. ASSUME NEW gone, dirs' = Removed(dirs, gone) PROVE Path(k) \in gone
  BY <1>g, <1>k DEF Removed
<1>1. dirs' # dirs
  OBVIOUS
<1>2. CASE EnsureDirectory
  <2>1. \/ dirs' = [dirs EXCEPT ![Path(Head(todo))] = Mode(Head(todo))]
        \/ dirs' = [dirs EXCEPT ![Path(Head(todo))] = "raw"]
    BY <1>1, <1>2 DEF EnsureDirectory
  <2>2. Mode(Head(todo)) # "absent"
    BY ModeType
  <2> QED BY <1>k, <1>t, <2>1, <2>2
<1>3. CASE UninstallRemove
  <2>1. "runtime" \in Managed /\ dirs' = Removed(dirs, Below(Path("runtime")))
    BY <1>1, <1>3 DEF UninstallRemove
  <2>2. Path(k) \in Below(Path("runtime"))
    BY <1>g, <2>1
  <2>3. k = "runtime"
    BY <1>t, <1>k, <2>1, <2>2, BelowIs
  <2>4. result'.op = "uninstall"
    BY <1>3, ReturnType DEF UninstallRemove
  <2> QED BY <2>3, <2>4 DEF AskedFor
<1>4. CASE Purge
  <2> DEFINE seq(sel) == PurgeOrder(sel)
             done(sel, n) == UNION {Below(Path(seq(sel)[i])) : i \in 1..n}
             half(sel, n) == IF n < Len(seq(sel)) /\ seq(sel)[n + 1] \in Managed
                             THEN Below(Path(seq(sel)[n + 1])) \ {Path(seq(sel)[n + 1])} ELSE {}
  <2>1. PICK selected \in SUBSET {"config", "state", "logs"} :
          /\ PurgeAccepts(selected)
          /\ \E n \in 0..Len(seq(selected)) :
               /\ \A i \in 1..n : seq(selected)[i] \in Managed
               /\ \E more \in SUBSET half(selected, n) :
                     dirs' = Removed(dirs, done(selected, n) \cup more)
               /\ result' = [op |-> "purge", ok |-> n = Len(seq(selected)), selected |-> selected]
    BY <1>4, Zenon DEF Purge
  <2> HIDE DEF done, half
  <2>2. PICK n \in 0..Len(seq(selected)) :
               /\ \A i \in 1..n : seq(selected)[i] \in Managed
               /\ \E more \in SUBSET half(selected, n) :
                     dirs' = Removed(dirs, done(selected, n) \cup more)
               /\ result' = [op |-> "purge", ok |-> n = Len(seq(selected)), selected |-> selected]
    BY <2>1
  <2>3. PICK more \in SUBSET half(selected, n) : dirs' = Removed(dirs, done(selected, n) \cup more)
    BY <2>2
  <2>4. Path(k) \in done(selected, n) \/ Path(k) \in half(selected, n)
    BY <1>g, <2>3
  <2>5. seq(selected) \in Seq(selected)
    BY PurgeOrderType
  <2> HIDE DEF seq
  <2>6. \E i \in 1..Len(seq(selected)) :
           seq(selected)[i] \in Managed /\ Path(k) \in Below(Path(seq(selected)[i]))
    <3>1. CASE Path(k) \in half(selected, n)
      <4>1. /\ n < Len(seq(selected)) /\ seq(selected)[n + 1] \in Managed
            /\ Path(k) \in Below(Path(seq(selected)[n + 1]))
        BY <3>1 DEF half
      <4>2. n + 1 \in 1..Len(seq(selected))
        BY <2>5, <4>1
      <4> QED BY <4>1, <4>2
    <3>2. CASE Path(k) \in done(selected, n)
      <4>1. PICK i \in 1..n : Path(k) \in Below(Path(seq(selected)[i]))
        BY <3>2 DEF done
      <4>2. i \in 1..Len(seq(selected)) /\ seq(selected)[i] \in Managed
        BY <2>2, <2>5
      <4> QED BY <4>1, <4>2
    <3> QED BY <2>4, <3>1, <3>2
  <2>7. PICK i \in 1..Len(seq(selected)) :
          seq(selected)[i] \in Managed /\ Path(k) \in Below(Path(seq(selected)[i]))
    BY <2>6
  <2>8. seq(selected)[i] \in selected
    BY <2>5
  <2>9. k = seq(selected)[i] \/ (Scope = "User" /\ seq(selected)[i] = "config")
    BY <1>t, <1>k, <2>7, BelowIs
  <2>10. k \in selected
    <3>1. CASE Scope = "User" /\ seq(selected)[i] = "config"
      <4>1. ({"state", "logs"} \cap Managed) \subseteq selected /\ "config" \in selected
        BY <2>1, <2>8, <3>1 DEF PurgeAccepts
      <4>2. k \in {"config", "state", "logs"}
        BY <1>k, <1>t, <3>1, SetupType DEF Kinds
      <4> QED BY <1>k, <4>1, <4>2
    <3> QED BY <2>8, <2>9, <3>1
  <2>11. result'.op = "purge" /\ result'.selected = selected
    BY <2>2
  <2> QED BY <2>10, <2>11 DEF AskedFor
<1> QED BY <1>1, <1>2, <1>3, <1>4 DEF Next, vars, Upgrade, EnsureBegin, EnsureDefinition,
           EnsureReload, EnsureShow, Start, Restart, Stop, UninstallStop

-----------------------------------------------------------------------------
\* The theorems

\* Every variable has its type, whatever fails while the service is set up,
\* changed and removed.
THEOREM ServiceTypes == Spec => []TypeOK
<1>1. Init => TypeOK
  BY TypeInit
<1>2. TypeOK /\ [Next]_vars => TypeOK'
  BY TypeStep
<1> QED BY <1>1, <1>2, PTL DEF Spec

\* When Ensure succeeds every managed directory and log file has the mode that
\* reconcileDirectories gives it, whatever earlier attempts, Uninstall and Purge
\* left behind, for every installation whose paths differ.
THEOREM EnsureReconciles == Spec => []DirsReconciled
<1>1. Init => DirInv
  BY DirInit
<1>2. TypeOK /\ DirInv /\ [Next]_vars => DirInv'
  BY DirStep
<1>3. DirInv => DirsReconciled
  BY DEF DirInv
<1> QED BY <1>1, <1>2, <1>3, ServiceTypes, PTL DEF Spec

\* Under a systemd that does what it is asked, the caller of Ensure has been told
\* to restart a process that runs another definition, and Restart then runs the
\* new one; where no command fails, Stop and Uninstall leave nothing running.
THEOREM ManagerIsFollowed == Spec => []ManagerFollows
<1>1. Init => ManagerInv
  BY ManagerInit
<1>2. TypeOK /\ ManagerInv /\ [Next]_vars => ManagerInv'
  BY ManagerStep
<1>3. ManagerInv => ManagerFollows
  BY ManagerFollowsFrom
<1> QED BY <1>1, <1>2, <1>3, ServiceTypes, PTL DEF Spec

\* Uninstall takes only the runtime directory and Purge only what was selected,
\* nested directories included, also when removing stops half way.
THEOREM OnlyAskedRemoved == Spec => RemovesOnlyAsked
<1>1. TypeOK /\ [Next]_vars =>
        [PathsDiffer =>
           \A k \in Protected : dirs[Path(k)] # "absent" /\ dirs'[Path(k)] = "absent" =>
             \/ k = "runtime" /\ result'.op = "uninstall"
             \/ result'.op = "purge" /\ k \in result'.selected]_vars
  BY RemovedStep DEF AskedFor
<1> QED BY <1>1, ServiceTypes, PTL DEF Spec, RemovesOnlyAsked

-----------------------------------------------------------------------------
\* Linux

LinuxPC == {"idle", "group", "mutate", "mkdir", "own", "verify"}
LinuxCall == [pc : LinuxPC, present : BOOLEAN, before : SUBSET Linux!Fields,
              changed : SUBSET Linux!Changes, ok : BOOLEAN, made : BOOLEAN]

\* What no step of a caller takes back: records that exist, attributes that
\* agree, a home.
Advances ==
    /\ policy' = policy
    /\ account.exists => account'.exists
    /\ account.agree \subseteq account'.agree
    /\ group.exists => group'.exists
    /\ group.gid => group'.gid
    /\ home # "absent" => home' # "absent"

\* A caller that is past the group has found or made it, with its GID; only
\* one that reconciles has found the account, which is there since; what it found to differ is named
\* by the specification; and what it has recorded is in effect.
CallerSound(c) ==
    /\ call[c].pc \in {"mutate", "mkdir", "own", "verify"} => group.exists /\ group.gid
    /\ call[c].pc # "idle" /\ call[c].present => account.exists /\ ~Linux!StopsAtDrift
    /\ call[c].before \subseteq Linux!SpecFields
    /\ call[c].pc # "idle" => \A f \in call[c].changed : Linux!InEffect(f)
    /\ call[c].pc # "idle" => ~call[c].ok

\* Nothing agrees of an account that does not exist.
NoneAgrees == ~account.exists => account.agree = {}

LinuxInv ==
    /\ Linux!TypeOK
    /\ NoneAgrees
    /\ \A c \in Callers : CallerSound(c)
    /\ Linux!SuccessAgrees

LEMMA AdvancesKeeps ==
  ASSUME Linux!TypeOK, Linux!TypeOK', Advances
  PROVE  /\ Linux!SpecFields' = Linux!SpecFields
         /\ Linux!StopsAtDrift' <=> Linux!StopsAtDrift
         /\ Linux!Agreeing \subseteq Linux!Agreeing'
         /\ Linux!found = {} => Linux!found' = {}
         /\ \A f \in Linux!Changes : Linux!InEffect(f) => Linux!InEffect(f)'
<1>1. Linux!SpecFields' = Linux!SpecFields /\ (Linux!StopsAtDrift' <=> Linux!StopsAtDrift)
  BY DEF Advances, Linux!SpecFields, Linux!StopsAtDrift
<1>2. Linux!Agreeing \subseteq Linux!Agreeing'
  BY DEF Advances, Linux!Agreeing
<1>3. Linux!found = {} => Linux!found' = {}
  BY <1>1, <1>2 DEF Advances, Linux!found, Linux!compare, Linux!HomeMissing
<1>4. \A f \in Linux!Changes : Linux!InEffect(f) => Linux!InEffect(f)'
  BY <1>2 DEF Advances, Linux!InEffect, Linux!Changes, Linux!Fields
<1> QED BY <1>1, <1>2, <1>3, <1>4

LEMMA LinuxMoves ==
  ASSUME Linux!TypeOK, NEW c \in Callers, NEW r \in LinuxCall, call' = [call EXCEPT ![c] = r]
  PROVE  /\ call' \in [Callers -> LinuxCall] /\ call'[c] = r
         /\ \A d \in Callers \ {c} : call'[d] = call[d]
  BY DEF Linux!TypeOK, LinuxCall, LinuxPC

LEMMA LinuxReturns ==
  ASSUME Linux!TypeOK, NEW c \in Callers, NEW ok \in BOOLEAN, NEW ch \in SUBSET Linux!Changes,
         Linux!Return(c, ok, ch)
  PROVE  /\ call' \in [Callers -> LinuxCall]
         /\ call'[c] = [pc |-> "idle", present |-> FALSE, before |-> {},
                        changed |-> ch, ok |-> ok, made |-> FALSE]
         /\ \A d \in Callers \ {c} : call'[d] = call[d]
<1> DEFINE r == [pc |-> "idle", present |-> FALSE, before |-> {},
                 changed |-> ch, ok |-> ok, made |-> FALSE]
<1>1. r \in LinuxCall
  BY DEF LinuxCall, LinuxPC
<1>2. call' = [call EXCEPT ![c] = r]
  BY DEF Linux!Return
<1> HIDE DEF r
<1>3. QED BY <1>1, <1>2, LinuxMoves DEF r

LEMMA LinuxContinues ==
  ASSUME Linux!TypeOK, NEW c \in Callers, NEW next \in LinuxPC, NEW ch \in SUBSET Linux!Changes,
         Linux!Continue(c, next, ch)
  PROVE  /\ call' \in [Callers -> LinuxCall]
         /\ call'[c] = [call[c] EXCEPT !.pc = next, !.changed = call[c].changed \cup ch]
         /\ \A d \in Callers \ {c} : call'[d] = call[d]
<1> DEFINE r == [call[c] EXCEPT !.pc = next, !.changed = call[c].changed \cup ch]
<1>1. r \in LinuxCall
  BY ZenonT(30) DEF LinuxCall, Linux!TypeOK, LinuxPC
<1>2. call' = [call EXCEPT ![c] = r]
  BY DEF Linux!Continue, Linux!TypeOK
<1> HIDE DEF r
<1>3. QED BY <1>1, <1>2, LinuxMoves DEF r

\* A step of a caller: the machine only advances, the other callers are where
\* they were, and the caller itself is sound if it has not returned.
LinuxStepOf(c) ==
    /\ Linux!TypeOK' /\ Advances /\ NoneAgrees'
    /\ drifts' = drifts
    /\ \A d \in Callers \ {c} : call'[d] = call[d]
    /\ CallerSound(c)'
    /\ call'[c].ok => account'.exists /\ Linux!found' = {}
    /\ call[c].pc # "idle" /\ call'[c].pc = "idle" =>
         \A f \in call'[c].changed : Linux!InEffect(f)'
    /\ policy.existing = "Verify" /\ account.exists => account' = account

LEMMA LinuxLookup ==
  ASSUME Linux!AccountConstants, LinuxInv, NEW c \in Callers, Linux!Lookup(c)
  PROVE  LinuxStepOf(c)
<1> USE DEF LinuxInv
<1>1. /\ UNCHANGED <<policy, account, group, home, drifts>>
      /\ call[c].pc = "idle" /\ ~call[c].ok
  BY DEF Linux!Lookup, Linux!machine
<1>2. Advances /\ NoneAgrees'
  BY <1>1 DEF Advances, NoneAgrees
<1>3. /\ Linux!SpecFields' = Linux!SpecFields /\ (Linux!StopsAtDrift' <=> Linux!StopsAtDrift)
      /\ Linux!found' = Linux!found
  BY <1>1 DEF Linux!SpecFields, Linux!StopsAtDrift, Linux!found, Linux!compare, Linux!Agreeing,
              Linux!HomeMissing
<1>4. /\ Linux!compare \subseteq Linux!SpecFields /\ Linux!SpecFields \subseteq Linux!Fields
      /\ Linux!found \subseteq Linux!Changes
  BY DEF Linux!compare, Linux!found, Linux!SpecFields, Linux!Changes
<1>5. CASE \E ok \in BOOLEAN, ch \in SUBSET Linux!Changes :
             /\ Linux!Return(c, ok, ch) /\ faults' \in 0..MaxFaults
             /\ ok => account.exists /\ Linux!found = {}
  <2>1. PICK ok \in BOOLEAN, ch \in SUBSET Linux!Changes :
             /\ Linux!Return(c, ok, ch) /\ faults' \in 0..MaxFaults
             /\ ok => account.exists /\ Linux!found = {}
    BY <1>5
  <2>2. /\ call' \in [Callers -> LinuxCall]
        /\ call'[c] = [pc |-> "idle", present |-> FALSE, before |-> {},
                       changed |-> ch, ok |-> ok, made |-> FALSE]
        /\ \A d \in Callers \ {c} : call'[d] = call[d]
    BY <2>1, LinuxReturns
  <2>3. Linux!TypeOK'
    BY <1>1, <2>1, <2>2 DEF Linux!TypeOK, LinuxCall, LinuxPC
  <2>4. CallerSound(c)'
    BY <2>2 DEF CallerSound
  <2> QED BY <1>1, <1>2, <1>3, <2>1, <2>2, <2>3, <2>4 DEF LinuxStepOf
<1>6. ASSUME NEW r \in LinuxCall, call' = [call EXCEPT ![c] = r], faults' \in 0..MaxFaults,
             r.pc = "group", r.changed = {}, ~r.ok, r.before \subseteq Linux!SpecFields,
             r.present => account.exists /\ ~Linux!StopsAtDrift
      PROVE  LinuxStepOf(c)
  <2>1. /\ call' \in [Callers -> LinuxCall] /\ call'[c] = r
        /\ \A d \in Callers \ {c} : call'[d] = call[d]
    BY <1>6, LinuxMoves
  <2>2. Linux!TypeOK'
    BY <1>1, <1>6, <2>1 DEF Linux!TypeOK, LinuxCall, LinuxPC
  <2>3. CallerSound(c)'
    BY <1>1, <1>3, <1>6, <2>1 DEF CallerSound
  <2> QED BY <1>1, <1>2, <1>6, <2>1, <2>2, <2>3 DEF LinuxStepOf
<1>9. faults \in 0..MaxFaults /\ (faults < MaxFaults => faults + 1 \in 0..MaxFaults)
  BY DEF Linux!TypeOK, Linux!AccountConstants
<1>7. CASE /\ UNCHANGED faults \/ (faults < MaxFaults /\ faults' = faults + 1)
           /\ call' = [call EXCEPT ![c] = [@ EXCEPT !.pc = "group", !.present = FALSE, !.changed = {}]]
  <2> DEFINE r == [call[c] EXCEPT !.pc = "group", !.present = FALSE, !.changed = {}]
  <2>1. /\ r \in LinuxCall /\ r.pc = "group" /\ r.changed = {} /\ ~r.present
        /\ r.before = call[c].before /\ (r.ok <=> call[c].ok)
    BY ZenonT(30) DEF LinuxCall, LinuxPC, Linux!TypeOK
  <2>2. call' = [call EXCEPT ![c] = r]
    BY <1>7
  <2>3. call[c].before \subseteq Linux!SpecFields
    BY DEF CallerSound
  <2> HIDE DEF r
  <2>4. faults' \in 0..MaxFaults
    BY <1>7, <1>9
  <2> QED BY <1>1, <1>6, <2>1, <2>2, <2>3, <2>4
<1>8. CASE account.exists /\ ~Linux!StopsAtDrift /\ UNCHANGED faults
             /\ call' = [call EXCEPT ![c] = [@ EXCEPT !.pc = "group", !.present = TRUE,
                                             !.before = Linux!compare, !.changed = {}]]
  <2> DEFINE r == [call[c] EXCEPT !.pc = "group", !.present = TRUE, !.before = Linux!compare,
                                  !.changed = {}]
  <2>1. /\ r \in LinuxCall /\ r.pc = "group" /\ r.changed = {}
        /\ r.before = Linux!compare /\ (r.ok <=> call[c].ok)
    BY ZenonT(30), <1>4 DEF LinuxCall, LinuxPC, Linux!TypeOK
  <2>2. call' = [call EXCEPT ![c] = r]
    BY <1>8
  <2> HIDE DEF r
  <2> QED BY <1>1, <1>4, <1>6, <1>8, <1>9, <2>1, <2>2
<1>10. CASE account.exists /\ Linux!found = {} /\ Linux!Return(c, TRUE, {}) /\ UNCHANGED faults
  BY <1>5, <1>9, <1>10
<1>11. CASE Linux!Return(c, FALSE, Linux!found) /\ UNCHANGED faults
  BY <1>4, <1>5, <1>9, <1>11
<1>12. CASE /\ faults < MaxFaults /\ faults' = faults + 1
            /\ \E differ \in {{}, Linux!compare} :
                 Linux!Return(c, FALSE, IF account.exists THEN differ ELSE {})
  <2>1. PICK differ \in {{}, Linux!compare} :
          Linux!Return(c, FALSE, IF account.exists THEN differ ELSE {})
    BY <1>12
  <2>2. (IF account.exists THEN differ ELSE {}) \in SUBSET Linux!Changes
    BY <1>4 DEF Linux!Changes
  <2> QED BY <1>5, <1>9, <1>12, <2>1, <2>2
<1>13. QED BY <1>7, <1>8, <1>10, <1>11, <1>12 DEF Linux!Lookup

\* What a step of a caller that is under way does to the machine.
MachineMoves ==
    /\ account' \in [exists : BOOLEAN, agree : SUBSET (Linux!Fields \ {"gid"})]
    /\ group' \in [exists : BOOLEAN, gid : BOOLEAN]
    /\ home' \in {"absent", "made", "owned"}
    /\ UNCHANGED drifts
    /\ Advances /\ NoneAgrees'
    /\ policy.existing = "Verify" /\ account.exists => account' = account

LEMMA LinuxFailing ==
  ASSUME Linux!AccountConstants, LinuxInv, NEW c \in Callers, call[c].pc # "idle",
         MachineMoves, Linux!Fails(c)
  PROVE  LinuxStepOf(c)
<1> USE DEF LinuxInv
<1>1. call[c].changed \in SUBSET Linux!Changes /\ faults \in 0..MaxFaults
  BY DEF Linux!TypeOK
<1>2. faults' \in 0..MaxFaults
  BY <1>1 DEF Linux!AccountConstants, Linux!Fails
<1>3. /\ call' \in [Callers -> LinuxCall]
      /\ call'[c] = [pc |-> "idle", present |-> FALSE, before |-> {},
                     changed |-> call[c].changed, ok |-> FALSE, made |-> FALSE]
      /\ \A d \in Callers \ {c} : call'[d] = call[d]
  BY <1>1, LinuxReturns DEF Linux!Fails
<1>4. Linux!TypeOK'
  BY <1>2, <1>3 DEF Linux!TypeOK, LinuxCall, LinuxPC, MachineMoves, Advances
<1>5. CallerSound(c)'
  BY <1>3 DEF CallerSound
<1>6. \A f \in call'[c].changed : Linux!InEffect(f)'
  <2>1. \A f \in call[c].changed : Linux!InEffect(f)
    BY DEF CallerSound
  <2> QED BY <1>1, <1>3, <1>4, <2>1, AdvancesKeeps DEF MachineMoves
<1> QED BY <1>3, <1>4, <1>5, <1>6 DEF LinuxStepOf, MachineMoves

LEMMA LinuxGoing ==
  ASSUME Linux!AccountConstants, LinuxInv, NEW c \in Callers, call[c].pc # "idle",
         MachineMoves, UNCHANGED faults,
         NEW r \in LinuxCall, call' = [call EXCEPT ![c] = r],
         r.pc # "idle", r.present <=> call[c].present, r.before = call[c].before,
         r.ok <=> call[c].ok,
         r.pc \in {"mutate", "mkdir", "own", "verify"} => group'.exists /\ group'.gid,
         \A f \in r.changed \ call[c].changed : Linux!InEffect(f)'
  PROVE  LinuxStepOf(c)
<1> USE DEF LinuxInv
<1>1. /\ call' \in [Callers -> LinuxCall] /\ call'[c] = r
      /\ \A d \in Callers \ {c} : call'[d] = call[d]
  BY LinuxMoves
<1>2. Linux!TypeOK'
  BY <1>1 DEF Linux!TypeOK, LinuxCall, LinuxPC, MachineMoves, Advances
<1>3. CallerSound(c)
  OBVIOUS
<1>4. /\ Linux!SpecFields' = Linux!SpecFields
      /\ Linux!StopsAtDrift' <=> Linux!StopsAtDrift
      /\ \A f \in Linux!Changes : Linux!InEffect(f) => Linux!InEffect(f)'
  BY <1>2, AdvancesKeeps DEF MachineMoves
<1>5. call[c].changed \in SUBSET Linux!Changes
  BY DEF Linux!TypeOK
<1>6. \A f \in r.changed : Linux!InEffect(f)'
  BY <1>3, <1>4, <1>5 DEF CallerSound
<1>7. CallerSound(c)'
  BY <1>1, <1>3, <1>4, <1>6 DEF CallerSound, MachineMoves, Advances
<1> QED BY <1>1, <1>2, <1>3, <1>7 DEF LinuxStepOf, MachineMoves, CallerSound

LEMMA LinuxContinuing ==
  ASSUME Linux!AccountConstants, LinuxInv, NEW c \in Callers, call[c].pc # "idle",
         MachineMoves, UNCHANGED faults,
         NEW next \in {"mutate", "mkdir", "own", "verify"}, NEW ch \in SUBSET Linux!Changes,
         Linux!Continue(c, next, ch), group'.exists /\ group'.gid,
         \A f \in ch : Linux!InEffect(f)'
  PROVE  LinuxStepOf(c)
<1> DEFINE r == [call[c] EXCEPT !.pc = next, !.changed = call[c].changed \cup ch]
<1>1. /\ r \in LinuxCall /\ r.pc = next /\ (r.present <=> call[c].present)
      /\ r.before = call[c].before /\ (r.ok <=> call[c].ok) /\ r.changed = call[c].changed \cup ch
  BY ZenonT(30) DEF LinuxInv, LinuxCall, Linux!TypeOK, LinuxPC
<1>2. call' = [call EXCEPT ![c] = r]
  BY DEF Linux!Continue, Linux!TypeOK, LinuxInv
<1> HIDE DEF r
<1> QED BY <1>1, <1>2, LinuxGoing

\* A step that leaves the machine alone.
LEMMA MachineStays ==
  ASSUME LinuxInv, UNCHANGED <<policy, account, group, drifts>>,
         home' \in {"absent", "made", "owned"}, home # "absent" => home' # "absent"
  PROVE  MachineMoves
  BY DEF LinuxInv, MachineMoves, Advances, NoneAgrees, Linux!TypeOK

LEMMA LinuxEnsureGroup ==
  ASSUME Linux!AccountConstants, LinuxInv, NEW c \in Callers, Linux!EnsureGroup(c)
  PROVE  LinuxStepOf(c)
<1>1. call[c].pc # "idle" /\ UNCHANGED <<policy, account, drifts>>
  BY DEF Linux!EnsureGroup
<1>2. /\ group \in [exists : BOOLEAN, gid : BOOLEAN] /\ home \in {"absent", "made", "owned"}
      /\ account \in [exists : BOOLEAN, agree : SUBSET (Linux!Fields \ {"gid"})]
  BY DEF LinuxInv, Linux!TypeOK
<1>3. CASE UNCHANGED <<group, home>>
  <2>1. MachineMoves
    BY <1>1, <1>2, <1>3, MachineStays
  <2>2. CASE Linux!Fails(c)
    BY <1>1, <2>1, <2>2, LinuxFailing
  <2>3. CASE group = [exists |-> TRUE, gid |-> TRUE] /\ Linux!Continue(c, "mutate", {}) /\ UNCHANGED faults
    BY <1>1, <1>3, <2>1, <2>3, LinuxContinuing
  <2>4. ASSUME group = [exists |-> TRUE, gid |-> FALSE], group' = [group EXCEPT !.gid = TRUE]
        PROVE  FALSE
    BY <1>2, <1>3, <2>4
  <2>5. ASSUME ~group.exists, group' = [exists |-> TRUE, gid |-> TRUE]
        PROVE  FALSE
    BY <1>2, <1>3, <2>5
  <2> QED BY <2>2, <2>3, <2>4, <2>5 DEF Linux!EnsureGroup
<1>4. CASE /\ group' = [exists |-> TRUE, gid |-> TRUE]
           /\ home' \in {"absent", "made", "owned"} /\ (home # "absent" => home' # "absent")
           /\ \/ /\ \E ch \in {{}, {"group record"}} : Linux!Continue(c, "mutate", ch)
                 /\ UNCHANGED faults
              \/ Linux!Fails(c)
  <2>1. MachineMoves
    BY <1>1, <1>2, <1>4 DEF MachineMoves, Advances, NoneAgrees, LinuxInv
  <2>2. Linux!InEffect("group record")'
    BY <1>4 DEF Linux!InEffect
  <2>3. CASE (\E ch \in {{}, {"group record"}} : Linux!Continue(c, "mutate", ch)) /\ UNCHANGED faults
    <3>1. PICK ch \in {{}, {"group record"}} : Linux!Continue(c, "mutate", ch)
      BY <2>3
    <3>2. ch \in SUBSET Linux!Changes /\ \A f \in ch : Linux!InEffect(f)'
      BY <2>2 DEF Linux!Changes
    <3> QED BY <1>1, <1>4, <2>1, <2>3, <3>1, <3>2, LinuxContinuing
  <2> QED BY <1>1, <1>4, <2>1, <2>3, LinuxFailing
<1>5. CASE /\ group = [exists |-> TRUE, gid |-> FALSE]
           /\ group' = [group EXCEPT !.gid = TRUE]
           /\ home' = IF "group" \in account.agree /\ home = "owned" THEN "made" ELSE home
           /\ \/ Linux!Continue(c, "mutate", {}) /\ UNCHANGED faults
              \/ Linux!Fails(c)
  <2>1. group' = [exists |-> TRUE, gid |-> TRUE]
    BY <1>5
  <2> QED BY <1>2, <1>4, <1>5, <2>1
<1> QED BY <1>2, <1>3, <1>4, <1>5 DEF Linux!EnsureGroup

LEMMA AfterAccountIs ==
  Linux!AfterAccount \in {"mkdir", "verify"}
  BY DEF Linux!AfterAccount

LEMMA LinuxCreate ==
  ASSUME Linux!AccountConstants, LinuxInv, NEW c \in Callers, Linux!Create(c)
  PROVE  LinuxStepOf(c)
<1>1. call[c].pc = "mutate" /\ UNCHANGED <<policy, group, drifts>>
  BY DEF Linux!Create
<1>2. /\ group \in [exists : BOOLEAN, gid : BOOLEAN] /\ home \in {"absent", "made", "owned"}
      /\ account \in [exists : BOOLEAN, agree : SUBSET (Linux!Fields \ {"gid"})]
  BY DEF LinuxInv, Linux!TypeOK
<1>3. group.exists /\ group.gid
  BY <1>1 DEF LinuxInv, CallerSound
<1>4. CASE /\ ~account.exists
           /\ account' = [exists |-> TRUE, agree |-> Linux!Fields \ {"gid"}]
           /\ home' \in {home, "made"}
           /\ \/ Linux!Continue(c, Linux!AfterAccount, Linux!creationChanges) /\ UNCHANGED faults
              \/ Linux!Fails(c)
  <2>1. MachineMoves
    BY <1>1, <1>2, <1>4 DEF MachineMoves, Advances, NoneAgrees
  <2>2. account'.exists /\ "group" \in account'.agree /\ group'.gid
    BY <1>1, <1>3, <1>4 DEF Linux!Fields
  <2>3. Linux!Fields \subseteq Linux!Agreeing'
    BY <1>4, <2>2 DEF Linux!Agreeing
  <2>4. \A f \in Linux!creationChanges : Linux!InEffect(f)'
    BY <2>2, <2>3 DEF Linux!creationChanges, Linux!SpecFields, Linux!InEffect, Linux!Fields
  <2>5. Linux!creationChanges \in SUBSET Linux!Changes
    BY DEF Linux!creationChanges, Linux!SpecFields, Linux!Changes
  <2>6. CASE Linux!Continue(c, Linux!AfterAccount, Linux!creationChanges) /\ UNCHANGED faults
    BY <1>1, <1>3, <2>1, <2>4, <2>5, <2>6, LinuxContinuing, AfterAccountIs
  <2> QED BY <1>1, <1>4, <2>1, <2>6, LinuxFailing
<1>5. CASE Linux!Fails(c) /\ UNCHANGED <<account, home>>
  BY <1>1, <1>2, <1>5, MachineStays, LinuxFailing
<1>6. CASE Linux!Return(c, FALSE, call[c].changed) /\ UNCHANGED <<account, home, faults>>
  <2>1. call[c].changed \in SUBSET Linux!Changes
    BY DEF LinuxInv, Linux!TypeOK
  <2>2. MachineMoves
    BY <1>1, <1>2, <1>6, MachineStays
  <2>3. /\ call' \in [Callers -> LinuxCall]
        /\ call'[c] = [pc |-> "idle", present |-> FALSE, before |-> {},
                       changed |-> call[c].changed, ok |-> FALSE, made |-> FALSE]
        /\ \A d \in Callers \ {c} : call'[d] = call[d]
    BY <1>6, <2>1, LinuxReturns DEF LinuxInv
  <2>4. Linux!TypeOK'
    BY <1>6, <2>2, <2>3 DEF Linux!TypeOK, LinuxCall, LinuxPC, MachineMoves, Advances, LinuxInv
  <2>5. CallerSound(c)'
    BY <2>3 DEF CallerSound
  <2>6. \A f \in call'[c].changed : Linux!InEffect(f)'
    <3>1. \A f \in call[c].changed : Linux!InEffect(f)
      BY <1>1 DEF CallerSound, LinuxInv
    <3> QED BY <2>1, <2>2, <2>3, <2>4, <3>1, AdvancesKeeps DEF MachineMoves, LinuxInv
  <2> QED BY <2>2, <2>3, <2>4, <2>5, <2>6 DEF LinuxStepOf, MachineMoves
<1> QED BY <1>2, <1>4, <1>5, <1>6 DEF Linux!Create

LEMMA LinuxModify ==
  ASSUME Linux!AccountConstants, LinuxInv, NEW c \in Callers, Linux!Modify(c)
  PROVE  LinuxStepOf(c)
<1>1. /\ call[c].pc = "mutate" /\ call[c].present
      /\ UNCHANGED <<policy, group, home, drifts>>
  BY DEF Linux!Modify
<1>2. /\ group \in [exists : BOOLEAN, gid : BOOLEAN] /\ home \in {"absent", "made", "owned"}
      /\ account \in [exists : BOOLEAN, agree : SUBSET (Linux!Fields \ {"gid"})]
      /\ Linux!SpecFields \subseteq Linux!Fields
  BY DEF LinuxInv, Linux!TypeOK, Linux!SpecFields
<1>3. /\ group.exists /\ group.gid /\ account.exists
      /\ policy.existing # "Verify"
      /\ call[c].before \subseteq Linux!SpecFields
  BY <1>1 DEF LinuxInv, CallerSound, Linux!StopsAtDrift
<1>4. CASE /\ account' = [account EXCEPT !.agree = @ \cup (Linux!SpecFields \ {"gid"})]
           /\ \/ Linux!Continue(c, Linux!AfterAccount, call[c].before) /\ UNCHANGED faults
              \/ Linux!Fails(c)
  <2>1. /\ account' \in [exists : BOOLEAN, agree : SUBSET (Linux!Fields \ {"gid"})]
        /\ account'.agree = account.agree \cup (Linux!SpecFields \ {"gid"})
        /\ account'.exists <=> account.exists
    BY <1>2, <1>4
  <2>2. MachineMoves
    BY <1>1, <1>2, <1>3, <2>1 DEF MachineMoves, Advances, NoneAgrees
  <2>3. Linux!SpecFields \subseteq Linux!Agreeing'
    BY <1>1, <1>3, <2>1 DEF Linux!Agreeing, Linux!SpecFields, Linux!Fields
  <2>4. \A f \in call[c].before : Linux!InEffect(f)'
    BY <1>2, <1>3, <2>3 DEF Linux!InEffect, Linux!Fields
  <2>5. call[c].before \in SUBSET Linux!Changes
    BY <1>2, <1>3 DEF Linux!Changes
  <2>6. CASE Linux!Continue(c, Linux!AfterAccount, call[c].before) /\ UNCHANGED faults
    BY <1>1, <1>3, <2>2, <2>4, <2>5, <2>6, LinuxContinuing, AfterAccountIs
  <2> QED BY <1>1, <1>4, <2>2, <2>6, LinuxFailing
<1>5. CASE Linux!Fails(c) /\ UNCHANGED account
  BY <1>1, <1>2, <1>5, MachineStays, LinuxFailing
<1> QED BY <1>4, <1>5 DEF Linux!Modify

LEMMA LinuxMakeHome ==
  ASSUME Linux!AccountConstants, LinuxInv, NEW c \in Callers, Linux!MakeHome(c)
  PROVE  LinuxStepOf(c)
<1>1. call[c].pc = "mkdir" /\ UNCHANGED <<policy, account, group, drifts>>
  BY DEF Linux!MakeHome
<1>2. group.exists /\ group.gid /\ home \in {"absent", "made", "owned"}
  BY <1>1 DEF LinuxInv, CallerSound, Linux!TypeOK
<1>3. CASE /\ home' = "made" /\ UNCHANGED faults
           /\ call' = [call EXCEPT ![c].pc = "own", ![c].made = TRUE]
  <2> DEFINE r == [call[c] EXCEPT !.pc = "own", !.made = TRUE]
  <2>1. /\ r \in LinuxCall /\ r.pc = "own" /\ (r.present <=> call[c].present)
        /\ r.before = call[c].before /\ (r.ok <=> call[c].ok) /\ r.changed = call[c].changed
    BY ZenonT(30) DEF LinuxInv, LinuxCall, Linux!TypeOK, LinuxPC
  <2>2. call' = [call EXCEPT ![c] = r]
    BY <1>3 DEF LinuxInv, Linux!TypeOK
  <2>3. MachineMoves
    BY <1>1, <1>3, MachineStays
  <2> HIDE DEF r
  <2> QED BY <1>1, <1>2, <1>3, <2>1, <2>2, <2>3, LinuxGoing
<1>4. CASE Linux!Continue(c, "own", {}) /\ UNCHANGED <<home, faults>>
  BY <1>1, <1>2, <1>4, MachineStays, LinuxContinuing
<1>5. CASE Linux!Fails(c) /\ UNCHANGED home
  BY <1>1, <1>2, <1>5, MachineStays, LinuxFailing
<1> QED BY <1>3, <1>4, <1>5 DEF Linux!MakeHome

LEMMA LinuxOwnHome ==
  ASSUME Linux!AccountConstants, LinuxInv, NEW c \in Callers, Linux!OwnHome(c)
  PROVE  LinuxStepOf(c)
<1>1. call[c].pc = "own" /\ UNCHANGED <<policy, account, group, drifts>>
  BY DEF Linux!OwnHome
<1>2. group.exists /\ group.gid /\ home \in {"absent", "made", "owned"}
  BY <1>1 DEF LinuxInv, CallerSound, Linux!TypeOK
<1>3. CASE /\ home' = "owned" /\ UNCHANGED faults
           /\ Linux!Continue(c, "verify", IF call[c].made THEN {"home directory"} ELSE {})
  <2>1. MachineMoves
    BY <1>1, <1>3, MachineStays
  <2> DEFINE ch == IF call[c].made THEN {"home directory"} ELSE {}
  <2>2. ch \in SUBSET Linux!Changes /\ \A f \in ch : f = "home directory"
    BY DEF Linux!Changes
  <2>3. Linux!InEffect("home directory")'
    BY <1>3 DEF Linux!InEffect
  <2>4. Linux!Continue(c, "verify", ch)
    BY <1>3
  <2> HIDE DEF ch
  <2>5. \A f \in ch : Linux!InEffect(f)'
    BY <2>2, <2>3
  <2> QED BY <1>1, <1>2, <1>3, <2>1, <2>2, <2>4, <2>5, LinuxContinuing
<1>4. CASE Linux!Fails(c) /\ UNCHANGED home
  BY <1>1, <1>2, <1>4, MachineStays, LinuxFailing
<1> QED BY <1>3, <1>4 DEF Linux!OwnHome

LEMMA LinuxVerifyAgain ==
  ASSUME Linux!AccountConstants, LinuxInv, NEW c \in Callers, Linux!VerifyAgain(c)
  PROVE  LinuxStepOf(c)
<1>1. call[c].pc = "verify" /\ UNCHANGED <<policy, account, group, home, drifts>>
  BY DEF Linux!VerifyAgain, Linux!machine
<1>2. MachineMoves
  BY <1>1, MachineStays DEF LinuxInv, Linux!TypeOK
<1>3. CASE Linux!Return(c, Linux!found = {}, call[c].changed) /\ UNCHANGED faults
  <2>1. call[c].changed \in SUBSET Linux!Changes
    BY DEF LinuxInv, Linux!TypeOK
  <2> DEFINE ok == Linux!found = {}
  <2>2. ok \in BOOLEAN /\ Linux!Return(c, ok, call[c].changed)
    BY <1>3
  <2>3. ok => account'.exists /\ Linux!found' = {}
    <3>1. Linux!found' = Linux!found
      BY <1>1 DEF Linux!SpecFields, Linux!found, Linux!compare, Linux!Agreeing, Linux!HomeMissing
    <3>2. Linux!found = {} => "group" \in account.agree
      BY DEF Linux!SpecFields, Linux!found, Linux!compare, Linux!Agreeing, Linux!Fields
    <3> QED BY <1>1, <3>1, <3>2 DEF LinuxInv, NoneAgrees
  <2> HIDE DEF ok
  <2>4. /\ call' \in [Callers -> LinuxCall]
        /\ call'[c] = [pc |-> "idle", present |-> FALSE, before |-> {},
                       changed |-> call[c].changed, ok |-> ok, made |-> FALSE]
        /\ \A d \in Callers \ {c} : call'[d] = call[d]
    BY <2>1, <2>2, LinuxReturns DEF LinuxInv
  <2>5. Linux!TypeOK'
    BY <1>2, <1>3, <2>4 DEF Linux!TypeOK, LinuxCall, LinuxPC, MachineMoves, Advances, LinuxInv
  <2>6. CallerSound(c)'
    BY <2>4 DEF CallerSound
  <2>7. \A f \in call'[c].changed : Linux!InEffect(f)'
    <3>1. \A f \in call[c].changed : Linux!InEffect(f)
      BY <1>1 DEF CallerSound, LinuxInv
    <3> QED BY <1>2, <2>1, <2>4, <2>5, <3>1, AdvancesKeeps DEF MachineMoves, LinuxInv
  <2> QED BY <1>2, <2>3, <2>4, <2>5, <2>6, <2>7 DEF LinuxStepOf, MachineMoves
<1>4. CASE Linux!Fails(c)
  BY <1>1, <1>2, <1>4, LinuxFailing
<1> QED BY <1>3, <1>4 DEF Linux!VerifyAgain

LEMMA LinuxEnsure ==
  ASSUME Linux!AccountConstants, LinuxInv, NEW c \in Callers, Linux!Ensure(c)
  PROVE  LinuxStepOf(c)
  BY LinuxLookup, LinuxEnsureGroup, LinuxCreate, LinuxModify, LinuxMakeHome, LinuxOwnHome,
     LinuxVerifyAgain DEF Linux!Ensure

\* What a step of one caller leaves sound is sound for the others.
LEMMA LinuxStepKeeps ==
  ASSUME LinuxInv, NEW c \in Callers, LinuxStepOf(c)
  PROVE  LinuxInv'
<1>1. Linux!TypeOK' /\ Advances /\ NoneAgrees'
  BY DEF LinuxStepOf
<1>2. /\ Linux!SpecFields' = Linux!SpecFields
      /\ Linux!StopsAtDrift' <=> Linux!StopsAtDrift
      /\ Linux!found = {} => Linux!found' = {}
      /\ \A f \in Linux!Changes : Linux!InEffect(f) => Linux!InEffect(f)'
  BY <1>1, AdvancesKeeps DEF LinuxInv
<1>3. ASSUME NEW d \in Callers
      PROVE  CallerSound(d)'
  <2>1. CASE d = c
    BY <2>1 DEF LinuxStepOf
  <2>2. CASE d # c
    <3>1. call'[d] = call[d]
      BY <2>2 DEF LinuxStepOf
    <3>2. call[d].changed \subseteq Linux!Changes /\ CallerSound(d)
      BY DEF LinuxInv, Linux!TypeOK
    <3> QED BY <1>1, <1>2, <3>1, <3>2 DEF CallerSound, Advances
  <2> QED BY <2>1, <2>2
<1>4. Linux!SuccessAgrees'
  <2> SUFFICES ASSUME NEW d \in Callers, call'[d].ok
               PROVE  account'.exists /\ Linux!found' = {}
    BY DEF Linux!SuccessAgrees
  <2>1. CASE d = c
    BY <2>1 DEF LinuxStepOf
  <2>2. CASE d # c
    BY <1>1, <1>2, <2>2 DEF LinuxStepOf, LinuxInv, Linux!SuccessAgrees, Advances
  <2> QED BY <2>1, <2>2
<1> QED BY <1>1, <1>3, <1>4 DEF LinuxInv

LEMMA DriftCounts ==
  ASSUME Linux!AccountConstants, LinuxInv, Linux!Drift
  PROVE  drifts' \in 0..MaxDrifts /\ drifts' # drifts
<1>1. MaxDrifts \in Nat /\ drifts \in 0..MaxDrifts
  BY DEF LinuxInv, Linux!TypeOK, Linux!AccountConstants
<1>2. drifts < MaxDrifts /\ drifts' = drifts + 1
  BY DEF Linux!Drift
<1> QED BY <1>1, <1>2

LEMMA LinuxDrift ==
  ASSUME Linux!AccountConstants, LinuxInv, Linux!Drift
  PROVE  LinuxInv'
<1> USE DEF LinuxInv
<1>1. /\ drifts' \in 0..MaxDrifts
      /\ policy' = policy /\ faults' = faults
      /\ \A c \in Callers : call[c].pc = "idle"
  BY DriftCounts DEF Linux!Drift
<1>2. /\ call' \in [Callers -> LinuxCall]
      /\ \A c \in Callers : /\ call'[c].pc = "idle" /\ ~call'[c].ok
                            /\ call'[c].before = call[c].before
  <2>1. call' = [c \in Callers |-> [call[c] EXCEPT !.ok = FALSE, !.changed = {}]]
    BY DEF Linux!Drift
  <2>2. ASSUME NEW c \in Callers
        PROVE  LET r == [call[c] EXCEPT !.ok = FALSE, !.changed = {}] IN
               /\ r \in LinuxCall /\ r.pc = "idle" /\ ~r.ok /\ r.before = call[c].before
    BY ZenonT(30), <1>1, <2>2 DEF LinuxCall, LinuxPC, Linux!TypeOK
  <2> QED BY <2>1, <2>2
<1>3. /\ account' \in [exists : BOOLEAN, agree : SUBSET (Linux!Fields \ {"gid"})]
      /\ account'.exists <=> account.exists
      /\ account'.agree \subseteq account.agree
      /\ group' \in [exists : BOOLEAN, gid : BOOLEAN]
      /\ home' \in {"absent", "made", "owned"}
  <2>1. CASE /\ UNCHANGED <<group, home>>
             /\ account.exists
             /\ \E f \in {"group", "attrs", "home"} : account' = [account EXCEPT !.agree = @ \ {f}]
    <3>1. PICK f \in {"group", "attrs", "home"} : account' = [account EXCEPT !.agree = @ \ {f}]
      BY <2>1
    <3> QED BY <2>1, <3>1 DEF Linux!TypeOK
  <2>2. CASE group' = [group EXCEPT !.gid = FALSE] /\ UNCHANGED <<account, home>>
    BY <2>2 DEF Linux!TypeOK
  <2>3. CASE home' = "absent" /\ UNCHANGED <<account, group>>
    BY <2>3 DEF Linux!TypeOK
  <2> QED BY <2>1, <2>2, <2>3 DEF Linux!Drift
<1>4. Linux!TypeOK'
  BY <1>1, <1>2, <1>3 DEF Linux!TypeOK, LinuxCall, LinuxPC
<1>5. NoneAgrees' /\ Linux!SuccessAgrees'
  BY <1>2, <1>3 DEF NoneAgrees, Linux!SuccessAgrees
<1>6. \A c \in Callers : CallerSound(c)'
  <2>1. Linux!SpecFields' = Linux!SpecFields
    BY <1>1 DEF Linux!SpecFields
  <2> QED BY <1>2, <2>1 DEF CallerSound
<1> QED BY <1>4, <1>5, <1>6

LEMMA LinuxUnchanged ==
  ASSUME LinuxInv, UNCHANGED linuxVars
  PROVE  LinuxInv'
<1>1. UNCHANGED <<policy, account, group, home, faults, drifts, call>>
  BY DEF linuxVars
<1>2. Linux!TypeOK' /\ NoneAgrees'
  BY <1>1 DEF LinuxInv, Linux!TypeOK, NoneAgrees
<1>3. /\ Linux!SpecFields' = Linux!SpecFields
      /\ Linux!StopsAtDrift' <=> Linux!StopsAtDrift
      /\ Linux!found = {} => Linux!found' = {}
      /\ \A f \in Linux!Changes : Linux!InEffect(f) => Linux!InEffect(f)'
  BY <1>1, <1>2, AdvancesKeeps DEF LinuxInv, Advances
<1>4. \A c \in Callers : CallerSound(c)'
  <2>1. \A c \in Callers : call[c].changed \subseteq Linux!Changes /\ CallerSound(c)
    BY DEF LinuxInv, Linux!TypeOK
  <2> QED BY <1>1, <1>3, <2>1 DEF CallerSound
<1>5. Linux!SuccessAgrees'
  BY <1>1, <1>3 DEF LinuxInv, Linux!SuccessAgrees
<1> QED BY <1>2, <1>4, <1>5 DEF LinuxInv

LEMMA LinuxInit ==
  ASSUME Linux!AccountConstants, Linux!Init
  PROVE  LinuxInv
<1>1. Linux!TypeOK
  <2>1. 0 \in 0..MaxFaults /\ 0 \in 0..MaxDrifts
    BY DEF Linux!AccountConstants
  <2>2. call \in [Callers -> LinuxCall]
    BY DEF Linux!Init, LinuxCall, LinuxPC
  <2>3. account \in [exists : BOOLEAN, agree : SUBSET (Linux!Fields \ {"gid"})]
    BY DEF Linux!Init
  <2>4. group \in [exists : BOOLEAN, gid : BOOLEAN]
    <3>1. /\ [exists |-> FALSE, gid |-> FALSE] \in [exists : BOOLEAN, gid : BOOLEAN]
          /\ [exists |-> TRUE, gid |-> FALSE] \in [exists : BOOLEAN, gid : BOOLEAN]
          /\ [exists |-> TRUE, gid |-> TRUE] \in [exists : BOOLEAN, gid : BOOLEAN]
      OBVIOUS
    <3> QED BY <3>1, Zenon DEF Linux!Init
  <2> QED BY <2>1, <2>2, <2>3, <2>4 DEF Linux!Init, Linux!TypeOK, LinuxCall, LinuxPC
<1> QED BY <1>1 DEF Linux!Init, LinuxInv, NoneAgrees, CallerSound, Linux!SuccessAgrees

LEMMA LinuxNext ==
  ASSUME Linux!AccountConstants, LinuxInv, [Linux!Next]_linuxVars
  PROVE  LinuxInv'
<1>1. CASE \E c \in Callers : Linux!Ensure(c)
  BY <1>1, LinuxEnsure, LinuxStepKeeps
<1>2. CASE Linux!Drift
  BY <1>2, LinuxDrift
<1>3. CASE UNCHANGED linuxVars
  BY <1>3, LinuxUnchanged
<1> QED BY <1>1, <1>2, <1>3 DEF Linux!Next, Linux!Satisfied, linuxVars, Linux!vars

\* The steps that OnlyCompleted and VerifyKeeps allow.
LinuxTruthful ==
    /\ \A c \in Callers : call[c].pc # "idle" /\ call'[c].pc = "idle" =>
         \A f \in call'[c].changed : Linux!InEffect(f)'
    /\ policy.existing = "Verify" /\ account.exists /\ drifts' = drifts =>
         account' = account /\ (group.gid => group'.gid)

LEMMA LinuxActs ==
  ASSUME Linux!AccountConstants, LinuxInv, [Linux!Next]_linuxVars
  PROVE  LinuxTruthful
<1>1. ASSUME NEW c \in Callers, Linux!Ensure(c)
      PROVE  LinuxTruthful
  <2>1. LinuxStepOf(c)
    BY <1>1, LinuxEnsure
  <2> QED BY <2>1 DEF LinuxStepOf, LinuxTruthful, Advances
<1>2. CASE Linux!Drift
  <2>1. drifts' # drifts
    BY <1>2, DriftCounts
  <2> QED BY <1>2, <2>1 DEF Linux!Drift, LinuxTruthful
<1>3. CASE UNCHANGED linuxVars
  BY <1>3 DEF linuxVars, LinuxTruthful
<1> QED BY <1>1, <1>2, <1>3 DEF Linux!Next, Linux!Satisfied, linuxVars, Linux!vars

\* On Linux every variable keeps its type, for any number of processes that
\* call Ensure (backend_linux_impl.go, operation.go).
THEOREM LinuxTypes ==
  Linux!Spec => []Linux!TypeOK
<1> USE HostConstants
<1>1. Linux!Init => LinuxInv
  BY LinuxInit
<1>2. LinuxInv /\ [Linux!Next]_Linux!vars => LinuxInv'
  BY LinuxNext DEF Linux!vars, linuxVars
<1>3. LinuxInv => Linux!TypeOK
  BY DEF LinuxInv
<1> QED BY <1>1, <1>2, <1>3, PTL DEF Linux!Spec

\* No call of Ensure that has succeeded goes with an account that differs from
\* its specification, a missing group or a missing home, wherever other
\* processes are in theirs and whatever has failed (VerifyAgain, found).
THEOREM LinuxSuccessAgrees ==
  Linux!Spec => []Linux!SuccessAgrees
<1> USE HostConstants
<1>1. Linux!Init => LinuxInv
  BY LinuxInit
<1>2. LinuxInv /\ [Linux!Next]_Linux!vars => LinuxInv'
  BY LinuxNext DEF Linux!vars, linuxVars
<1>3. LinuxInv => Linux!SuccessAgrees
  BY DEF LinuxInv
<1> QED BY <1>1, <1>2, <1>3, PTL DEF Linux!Spec

\* What a call of Ensure reports as changed when it returns is in effect then,
\* also when a later command failed (the promise of apply); and under Verify
\* no call changes an account that exists, also one that appeared after the
\* call had looked.
THEOREM LinuxReportsTruly ==
  Linux!Spec => Linux!OnlyCompleted /\ Linux!VerifyKeeps
<1> USE HostConstants
<1>1. Linux!Init => LinuxInv
  BY LinuxInit
<1>2. LinuxInv /\ [Linux!Next]_Linux!vars => LinuxInv'
  BY LinuxNext DEF Linux!vars, linuxVars
<1>3. LinuxInv /\ [Linux!Next]_Linux!vars =>
        [/\ \A c \in Callers : call[c].pc # "idle" /\ call'[c].pc = "idle" =>
              \A f \in call'[c].changed : Linux!InEffect(f)']_Linux!vars
  BY LinuxActs DEF Linux!vars, linuxVars, LinuxTruthful
<1>4. LinuxInv /\ [Linux!Next]_Linux!vars =>
        [policy.existing = "Verify" /\ account.exists /\ drifts' = drifts =>
           account' = account /\ (group.gid => group'.gid)]_Linux!vars
  BY LinuxActs DEF Linux!vars, linuxVars, LinuxTruthful
<1> QED BY <1>1, <1>2, <1>3, <1>4, PTL DEF Linux!Spec, Linux!OnlyCompleted, Linux!VerifyKeeps

-----------------------------------------------------------------------------
\* macOS: the least and the greatest of finitely many numbers

LEMMA LeastNatural ==
  ASSUME NEW S \in SUBSET Nat, S # {}
  PROVE  \E m \in S : \A k \in S : m <= k
<1> DEFINE R == OpToRel(<, Nat)
<1>1. \A x, y \in Nat : <<x, y>> \in R <=> x < y
  BY DEF OpToRel
<1>2. IsWellFoundedOn(R, Nat)
  BY NatLessThanWellFounded
<1> HIDE DEF R
<1>3. PICK m \in S : \A k \in S : ~ (<<k, m>> \in R)
  BY <1>2, WFMin
<1>4. ASSUME NEW k \in S
      PROVE  m <= k
  <2>1. m \in Nat /\ k \in Nat
    OBVIOUS
  <2>2. ~ (k < m)
    BY <1>1, <1>3, <2>1
  <2> QED BY <2>1, <2>2
<1> QED BY <1>4

LEMMA MinIs ==
  ASSUME NEW S \in SUBSET Nat, S # {}
  PROVE  Darwin!Min(S) \in S
<1>1. PICK m \in S : \A k \in S : m <= k
  BY LeastNatural
<1> QED BY <1>1 DEF Darwin!Min

LEMMA MaxIs ==
  ASSUME NEW n \in Nat, NEW S \in SUBSET (0..n), S # {}
  PROVE  Darwin!Max(S) \in S
<1> DEFINE T == {k \in 0..n : n - k \in S}
<1>1. PICK s \in S : TRUE
  OBVIOUS
<1>2. s \in 0..n /\ n - s \in 0..n /\ n - (n - s) = s
  OBVIOUS
<1>3. T \in SUBSET Nat /\ T # {}
  BY <1>1, <1>2
<1>4. PICK m \in T : \A k \in T : m <= k
  BY <1>3, LeastNatural
<1>5. m \in 0..n /\ n - m \in S
  BY <1>4
<1>6. ASSUME NEW k \in S
      PROVE  n - m >= k
  <2>1. k \in 0..n /\ n - k \in 0..n /\ n - (n - k) = k
    OBVIOUS
  <2>2. n - k \in T
    BY <2>1
  <2>3. m <= n - k
    BY <1>4, <2>2
  <2> QED BY <1>5, <2>1, <2>3
<1> QED BY <1>5, <1>6 DEF Darwin!Max

\* Fewer accounts than identifiers: one is always left.
LEMMA OneLeft ==
  ASSUME Darwin!DarwinConstants, Accounts # {}, NEW f \in [Accounts -> Nat]
  PROVE  /\ Darwin!IDs \ ({f[a] : a \in Accounts} \ {Darwin!NoID}) # {}
         /\ Darwin!IDs \ ({f[a] : a \in Accounts} \ {Darwin!NoID}) \subseteq 0..MaxID
<1> DEFINE T == {f[a] : a \in Accounts}
<1>1. MaxID \in Nat /\ MaxID > 1 /\ Accounts \subseteq 1..(MaxID - 1)
  <2>1. MaxID \in Nat /\ Accounts \subseteq 1..(MaxID - 1)
    BY DEF Darwin!DarwinConstants
  <2>2. PICK a \in 1..(MaxID - 1) : TRUE
    BY <2>1
  <2> QED BY <2>1, <2>2
<1>2. /\ IsFiniteSet(Accounts) /\ Cardinality(Accounts) \in Nat
      /\ MaxID > 0 => Cardinality(Accounts) < MaxID
  <2>1. /\ IsFiniteSet(1..(MaxID - 1))
        /\ MaxID > 0 => Cardinality(1..(MaxID - 1)) = MaxID - 1
    <3>1. 1 \in Int /\ MaxID - 1 \in Int
      BY <1>1
    <3>2. /\ IsFiniteSet(1..(MaxID - 1))
          /\ Cardinality(1..(MaxID - 1)) = IF 1 > MaxID - 1 THEN 0 ELSE MaxID - 1 - 1 + 1
      BY <3>1, FS_Interval
    <3> QED BY <1>1, <3>2
  <2>2. IsFiniteSet(Accounts) /\ Cardinality(Accounts) <= Cardinality(1..(MaxID - 1))
    BY <1>1, <2>1, FS_Subset
  <2>3. Cardinality(Accounts) \in Nat
    BY <2>2, FS_CardinalityType
  <2> QED BY <1>1, <2>1, <2>2, <2>3
<1>3. f \in Surjection(Accounts, T)
  BY DEF Surjection
<1> HIDE DEF T
<1>4. IsFiniteSet(T) /\ Cardinality(T) <= Cardinality(Accounts)
  BY <1>2, <1>3, FS_Surjection
<1>5. Cardinality(T) \in Nat
  BY <1>4, FS_CardinalityType
<1>6. ~(1..MaxID \subseteq T)
  <2> SUFFICES ASSUME 1..MaxID \subseteq T
               PROVE  FALSE
    OBVIOUS
  <2>1. IsFiniteSet(1..MaxID) /\ Cardinality(1..MaxID) = MaxID
    <3>1. 1 \in Int /\ MaxID \in Int
      BY <1>1
    <3>2. /\ IsFiniteSet(1..MaxID)
          /\ Cardinality(1..MaxID) = IF 1 > MaxID THEN 0 ELSE MaxID - 1 + 1
      BY <3>1, FS_Interval
    <3> QED BY <1>1, <3>2
  <2>2. Cardinality(1..MaxID) <= Cardinality(T)
    BY <1>4, FS_Subset
  <2> QED BY <1>1, <1>2, <1>4, <1>5, <2>1, <2>2
<1>7. PICK x \in 1..MaxID : x \notin T
  BY <1>6
<1>8. x \in Darwin!IDs \ (T \ {Darwin!NoID}) /\ Darwin!IDs \subseteq 0..MaxID
  BY <1>1, <1>7 DEF Darwin!IDs
<1> QED BY <1>8 DEF T

-----------------------------------------------------------------------------
\* macOS: the invariant

DarwinPC == {"idle", "uid", "group", "gid", "setgid", "account", "mkdir", "own", "verify"}
Commands == {"record", "hidden", "uid", "group", "home", "shell", "join", "leave"}
DarwinCall == [pc : DarwinPC, todo : Seq(Commands), new : BOOLEAN, id : 0..MaxID, group : Nat,
               before : SUBSET (Darwin!Changes \ {"home directory"}), made : BOOLEAN, changed : SUBSET Darwin!Changes,
               did : SUBSET Darwin!Changes, ok : BOOLEAN]

DarwinType ==
    /\ darwinPolicy \in Darwin!Policies
    /\ rec \in [Accounts -> Darwin!Record]
    /\ gid \in [Accounts -> Nat]
    /\ darwinHome \in [Accounts -> {"absent", "made", "owned"}]
    /\ darwinFaults \in 0..MaxDarwinFaults /\ overlap \in BOOLEAN
    /\ darwinCall \in [Accounts -> DarwinCall]

\* The commands of create and of modify, and what each is to achieve.
Needed(new) ==
    {"hidden", "group", "join"}
    \cup (IF darwinPolicy.home # "LeaveHomeUnchanged" THEN {"home"} ELSE {})
    \cup (IF darwinPolicy.shell THEN {"shell"} ELSE {})
    \cup (IF new THEN {"record", "uid"} ELSE {"leave"})
IsSet(a, f) ==
    CASE f = "record" -> rec[a].exists
      [] f = "uid"    -> rec[a].uid # 0
      [] f = "group"  -> rec[a].gid = gid[a]
      [] OTHER        -> rec[a].attr[f] = "spec"

Deciding == {"group", "gid", "setgid", "account"}
Applied == {"mkdir", "own", "verify"}

\* The group of a call that is past it, and a record that has all it needs.
GroupReady(a) == gid[a] # 0 /\ (darwinPolicy.gid => gid[a] = MaxID + a)
Complete(a) == rec[a].exists /\ rec[a].uid # 0 /\ rec[a].gid # 0

\* What is true of an account and of its caller, whatever the other callers do:
\* a GID is from the range or that of the specification; a record that is in
\* groups it should leave is complete; while attributes are set, each is set
\* or still to be set, and nothing but a new group is recorded; then the record
\* agrees, except that an account taken to be absent may be in groups it should
\* leave; a call that has succeeded left it in agreement.
Setting(a) ==
    LET c == darwinCall[a] IN
    /\ GroupReady(a)
    /\ c.changed \subseteq {"group record"}
    /\ \A i \in 1..Len(c.todo) : c.todo[i] \in Needed(c.new)
    /\ \A f \in Needed(c.new) : IsSet(a, f) \/ \E i \in 1..Len(c.todo) : c.todo[i] = f
InAgreement(a) ==
    /\ GroupReady(a) /\ Complete(a)
    /\ Darwin!compareFor(a) \subseteq {"groups"} /\ rec[a].attr["join"] = "spec"
    /\ ~darwinCall[a].new => Darwin!compareFor(a) = {}
    /\ "home directory" \in darwinCall[a].changed =>
         darwinCall[a].pc = "verify" /\ darwinHome[a] # "absent"
DarwinSound(a) ==
    LET c == darwinCall[a] IN
    /\ gid[a] <= MaxID \/ gid[a] = MaxID + a
    /\ rec[a].attr["leave"] = "spec" \/ Complete(a)
    /\ c.todo # <<>> <=> c.pc = "account"
    /\ c.pc \in Deciding => IF c.new THEN c.id # 0 ELSE Complete(a)
    /\ c.pc = "uid" => c.new
    /\ c.pc \in {"uid", "group", "gid", "setgid"} => c.changed = {}
    /\ c.pc = "setgid" => /\ c.group # 0 /\ (c.group <= MaxID \/ c.group = MaxID + a)
                          /\ darwinPolicy.gid => c.group = MaxID + a
    /\ c.pc = "account" => Setting(a)
    /\ c.pc \in Applied => InAgreement(a)
    /\ c.ok => /\ c.pc = "idle"
               /\ Complete(a) /\ ~Darwin!Malformed(a) /\ Darwin!found(a) = {}

\* What is true of two accounts unless calls overlap: one of them is not under
\* way, they share no identifier, and none that is chosen is taken.
Apart(a, b) ==
    LET c == darwinCall[a] IN
    /\ ~(Darwin!Active(a) /\ Darwin!Active(b))
    /\ rec[a].uid = 0 \/ rec[a].uid # rec[b].uid
    /\ gid[a] = 0 \/ gid[a] # gid[b]
    /\ c.pc \in Deciding /\ c.new => c.id # rec[b].uid
    /\ c.pc = "setgid" => c.group # gid[b]

DarwinInv ==
    /\ DarwinType
    /\ \A a \in Accounts : DarwinSound(a)
    /\ ~overlap => \A a, b \in Accounts : a # b => Apart(a, b)

\* A step of the caller of a.
DarwinStepOf(a) ==
    /\ DarwinType'
    /\ UNCHANGED darwinPolicy
    /\ \A b \in Accounts \ {a} :
         /\ rec'[b] = rec[b] /\ gid'[b] = gid[b]
         /\ darwinHome'[b] = darwinHome[b] /\ darwinCall'[b] = darwinCall[b]
    /\ DarwinSound(a)'
    /\ ~overlap' => ~overlap /\ \A b \in Accounts \ {a} : Apart(a, b)' /\ Apart(b, a)'
    /\ Darwin!Active(a) /\ darwinCall'[a].pc = "idle" =>
         \A f \in darwinCall'[a].changed : Darwin!InEffect(a, f)' \/ Darwin!Joined(a, f)

LEMMA DarwinSoundStays ==
  ASSUME NEW b \in Accounts, DarwinSound(b), UNCHANGED darwinPolicy,
         rec'[b] = rec[b], gid'[b] = gid[b], darwinHome'[b] = darwinHome[b],
         darwinCall'[b] = darwinCall[b]
  PROVE  DarwinSound(b)'
<1>1. /\ Darwin!compareFor(b)' = Darwin!compareFor(b)
      /\ Darwin!found(b)' = Darwin!found(b)
      /\ Darwin!Malformed(b)' <=> Darwin!Malformed(b)
  BY DEF Darwin!compareFor, Darwin!compare, Darwin!found, Darwin!HomeMissing, Darwin!Malformed,
         Darwin!Wanted
<1>2. Needed(darwinCall[b].new)' = Needed(darwinCall[b].new)
  BY DEF Needed
<1>3. \A f : IsSet(b, f)' <=> IsSet(b, f)
  BY DEF IsSet
<1>4. /\ GroupReady(b)' <=> GroupReady(b)
      /\ Complete(b)' <=> Complete(b)
  BY DEF GroupReady, Complete
<1>5. Setting(b)' <=> Setting(b)
  BY <1>2, <1>3, <1>4 DEF Setting
<1>6. InAgreement(b)' <=> InAgreement(b)
  BY <1>1, <1>4 DEF InAgreement
<1> QED BY <1>1, <1>4, <1>5, <1>6 DEF DarwinSound

LEMMA DarwinStepKeeps ==
  ASSUME DarwinInv, NEW a \in Accounts, DarwinStepOf(a)
  PROVE  DarwinInv'
<1>1. ASSUME NEW b \in Accounts
      PROVE  DarwinSound(b)'
  <2>1. CASE b = a
    BY <2>1 DEF DarwinStepOf
  <2>2. CASE b # a
    BY <2>2, DarwinSoundStays DEF DarwinStepOf, DarwinInv
  <2> QED BY <2>1, <2>2
<1>2. ASSUME ~overlap', NEW b \in Accounts, NEW d \in Accounts, b # d
      PROVE  Apart(b, d)'
  <2>1. CASE a \in {b, d}
    BY <1>2, <2>1 DEF DarwinStepOf
  <2>2. CASE a \notin {b, d}
    <3>1. Apart(b, d)
      BY <1>2 DEF DarwinStepOf, DarwinInv
    <3> QED BY <2>2, <3>1 DEF DarwinStepOf, Apart, Darwin!Active
  <2> QED BY <2>1, <2>2
<1> QED BY <1>1, <1>2 DEF DarwinInv, DarwinStepOf

-----------------------------------------------------------------------------
\* macOS: the steps of a caller

LEMMA DarwinMoves ==
  ASSUME DarwinType, NEW a \in Accounts, NEW r \in DarwinCall,
         darwinCall' = [darwinCall EXCEPT ![a] = r]
  PROVE  /\ darwinCall' \in [Accounts -> DarwinCall] /\ darwinCall'[a] = r
         /\ \A b \in Accounts \ {a} : darwinCall'[b] = darwinCall[b]
  BY DEF DarwinType

LEMMA CallerIs ==
  ASSUME NEW next \in DarwinPC, NEW ok \in BOOLEAN, NEW ch \in SUBSET Darwin!Changes,
         Darwin!DarwinConstants
  PROVE  LET r == Darwin!Caller(next, ok, ch) IN
         /\ r \in DarwinCall /\ r.pc = next /\ r.todo = <<>> /\ ~r.new /\ r.id = 0 /\ r.group = 0
         /\ r.before = {} /\ r.changed = ch /\ r.did = {} /\ (r.ok <=> ok)
<1>1. 0 \in 0..MaxID /\ 0 \in Nat
  BY DEF Darwin!DarwinConstants
<1>2. <<>> \in Seq(Commands)
  OBVIOUS
<1> QED BY <1>1, <1>2 DEF Darwin!Caller, DarwinCall, Darwin!NoID

LEMMA CallerFails ==
  ASSUME NEW next \in DarwinPC, Darwin!DarwinConstants
  PROVE  LET r == Darwin!Caller(next, FALSE, {}) IN
         r \in DarwinCall /\ r.pc = next /\ r.todo = <<>> /\ ~r.new /\ r.changed = {} /\ ~r.ok
<1>1. 0 \in 0..MaxID /\ 0 \in Nat
  BY DEF Darwin!DarwinConstants
<1>2. <<>> \in Seq(Commands)
  OBVIOUS
<1> QED BY <1>1, <1>2 DEF Darwin!Caller, DarwinCall, Darwin!NoID

LEMMA DarwinReturns ==
  ASSUME Darwin!DarwinConstants, DarwinType, NEW a \in Accounts, NEW ok \in BOOLEAN,
         NEW ch \in SUBSET Darwin!Changes, Darwin!Return(a, ok, ch)
  PROVE  /\ darwinCall' \in [Accounts -> DarwinCall]
         /\ \A b \in Accounts \ {a} : darwinCall'[b] = darwinCall[b]
         /\ LET r == darwinCall'[a] IN
            r.pc = "idle" /\ r.todo = <<>> /\ r.changed = ch /\ (r.ok <=> ok)
<1> DEFINE q == Darwin!Caller("idle", ok, ch)
           r == [q EXCEPT !.did = darwinCall[a].did]
<1>1. q \in DarwinCall /\ q.pc = "idle" /\ q.todo = <<>> /\ q.changed = ch /\ (q.ok <=> ok)
  <2>1. "idle" \in DarwinPC
    BY DEF DarwinPC
  <2> QED BY <2>1, CallerIs
<1>2. darwinCall' = [darwinCall EXCEPT ![a] = r]
  BY DEF Darwin!Return
<1>3. darwinCall[a].did \in SUBSET Darwin!Changes
  BY DEF DarwinType, DarwinCall
<1> HIDE DEF q
<1>4. r \in DarwinCall /\ r.pc = "idle" /\ r.todo = <<>> /\ r.changed = ch /\ (r.ok <=> ok)
  BY <1>1, <1>3 DEF DarwinCall
<1> HIDE DEF r
<1> QED BY <1>2, <1>4, DarwinMoves

\* What a call has recorded while it is under way is in effect.
Reported(a, f) ==
    Darwin!InEffect(a, f) \/ (darwinCall[a].new /\ f = "groups" /\ rec[a].attr["join"] = "spec")

LEMMA DarwinReported ==
  ASSUME DarwinInv, NEW a \in Accounts, Darwin!Active(a)
  PROVE  \A f \in darwinCall[a].changed : Reported(a, f)
<1>1. DarwinSound(a) /\ darwinCall[a].pc \in DarwinPC /\ darwinCall[a].pc # "idle"
  BY DEF DarwinInv, DarwinType, DarwinCall, Darwin!Active
<1>2. CASE darwinCall[a].pc \in {"uid", "group", "gid", "setgid"}
  BY <1>1, <1>2 DEF DarwinSound
<1>3. CASE darwinCall[a].pc = "account"
  <2>1. darwinCall[a].changed \subseteq {"group record"} /\ gid[a] # 0
    BY <1>1, <1>3 DEF DarwinSound, Setting, GroupReady
  <2> QED BY <2>1 DEF Reported, Darwin!InEffect, Darwin!NoID
<1>4. CASE darwinCall[a].pc \in Applied
  <2>1. InAgreement(a)
    BY <1>1, <1>4 DEF DarwinSound
  <2> QED BY <2>1 DEF Reported, Darwin!InEffect, Darwin!NoID, InAgreement, GroupReady, Complete
<1> QED BY <1>1, <1>2, <1>3, <1>4 DEF DarwinPC, Applied

\* The accounts of the other callers.
OthersStay(a) ==
    /\ UNCHANGED darwinPolicy
    /\ \A b \in Accounts \ {a} :
         rec'[b] = rec[b] /\ gid'[b] = gid[b] /\ darwinHome'[b] = darwinHome[b]

\* The identifiers of a are nobody else's, nor is one that was chosen for it.
NobodyElses(a) ==
    LET c == darwinCall'[a] IN
    ~overlap => \A b \in Accounts \ {a} :
      /\ rec'[a].uid = 0 \/ rec'[a].uid # rec[b].uid
      /\ gid'[a] = 0 \/ gid'[a] # gid[b]
      /\ c.pc \in Deciding /\ c.new => c.id # rec[b].uid
      /\ c.pc = "setgid" => c.group # gid[b]

LEMMA DarwinApart ==
  ASSUME DarwinInv, NEW a \in Accounts, Darwin!Active(a), UNCHANGED overlap, OthersStay(a),
         \A b \in Accounts \ {a} : darwinCall'[b] = darwinCall[b],
         NobodyElses(a), ~overlap'
  PROVE  \A b \in Accounts \ {a} : Apart(a, b)' /\ Apart(b, a)'
<1> SUFFICES ASSUME NEW b \in Accounts \ {a}
             PROVE  Apart(a, b)' /\ Apart(b, a)'
  OBVIOUS
<1>1. Apart(a, b) /\ ~overlap
  BY DEF DarwinInv
<1>2. darwinCall'[b].pc = "idle"
  BY <1>1 DEF Apart, Darwin!Active
<1>3. rec'[b] = rec[b] /\ gid'[b] = gid[b]
  BY DEF OthersStay
<1>4. /\ rec'[a].uid = 0 \/ rec'[a].uid # rec[b].uid
      /\ gid'[a] = 0 \/ gid'[a] # gid[b]
      /\ darwinCall'[a].pc \in Deciding /\ darwinCall'[a].new => darwinCall'[a].id # rec[b].uid
      /\ darwinCall'[a].pc = "setgid" => darwinCall'[a].group # gid[b]
  BY <1>1 DEF NobodyElses
<1>5. Apart(a, b)'
  BY <1>2, <1>3, <1>4 DEF Apart, Darwin!Active
<1>6. Apart(b, a)'
  BY <1>2, <1>3, <1>4 DEF Apart, Darwin!Active, Deciding
<1> QED BY <1>5, <1>6

LEMMA DarwinFailing ==
  ASSUME Darwin!DarwinConstants, DarwinInv, NEW a \in Accounts, Darwin!Active(a), Darwin!Fails(a),
         UNCHANGED overlap, OthersStay(a),
         rec' \in [Accounts -> Darwin!Record], gid' \in [Accounts -> Nat],
         darwinHome' \in [Accounts -> {"absent", "made", "owned"}],
         gid'[a] <= MaxID \/ gid'[a] = MaxID + a,
         rec'[a].attr["leave"] = "spec" \/ Complete(a)',
         ~overlap => \A b \in Accounts \ {a} :
           /\ rec'[a].uid = 0 \/ rec'[a].uid # rec[b].uid
           /\ gid'[a] = 0 \/ gid'[a] # gid[b],
         \A f \in darwinCall[a].changed : Darwin!InEffect(a, f)' \/ Darwin!Joined(a, f)
  PROVE  DarwinStepOf(a)
<1>1. DarwinType /\ darwinCall[a].changed \in SUBSET Darwin!Changes
  BY DEF DarwinInv, DarwinType, DarwinCall
<1>2. darwinFaults' \in 0..MaxDarwinFaults
  <2>1. darwinFaults \in 0..MaxDarwinFaults /\ MaxDarwinFaults \in Nat
    BY <1>1 DEF DarwinType, Darwin!DarwinConstants
  <2>2. darwinFaults < MaxDarwinFaults /\ darwinFaults' = darwinFaults + 1
    BY DEF Darwin!Fails
  <2> QED BY <2>1, <2>2
<1>3. /\ darwinCall' \in [Accounts -> DarwinCall]
      /\ \A b \in Accounts \ {a} : darwinCall'[b] = darwinCall[b]
      /\ LET r == darwinCall'[a] IN
         r.pc = "idle" /\ r.todo = <<>> /\ r.changed = darwinCall[a].changed /\ ~r.ok
  BY <1>1, DarwinReturns DEF Darwin!Fails
<1>4. DarwinType'
  BY <1>1, <1>2, <1>3 DEF DarwinType, OthersStay
<1>5. DarwinSound(a)'
  BY <1>3 DEF DarwinSound, Deciding, Applied
<1>6. NobodyElses(a)
  BY <1>3 DEF NobodyElses, Deciding
<1>7. ~overlap' => \A b \in Accounts \ {a} : Apart(a, b)' /\ Apart(b, a)'
  BY <1>3, <1>6, DarwinApart
<1> QED BY <1>3, <1>4, <1>5, <1>7 DEF DarwinStepOf, OthersStay

LEMMA DarwinGoing ==
  ASSUME Darwin!DarwinConstants, DarwinInv, NEW a \in Accounts, Darwin!Active(a),
         UNCHANGED <<overlap, darwinFaults>>, OthersStay(a),
         rec' \in [Accounts -> Darwin!Record], gid' \in [Accounts -> Nat],
         darwinHome' \in [Accounts -> {"absent", "made", "owned"}],
         NEW r \in DarwinCall, darwinCall' = [darwinCall EXCEPT ![a] = r],
         r.pc # "idle", DarwinSound(a)', NobodyElses(a)
  PROVE  DarwinStepOf(a)
<1>1. /\ darwinCall' \in [Accounts -> DarwinCall] /\ darwinCall'[a] = r
      /\ \A b \in Accounts \ {a} : darwinCall'[b] = darwinCall[b]
  BY DarwinMoves DEF DarwinInv
<1>2. DarwinType'
  BY <1>1 DEF DarwinInv, DarwinType, OthersStay
<1>3. ~overlap' => \A b \in Accounts \ {a} : Apart(a, b)' /\ Apart(b, a)'
  BY <1>1, DarwinApart
<1> QED BY <1>1, <1>2, <1>3 DEF DarwinStepOf, OthersStay

LEMMA LookupSays ==
  ASSUME NEW a \in Accounts
  PROVE  /\ "missing" \in Darwin!lookup(a) => ~Complete(a)
         /\ "found" \in Darwin!lookup(a) => Complete(a) /\ ~Darwin!Malformed(a)
         /\ Complete(a) /\ ~Darwin!Malformed(a) /\ rec[a].gid = gid[a] => "found" \in Darwin!lookup(a)
  BY DEF Darwin!lookup, Darwin!Incomplete, Darwin!Dangling, Complete, Darwin!NoID

LEMMA DifferencesType ==
  ASSUME NEW a \in Accounts
  PROVE  /\ Darwin!compare(a) \in SUBSET (Darwin!Changes \ {"home directory"})
         /\ Darwin!found(a) \in SUBSET Darwin!Changes
  BY ZenonT(30) DEF Darwin!compare, Darwin!compareFor, Darwin!found, Darwin!Changes

LEMMA EarlyPCs ==
  /\ "idle" \in DarwinPC /\ "uid" \in DarwinPC /\ "group" \in DarwinPC
  /\ FALSE \in BOOLEAN /\ {} \in SUBSET Darwin!Changes
  BY DEF DarwinPC

LEMMA DarwinLookup ==
  ASSUME Darwin!DarwinConstants, DarwinInv, NEW a \in Accounts, Darwin!Lookup(a)
  PROVE  DarwinStepOf(a)
<1>1. /\ darwinCall[a].pc = "idle" /\ UNCHANGED <<darwinPolicy, rec, gid, darwinHome>>
      /\ overlap' = (overlap \/ \E b \in Accounts \ {a} : Darwin!Active(b) /\ darwinCall'[a].pc # "idle")
  BY DEF Darwin!Lookup
<1>2. DarwinType /\ DarwinSound(a)
  BY DEF DarwinInv
<1>3. /\ Complete(a)' <=> Complete(a)
      /\ Darwin!Malformed(a)' <=> Darwin!Malformed(a)
      /\ Darwin!found(a)' = Darwin!found(a)
  BY <1>1 DEF Complete, Darwin!Malformed, Darwin!found, Darwin!compareFor, Darwin!compare,
              Darwin!HomeMissing, Darwin!Wanted
<1>10. darwinFaults' \in 0..MaxDarwinFaults
  <2>1. darwinFaults \in 0..MaxDarwinFaults /\ MaxDarwinFaults \in Nat
    BY <1>2 DEF DarwinType, Darwin!DarwinConstants
  <2>2. UNCHANGED darwinFaults \/ (darwinFaults < MaxDarwinFaults /\ darwinFaults' = darwinFaults + 1)
    BY DEF Darwin!Lookup
  <2> QED BY <2>1, <2>2
<1>4. ASSUME NEW r \in DarwinCall, darwinCall' = [darwinCall EXCEPT ![a] = r], r.todo = <<>>,
             \/ r.pc = "idle"
             \/ r.pc = "uid" /\ r.new /\ r.changed = {}
             \/ r.pc = "group" /\ ~r.new /\ r.changed = {} /\ Complete(a),
             r.ok => r.pc = "idle" /\ Complete(a) /\ ~Darwin!Malformed(a) /\ Darwin!found(a) = {}
      PROVE  DarwinStepOf(a)
  <2>1. /\ darwinCall' \in [Accounts -> DarwinCall] /\ darwinCall'[a] = r
        /\ \A b \in Accounts \ {a} : darwinCall'[b] = darwinCall[b]
    BY <1>2, <1>4, DarwinMoves
  <2>2. DarwinType'
    BY <1>1, <1>2, <1>10, <2>1 DEF DarwinType
  <2>3. DarwinSound(a)'
    BY <1>1, <1>2, <1>3, <1>4, <2>1 DEF DarwinSound, Deciding, Applied
  <2>4. ASSUME ~overlap', NEW b \in Accounts \ {a}
        PROVE  Apart(a, b)' /\ Apart(b, a)'
    <3>1. ~overlap /\ (Darwin!Active(b) => r.pc = "idle")
      BY <1>1, <2>1, <2>4
    <3>2. Apart(a, b) /\ Apart(b, a)
      BY <3>1 DEF DarwinInv
    <3> QED BY <1>1, <1>4, <2>1, <3>1, <3>2 DEF Apart, Darwin!Active, Deciding
  <2>5. ~overlap' => ~overlap
    BY <1>1
  <2> QED BY <1>1, <2>1, <2>2, <2>3, <2>4, <2>5 DEF DarwinStepOf, Darwin!Active
<1>5. PICK answer \in {"missing", "error", "found"} :
         /\ answer = "found" => "found" \in Darwin!lookup(a)
         /\ \/ /\ answer = "missing"
               /\ darwinCall' = [darwinCall EXCEPT ![a] = [Darwin!Caller("uid", FALSE, {}) EXCEPT !.new = TRUE]]
            \/ /\ answer = "error"
               /\ darwinCall' = [darwinCall EXCEPT ![a] = Darwin!Caller("idle", FALSE, {})]
            \/ /\ answer = "found"
               /\ darwinCall' = [darwinCall EXCEPT ![a] =
                                   Darwin!Caller("idle", Darwin!found(a) = {}, Darwin!found(a))]
            \/ /\ answer = "found"
               /\ darwinCall' = [darwinCall EXCEPT ![a] =
                                   [Darwin!Caller("group", FALSE, {}) EXCEPT !.before = Darwin!compare(a)]]
  BY DEF Darwin!Lookup
<1>6. CASE /\ answer = "missing"
           /\ darwinCall' = [darwinCall EXCEPT ![a] = [Darwin!Caller("uid", FALSE, {}) EXCEPT !.new = TRUE]]
  <2> DEFINE q == Darwin!Caller("uid", FALSE, {})
             r == [q EXCEPT !.new = TRUE]
  <2>1. q \in DarwinCall /\ q.pc = "uid" /\ q.todo = <<>> /\ q.changed = {} /\ ~q.ok
    BY CallerFails, EarlyPCs
  <2> HIDE DEF q
  <2>2. r \in DarwinCall /\ r.pc = "uid" /\ r.todo = <<>> /\ r.changed = {} /\ ~r.ok /\ r.new
    BY <2>1 DEF DarwinCall
  <2>3. darwinCall' = [darwinCall EXCEPT ![a] = r]
    BY <1>6 DEF q
  <2> HIDE DEF r
  <2> QED BY <1>4, <2>2, <2>3
<1>7. CASE /\ answer = "error"
           /\ darwinCall' = [darwinCall EXCEPT ![a] = Darwin!Caller("idle", FALSE, {})]
  <2> DEFINE r == Darwin!Caller("idle", FALSE, {})
  <2>1. r \in DarwinCall /\ r.pc = "idle" /\ r.todo = <<>> /\ ~r.ok
    BY CallerFails, EarlyPCs
  <2>2. darwinCall' = [darwinCall EXCEPT ![a] = r]
    BY <1>7
  <2> HIDE DEF r
  <2> QED BY <1>4, <2>1, <2>2
<1>8. CASE /\ answer = "found"
           /\ darwinCall' = [darwinCall EXCEPT ![a] =
                               Darwin!Caller("idle", Darwin!found(a) = {}, Darwin!found(a))]
  <2>0. PICK ok \in BOOLEAN : ok = (Darwin!found(a) = {})
    OBVIOUS
  <2> DEFINE r == Darwin!Caller("idle", ok, Darwin!found(a))
  <2>1. r \in DarwinCall /\ r.pc = "idle" /\ r.todo = <<>> /\ (r.ok <=> ok)
    <3>1. Darwin!found(a) \in SUBSET Darwin!Changes /\ "idle" \in DarwinPC
      BY DifferencesType, EarlyPCs
    <3> QED BY <3>1, CallerIs
  <2>2. darwinCall' = [darwinCall EXCEPT ![a] = r]
    BY <1>8, <2>0
  <2>3. Complete(a) /\ ~Darwin!Malformed(a)
    BY <1>5, <1>8, LookupSays
  <2> HIDE DEF r
  <2> QED BY <1>4, <2>0, <2>1, <2>2, <2>3
<1>9. CASE /\ answer = "found"
           /\ darwinCall' = [darwinCall EXCEPT ![a] =
                               [Darwin!Caller("group", FALSE, {}) EXCEPT !.before = Darwin!compare(a)]]
  <2> DEFINE q == Darwin!Caller("group", FALSE, {})
             r == [q EXCEPT !.before = Darwin!compare(a)]
  <2>1. q \in DarwinCall /\ q.pc = "group" /\ q.todo = <<>> /\ q.changed = {} /\ ~q.ok /\ ~q.new
    BY CallerFails, EarlyPCs
  <2> HIDE DEF q
  <2>2. r \in DarwinCall /\ r.pc = "group" /\ r.todo = <<>> /\ r.changed = {} /\ ~r.ok /\ ~r.new
    BY <2>1, DifferencesType DEF DarwinCall
  <2>3. darwinCall' = [darwinCall EXCEPT ![a] = r]
    BY <1>9 DEF q
  <2>4. Complete(a)
    BY <1>5, <1>9, LookupSays
  <2> HIDE DEF r
  <2> QED BY <1>4, <2>2, <2>3, <2>4
<1> QED BY <1>5, <1>6, <1>7, <1>8, <1>9

\* A value that is listed as free is nobody's.
LEMMA FreshUID ==
  ASSUME Darwin!DarwinConstants, DarwinType, NEW a \in Accounts
  PROVE  /\ Darwin!allocateID(Darwin!UIDs) \in 1..MaxID
         /\ \A b \in Accounts : Darwin!allocateID(Darwin!UIDs) # rec[b].uid
<1> DEFINE f == [b \in Accounts |-> rec[b].uid]
           S == Darwin!IDs \ Darwin!UIDs
<1>1. MaxID \in Nat /\ Darwin!IDs = 1..MaxID
  BY DEF Darwin!DarwinConstants, Darwin!IDs
<1>2. f \in [Accounts -> Nat]
  BY <1>1 DEF DarwinType, Darwin!Record, Darwin!NoID
<1>3. {f[b] : b \in Accounts} = {rec[b].uid : b \in Accounts}
  OBVIOUS
<1> HIDE DEF f
<1>4. S # {} /\ S \subseteq 0..MaxID
  BY <1>2, <1>3, OneLeft DEF Darwin!UIDs
<1> HIDE DEF S
<1>5. S \in SUBSET Nat
  BY <1>1, <1>4
<1>6. Darwin!Min(S) \in S
  BY <1>4, <1>5, MinIs
<1>7. ASSUME NEW x \in S
      PROVE  x \in 1..MaxID /\ \A b \in Accounts : x # rec[b].uid
  BY <1>1 DEF S, Darwin!UIDs, Darwin!NoID
<1> QED BY <1>6, <1>7 DEF S, Darwin!allocateID

LEMMA FreshGID ==
  ASSUME Darwin!DarwinConstants, DarwinType, NEW a \in Accounts
  PROVE  /\ Darwin!allocateID(Darwin!GIDs) \in 1..MaxID
         /\ Darwin!Max(Darwin!IDs \ Darwin!GIDs) \in 1..MaxID
         /\ \A b \in Accounts : /\ Darwin!allocateID(Darwin!GIDs) # gid[b]
                                /\ Darwin!Max(Darwin!IDs \ Darwin!GIDs) # gid[b]
<1> DEFINE S == Darwin!IDs \ Darwin!GIDs
<1>1. MaxID \in Nat /\ Darwin!IDs = 1..MaxID
  BY DEF Darwin!DarwinConstants, Darwin!IDs
<1>2. gid \in [Accounts -> Nat]
  BY DEF DarwinType
<1>3. S # {} /\ S \subseteq 0..MaxID
  BY <1>2, OneLeft DEF Darwin!GIDs
<1> HIDE DEF S
<1>4. S \in SUBSET Nat
  BY <1>1, <1>3
<1>5. Darwin!Min(S) \in S /\ Darwin!Max(S) \in S
  BY <1>1, <1>3, <1>4, MinIs, MaxIs
<1>6. ASSUME NEW x \in S
      PROVE  x \in 1..MaxID /\ \A b \in Accounts : x # gid[b]
  BY <1>1 DEF S, Darwin!GIDs, Darwin!NoID
<1> QED BY <1>5, <1>6 DEF S, Darwin!allocateID

LEMMA OneElement ==
  ASSUME NEW N, NEW x \in N
  PROVE  <<x>> \in Seq(N) /\ x \in ToSet(<<x>>)
<1>1. <<x>> \in Seq(N) /\ DOMAIN <<x>> = 1..1 /\ <<x>>[1] = x
  OBVIOUS
<1> QED BY <1>1 DEF ToSet

LEMMA DarwinOptionalIs ==
  ASSUME NEW N, NEW given \in BOOLEAN, NEW x, given => x \in N
  PROVE  /\ Darwin!Optional(given, x) \in Seq(N)
         /\ given => x \in ToSet(Darwin!Optional(given, x))
<1>1. CASE given
  BY <1>1, OneElement DEF Darwin!Optional
<1>2. CASE ~given
  BY <1>2 DEF Darwin!Optional
<1> QED BY <1>1, <1>2

\* The commands are the needed ones, and all of them.
LEMMA TodoIs ==
  ASSUME NEW a \in Accounts, DarwinType
  PROVE  LET N == Needed(darwinCall[a].new) IN
         /\ Darwin!Todo(a) \in Seq(N) /\ N \subseteq ToSet(Darwin!Todo(a))
<1> DEFINE N == Needed(darwinCall[a].new)
           h == Darwin!Optional(darwinPolicy.home # "LeaveHomeUnchanged", "home")
           t == Darwin!Optional(darwinPolicy.shell, "shell")
<1>1. h \in Seq(N) /\ (darwinPolicy.home # "LeaveHomeUnchanged" => "home" \in ToSet(h))
  <2>1. PICK given \in BOOLEAN : given = (darwinPolicy.home # "LeaveHomeUnchanged")
    OBVIOUS
  <2>2. given => "home" \in N
    BY <2>1 DEF Needed
  <2> HIDE DEF N
  <2>3. /\ Darwin!Optional(given, "home") \in Seq(N)
        /\ given => "home" \in ToSet(Darwin!Optional(given, "home"))
    BY <2>2, DarwinOptionalIs
  <2> QED BY <2>1, <2>3
<1>2. t \in Seq(N) /\ (darwinPolicy.shell => "shell" \in ToSet(t))
  <2>1. darwinPolicy.shell \in BOOLEAN
    BY DEF DarwinType, Darwin!Policies
  <2>2. darwinPolicy.shell => "shell" \in N
    BY DEF Needed
  <2> HIDE DEF N
  <2> QED BY <2>1, <2>2, DarwinOptionalIs
<1> DEFINE ht == h \o t
<1> HIDE DEF h, t
<1>3. /\ ht \in Seq(N)
      /\ darwinPolicy.home # "LeaveHomeUnchanged" => "home" \in ToSet(ht)
      /\ darwinPolicy.shell => "shell" \in ToSet(ht)
  <2> HIDE DEF N
  <2>1. ht \in Seq(N) /\ ToSet(h) \subseteq ToSet(ht) /\ ToSet(t) \subseteq ToSet(ht)
    BY <1>1, <1>2, ToSetConcat
  <2> QED BY <1>1, <1>2, <2>1
<1>4. Darwin!HomeAndShell = ht
  BY DEF Darwin!HomeAndShell, h, t
<1> HIDE DEF ht
<1>5. CASE darwinCall[a].new
  <2> DEFINE u == <<"record", "hidden", "uid", "group">>
             v == <<"join">>
             w == u \o ht
  <2>1. {"record", "hidden", "uid", "group", "join"} \subseteq N
    BY <1>5 DEF Needed
  <2>2. ASSUME NEW x \in N, x \notin {"record", "hidden", "uid", "group", "join"}
        PROVE  \/ x = "home" /\ darwinPolicy.home # "LeaveHomeUnchanged"
               \/ x = "shell" /\ darwinPolicy.shell
    <3>1. CASE darwinPolicy.home # "LeaveHomeUnchanged"
      BY <1>5, <2>2, <3>1 DEF Needed
    <3>2. CASE darwinPolicy.home = "LeaveHomeUnchanged"
      BY <1>5, <2>2, <3>2 DEF Needed
    <3> QED BY <3>1, <3>2
  <2> HIDE DEF N
  <2>3. u \in Seq(N) /\ {"record", "hidden", "uid", "group"} \subseteq ToSet(u)
    <3>1. /\ u \in Seq(N) /\ DOMAIN u = 1..4
          /\ u[1] = "record" /\ u[2] = "hidden" /\ u[3] = "uid" /\ u[4] = "group"
      BY <2>1
    <3> HIDE DEF u
    <3> QED BY <3>1 DEF ToSet
  <2>4. v \in Seq(N) /\ "join" \in ToSet(v)
    BY <2>1, OneElement
  <2>5. Darwin!Todo(a) = w \o v
    BY <1>4, <1>5 DEF Darwin!Todo
  <2> HIDE DEF u, v
  <2>6. w \in Seq(N) /\ ToSet(u) \subseteq ToSet(w) /\ ToSet(ht) \subseteq ToSet(w)
    BY <1>3, <2>3, ToSetConcat
  <2>7. /\ w \o v \in Seq(N)
        /\ ToSet(w) \subseteq ToSet(w \o v) /\ ToSet(v) \subseteq ToSet(w \o v)
    <3> HIDE DEF w
    <3> QED BY <2>4, <2>6, ToSetConcat
  <2>8. N \subseteq ToSet(w \o v)
    BY <1>3, <2>2, <2>3, <2>4, <2>6, <2>7
  <2> QED BY <2>5, <2>7, <2>8 DEF N
<1>6. CASE ~darwinCall[a].new
  <2> DEFINE u == <<"hidden", "group">>
             v == <<"join", "leave">>
             w == u \o ht
  <2>1. {"hidden", "group", "join", "leave"} \subseteq N
    BY <1>6 DEF Needed
  <2>2. ASSUME NEW x \in N, x \notin {"hidden", "group", "join", "leave"}
        PROVE  \/ x = "home" /\ darwinPolicy.home # "LeaveHomeUnchanged"
               \/ x = "shell" /\ darwinPolicy.shell
    <3>1. CASE darwinPolicy.home # "LeaveHomeUnchanged"
      BY <1>6, <2>2, <3>1 DEF Needed
    <3>2. CASE darwinPolicy.home = "LeaveHomeUnchanged"
      BY <1>6, <2>2, <3>2 DEF Needed
    <3> QED BY <3>1, <3>2
  <2> HIDE DEF N
  <2>3. u \in Seq(N) /\ {"hidden", "group"} \subseteq ToSet(u)
    <3>1. u \in Seq(N) /\ DOMAIN u = 1..2 /\ u[1] = "hidden" /\ u[2] = "group"
      BY <2>1
    <3> HIDE DEF u
    <3> QED BY <3>1 DEF ToSet
  <2>4. v \in Seq(N) /\ {"join", "leave"} \subseteq ToSet(v)
    <3>1. v \in Seq(N) /\ DOMAIN v = 1..2 /\ v[1] = "join" /\ v[2] = "leave"
      BY <2>1
    <3> HIDE DEF v
    <3> QED BY <3>1 DEF ToSet
  <2>5. Darwin!Todo(a) = w \o v
    BY <1>4, <1>6 DEF Darwin!Todo
  <2> HIDE DEF u, v
  <2>6. w \in Seq(N) /\ ToSet(u) \subseteq ToSet(w) /\ ToSet(ht) \subseteq ToSet(w)
    BY <1>3, <2>3, ToSetConcat
  <2>7. /\ w \o v \in Seq(N)
        /\ ToSet(w) \subseteq ToSet(w \o v) /\ ToSet(v) \subseteq ToSet(w \o v)
    <3> HIDE DEF w
    <3> QED BY <2>4, <2>6, ToSetConcat
  <2>8. N \subseteq ToSet(w \o v)
    BY <1>3, <2>2, <2>3, <2>4, <2>6, <2>7
  <2> QED BY <2>5, <2>7, <2>8 DEF N
<1> QED BY <1>5, <1>6

\* The facts about a call that has not set anything yet.
LEMMA DarwinEarly ==
  ASSUME DarwinInv, NEW a \in Accounts, darwinCall[a].pc \in {"uid", "group", "gid", "setgid"}
  PROVE  /\ Darwin!Active(a) /\ DarwinType /\ DarwinSound(a) /\ darwinCall[a] \in DarwinCall
         /\ darwinCall[a].changed = {} /\ ~darwinCall[a].ok /\ darwinCall[a].todo = <<>>
<1>1. DarwinType /\ DarwinSound(a)
  BY DEF DarwinInv
<1>2. darwinCall[a] \in DarwinCall
  BY <1>1 DEF DarwinType
<1> QED BY <1>1, <1>2 DEF DarwinSound, Darwin!Active

\* Such a call may fail where it is: the group has at most changed.
LEMMA DarwinEarlyFails ==
  ASSUME Darwin!DarwinConstants, DarwinInv, NEW a \in Accounts,
         darwinCall[a].pc \in {"uid", "group", "gid", "setgid"}, Darwin!Fails(a),
         UNCHANGED <<darwinPolicy, rec, darwinHome, overlap>>,
         NEW g \in Nat, gid' = [gid EXCEPT ![a] = g] \/ (g = gid[a] /\ gid' = gid),
         g <= MaxID \/ g = MaxID + a,
         g # 0,
         ~overlap => \A b \in Accounts \ {a} : g # gid[b]
  PROVE  DarwinStepOf(a)
<1>1. /\ Darwin!Active(a) /\ DarwinType /\ DarwinSound(a) /\ darwinCall[a].changed = {}
  BY DarwinEarly
<1>2. gid' \in [Accounts -> Nat] /\ gid'[a] = g /\ \A b \in Accounts \ {a} : gid'[b] = gid[b]
  BY <1>1 DEF DarwinType
<1>3. rec' \in [Accounts -> Darwin!Record] /\ darwinHome' \in [Accounts -> {"absent", "made", "owned"}]
  BY <1>1 DEF DarwinType
<1>4. OthersStay(a)
  BY <1>2 DEF OthersStay
<1>5. rec'[a].attr["leave"] = "spec" \/ Complete(a)'
  BY <1>1 DEF DarwinSound, Complete
<1>6. ~overlap => \A b \in Accounts \ {a} : rec'[a].uid = 0 \/ rec'[a].uid # rec[b].uid
  BY DEF DarwinInv, Apart
<1> QED BY <1>1, <1>2, <1>3, <1>4, <1>5, <1>6, DarwinFailing

\* The same where nothing has changed.
LEMMA DarwinFailsAlone ==
  ASSUME Darwin!DarwinConstants, DarwinInv, NEW a \in Accounts, Darwin!Active(a), Darwin!Fails(a),
         UNCHANGED <<darwinPolicy, rec, gid, darwinHome, overlap>>
  PROVE  DarwinStepOf(a)
<1>1. DarwinType /\ DarwinSound(a)
  BY DEF DarwinInv
<1>2. /\ rec' \in [Accounts -> Darwin!Record] /\ gid' \in [Accounts -> Nat]
      /\ darwinHome' \in [Accounts -> {"absent", "made", "owned"}]
  BY <1>1 DEF DarwinType
<1>3. OthersStay(a)
  BY DEF OthersStay
<1>4. /\ gid'[a] <= MaxID \/ gid'[a] = MaxID + a
      /\ rec'[a].attr["leave"] = "spec" \/ Complete(a)'
  BY <1>1 DEF DarwinSound, Complete
<1>5. ~overlap => \A b \in Accounts \ {a} : /\ rec'[a].uid = 0 \/ rec'[a].uid # rec[b].uid
                                            /\ gid'[a] = 0 \/ gid'[a] # gid[b]
  BY DEF DarwinInv, Apart
<1>6. \A f : Darwin!InEffect(a, f)' <=> Darwin!InEffect(a, f)
  <2>1. Darwin!compareFor(a)' = Darwin!compareFor(a)
    BY DEF Darwin!compareFor, Darwin!compare, Darwin!Wanted
  <2> QED BY <2>1 DEF Darwin!InEffect
<1>7. \A f \in darwinCall[a].changed : Darwin!InEffect(a, f)' \/ Darwin!Joined(a, f)
  BY <1>6, DarwinReported DEF Reported, Darwin!Joined
<1> QED BY <1>2, <1>3, <1>4, <1>5, <1>7, DarwinFailing

LEMMA Listing ==
  ASSUME NEW N, NEW t \in Seq(N), N \subseteq ToSet(t), "hidden" \in N, N \subseteq Commands
  PROVE  /\ t \in Seq(Commands) /\ t # <<>>
         /\ \A i \in 1..Len(t) : t[i] \in N
         /\ \A f \in N : \E i \in 1..Len(t) : t[i] = f
<1>1. \A i \in 1..Len(t) : t[i] \in N
  OBVIOUS
<1>2. \A f \in N : \E i \in 1..Len(t) : t[i] = f
  BY DEF ToSet
<1>3. t # <<>>
  BY <1>2
<1>4. t \in Seq(Commands)
  OBVIOUS
<1> QED BY <1>1, <1>2, <1>3, <1>4

\* From the group to the account: everything that is needed is still to be set.
LEMMA DarwinToAccount ==
  ASSUME Darwin!DarwinConstants, DarwinInv, NEW a \in Accounts, darwinCall[a].pc \in {"group", "setgid"},
         NEW ch \in SUBSET {"group record"}, NEW did \in SUBSET Darwin!Changes,
         Darwin!ToAccount(a, ch, did),
         UNCHANGED <<darwinPolicy, rec, darwinHome, overlap, darwinFaults>>,
         NEW g \in Nat, gid' = [gid EXCEPT ![a] = g] \/ (g = gid[a] /\ gid' = gid),
         g <= MaxID \/ g = MaxID + a,
         g # 0, darwinPolicy.gid => g = MaxID + a,
         ~overlap => \A b \in Accounts \ {a} : g # gid[b]
  PROVE  DarwinStepOf(a)
<1> DEFINE c == darwinCall[a]
           r == [c EXCEPT !.pc = "account", !.todo = Darwin!Todo(a),
                          !.changed = c.changed \cup ch, !.did = c.did \cup did]
           N == Needed(c.new)
<1>1. /\ Darwin!Active(a) /\ DarwinType /\ DarwinSound(a) /\ c \in DarwinCall
      /\ c.changed = {} /\ ~c.ok
  BY DarwinEarly
<1>2. Darwin!Todo(a) \in Seq(N) /\ N \subseteq ToSet(Darwin!Todo(a)) /\ "hidden" \in N /\ N \subseteq Commands
  <2>1. "hidden" \in N /\ N \subseteq Commands
    BY DEF Needed, Commands
  <2> QED BY <1>1, <2>1, TodoIs
<1> HIDE DEF N
<1>3. /\ Darwin!Todo(a) \in Seq(Commands) /\ Darwin!Todo(a) # <<>>
      /\ \A i \in 1..Len(Darwin!Todo(a)) : Darwin!Todo(a)[i] \in N
      /\ \A f \in N : \E i \in 1..Len(Darwin!Todo(a)) : Darwin!Todo(a)[i] = f
  BY ZenonT(30), <1>2, Listing
<1>4. /\ r \in DarwinCall /\ r.pc = "account" /\ r.todo = Darwin!Todo(a) /\ r.changed = ch
      /\ (r.new <=> c.new) /\ r.new = c.new /\ r.id = c.id /\ ~r.ok
  <2>1. ch \subseteq Darwin!Changes /\ "account" \in DarwinPC
    BY DEF Darwin!Changes, DarwinPC
  <2> HIDE DEF c
  <2> QED BY <1>1, <1>3, <2>1 DEF DarwinCall
<1>5. darwinCall' = [darwinCall EXCEPT ![a] = r]
  BY <1>1 DEF Darwin!ToAccount, DarwinType
<1> HIDE DEF r
<1>6. darwinCall'[a] = r
  BY <1>1, <1>4, <1>5, DarwinMoves
<1>7. gid' \in [Accounts -> Nat] /\ gid'[a] = g /\ \A b \in Accounts \ {a} : gid'[b] = gid[b]
  BY <1>1 DEF DarwinType
<1>8. rec' \in [Accounts -> Darwin!Record] /\ darwinHome' \in [Accounts -> {"absent", "made", "owned"}]
  BY <1>1 DEF DarwinType
<1>9. OthersStay(a)
  BY <1>7 DEF OthersStay
<1>10. Complete(a)' <=> Complete(a)
  BY DEF Complete
<1>11. Setting(a)'
  <2>1. GroupReady(a)'
    BY <1>7 DEF GroupReady
  <2>2. Needed(darwinCall[a].new)' = N
    BY <1>4, <1>6 DEF Needed, N
  <2>3. /\ \A i \in 1..Len(r.todo) : r.todo[i] \in N
        /\ \A f \in N : \E i \in 1..Len(r.todo) : r.todo[i] = f
    BY ZenonT(30), <1>3, <1>4
  <2>4. r.changed \subseteq {"group record"}
    BY <1>4
  <2> QED BY <1>6, <2>1, <2>2, <2>3, <2>4 DEF Setting
<1>12. DarwinSound(a)'
  BY <1>1, <1>3, <1>4, <1>6, <1>7, <1>10, <1>11 DEF DarwinSound, Deciding, Applied
<1>13. NobodyElses(a)
  <2> SUFFICES ASSUME ~overlap, NEW b \in Accounts \ {a}
               PROVE  /\ rec'[a].uid = 0 \/ rec'[a].uid # rec[b].uid
                      /\ gid'[a] = 0 \/ gid'[a] # gid[b]
                      /\ r.new => r.id # rec[b].uid
    BY <1>4, <1>6 DEF NobodyElses
  <2>1. Apart(a, b)
    BY DEF DarwinInv
  <2> QED BY <1>4, <1>7, <2>1 DEF Apart, Deciding
<1> QED BY <1>1, <1>4, <1>5, <1>7, <1>8, <1>9, <1>12, <1>13, DarwinGoing

\* A step that chooses an identifier, or that has made the group.
LEMMA DarwinChooses ==
  ASSUME Darwin!DarwinConstants, DarwinInv, NEW a \in Accounts,
         darwinCall[a].pc \in {"uid", "group", "gid", "setgid"},
         UNCHANGED <<darwinPolicy, rec, darwinHome, overlap, darwinFaults>>,
         NEW g \in Nat, gid' = [gid EXCEPT ![a] = g] \/ (g = gid[a] /\ gid' = gid),
         g <= MaxID \/ g = MaxID + a,
         ~overlap => \A b \in Accounts \ {a} : g = 0 \/ g # gid[b],
         NEW r \in DarwinCall, darwinCall' = [darwinCall EXCEPT ![a] = r],
         r.pc \in {"group", "gid", "setgid"}, r.changed = {}, r.todo = <<>>, ~r.ok,
         r.new <=> darwinCall[a].new,
         r.new => r.id # 0 /\ (~overlap => \A b \in Accounts \ {a} : r.id # rec[b].uid),
         r.pc = "setgid" =>
           /\ r.group # 0 /\ (r.group <= MaxID \/ r.group = MaxID + a)
           /\ darwinPolicy.gid => r.group = MaxID + a
           /\ ~overlap => \A b \in Accounts \ {a} : r.group # gid[b]
  PROVE  DarwinStepOf(a)
<1>1. /\ Darwin!Active(a) /\ DarwinType /\ DarwinSound(a) /\ darwinCall[a] \in DarwinCall
  BY DarwinEarly
<1>2. darwinCall'[a] = r
  BY <1>1, DarwinMoves
<1>3. gid' \in [Accounts -> Nat] /\ gid'[a] = g /\ \A b \in Accounts \ {a} : gid'[b] = gid[b]
  BY <1>1 DEF DarwinType
<1>4. rec' \in [Accounts -> Darwin!Record] /\ darwinHome' \in [Accounts -> {"absent", "made", "owned"}]
  BY <1>1 DEF DarwinType
<1>5. OthersStay(a)
  BY <1>3 DEF OthersStay
<1>6. Complete(a)' <=> Complete(a)
  BY DEF Complete
<1>7. DarwinSound(a)'
  BY <1>1, <1>2, <1>3, <1>6 DEF DarwinSound, Deciding, Applied
<1>8. NobodyElses(a)
  <2> SUFFICES ASSUME ~overlap, NEW b \in Accounts \ {a}
               PROVE  /\ rec'[a].uid = 0 \/ rec'[a].uid # rec[b].uid
                      /\ gid'[a] = 0 \/ gid'[a] # gid[b]
                      /\ r.new => r.id # rec[b].uid
                      /\ r.pc = "setgid" => r.group # gid[b]
    BY <1>2 DEF NobodyElses
  <2>1. Apart(a, b)
    BY DEF DarwinInv
  <2> QED BY <1>3, <2>1 DEF Apart
<1>9. r.pc # "idle"
  OBVIOUS
<1> QED BY <1>1, <1>3, <1>4, <1>5, <1>7, <1>8, <1>9, DarwinGoing

\* What the group of a call says of itself and to the others.
LEMMA GroupKnown ==
  ASSUME DarwinInv, NEW a \in Accounts
  PROVE  /\ gid[a] \in Nat /\ (gid[a] <= MaxID \/ gid[a] = MaxID + a)
         /\ ~overlap => \A b \in Accounts \ {a} : gid[a] = 0 \/ gid[a] # gid[b]
         /\ ~overlap /\ darwinCall[a].pc \in Deciding /\ darwinCall[a].new =>
              \A b \in Accounts \ {a} : darwinCall[a].id # rec[b].uid
  BY DEF DarwinInv, DarwinType, DarwinSound, Apart

LEMMA DarwinAllocateUID ==
  ASSUME Darwin!DarwinConstants, DarwinInv, NEW a \in Accounts, Darwin!AllocateUID(a)
  PROVE  DarwinStepOf(a)
<1> DEFINE c == darwinCall[a]
           n == Darwin!allocateID(Darwin!UIDs)
           r == [c EXCEPT !.pc = "group", !.id = n]
<1>1. /\ c.pc = "uid" /\ c.new /\ Darwin!Active(a) /\ DarwinType /\ c \in DarwinCall
      /\ c.changed = {} /\ ~c.ok /\ c.todo = <<>>
  <2>1. darwinCall[a].pc = "uid"
    BY DEF Darwin!AllocateUID
  <2> QED BY <2>1, DarwinEarly DEF DarwinSound
<1>2. UNCHANGED <<darwinPolicy, rec, gid, darwinHome, overlap>>
  BY DEF Darwin!AllocateUID
<1>3. CASE Darwin!Fails(a)
  BY <1>1, <1>2, <1>3, DarwinFailsAlone
<1>4. CASE darwinCall' = [darwinCall EXCEPT ![a].pc = "group", ![a].id = n] /\ UNCHANGED darwinFaults
  <2>1. n \in 1..MaxID /\ n # 0 /\ \A b \in Accounts : n # rec[b].uid
    BY <1>1, FreshUID
  <2>2. n \in 0..MaxID
    BY <2>1 DEF Darwin!DarwinConstants
  <2> HIDE DEF n
  <2>3. /\ r \in DarwinCall /\ r.pc = "group" /\ r.changed = {} /\ r.todo = <<>> /\ ~r.ok /\ r.new
        /\ r.id = n
    <3> HIDE DEF c
    <3> QED BY <1>1, <2>2 DEF DarwinCall, DarwinPC
  <2>4. darwinCall' = [darwinCall EXCEPT ![a] = r]
    BY <1>1, <1>4 DEF DarwinType
  <2> HIDE DEF r
  <2> QED BY ZenonT(30), <1>1, <1>2, <1>4, <2>1, <2>3, <2>4, GroupKnown, DarwinChooses
<1> QED BY <1>3, <1>4 DEF Darwin!AllocateUID

\* The GID of the specification is no other group's.
LEMMA WantedIs ==
  ASSUME Darwin!DarwinConstants, DarwinInv, NEW a \in Accounts, darwinPolicy.gid
  PROVE  /\ Darwin!Wanted(a) = MaxID + a /\ MaxID + a \in Nat /\ MaxID + a # 0
         /\ \A b \in Accounts \ {a} : MaxID + a # gid[b]
<1>1. Accounts \subseteq Nat \ {0} /\ MaxID \in Nat
  BY DEF Darwin!DarwinConstants
<1>2. \A b \in Accounts : gid[b] \in Nat /\ (gid[b] <= MaxID \/ gid[b] = MaxID + b)
  BY GroupKnown
<1> QED BY <1>1, <1>2 DEF Darwin!Wanted

LEMMA DarwinEnsureGroup ==
  ASSUME Darwin!DarwinConstants, DarwinInv, NEW a \in Accounts, Darwin!EnsureGroup(a)
  PROVE  DarwinStepOf(a)
<1> DEFINE c == darwinCall[a]
           m == Darwin!Max(Darwin!IDs \ Darwin!GIDs)
<1>1. /\ c.pc = "group" /\ Darwin!Active(a) /\ DarwinType /\ DarwinSound(a) /\ c \in DarwinCall
      /\ c.changed = {} /\ ~c.ok /\ c.todo = <<>>
  <2>1. darwinCall[a].pc = "group"
    BY DEF Darwin!EnsureGroup
  <2> QED BY <2>1, DarwinEarly
<1>2. UNCHANGED <<darwinPolicy, rec, darwinHome, overlap>>
  BY DEF Darwin!EnsureGroup
<1>3. CASE Darwin!Fails(a) /\ UNCHANGED gid
  BY <1>1, <1>2, <1>3, DarwinFailsAlone
<1>4. CASE /\ gid[a] # 0 /\ Darwin!Wanted(a) \in {0, gid[a]}
           /\ Darwin!ToAccount(a, {}, {}) /\ UNCHANGED <<gid, darwinFaults>>
  <2>1. darwinPolicy.gid => gid[a] = MaxID + a
    BY <1>4, WantedIs
  <2>2. {} \in SUBSET {"group record"} /\ {} \in SUBSET Darwin!Changes
    OBVIOUS
  <2> QED BY <1>1, <1>2, <1>4, <2>1, <2>2, GroupKnown, DarwinToAccount
<1>5. CASE /\ gid[a] # 0 /\ Darwin!Wanted(a) \notin {0, gid[a]}
           /\ gid' = [gid EXCEPT ![a] = Darwin!Wanted(a)]
           /\ \/ Darwin!ToAccount(a, {}, {"group gid"}) /\ UNCHANGED darwinFaults
              \/ Darwin!Fails(a)
  <2>1. darwinPolicy.gid
    BY <1>5 DEF Darwin!Wanted, Darwin!NoID
  <2>2. /\ Darwin!Wanted(a) = MaxID + a /\ MaxID + a \in Nat /\ MaxID + a # 0
        /\ \A b \in Accounts \ {a} : MaxID + a # gid[b]
    BY <2>1, WantedIs
  <2>3. {} \in SUBSET {"group record"} /\ {"group gid"} \in SUBSET Darwin!Changes
    BY DEF Darwin!Changes
  <2> DEFINE g == MaxID + a
  <2>4. g \in Nat /\ g # 0 /\ g = MaxID + a /\ gid' = [gid EXCEPT ![a] = g] /\ \A b \in Accounts \ {a} : g # gid[b]
    BY <1>5, <2>2
  <2> HIDE DEF g
  <2>5. CASE Darwin!ToAccount(a, {}, {"group gid"}) /\ UNCHANGED darwinFaults
    BY <1>1, <1>2, <2>3, <2>4, <2>5, DarwinToAccount
  <2>6. CASE Darwin!Fails(a)
    BY <1>1, <1>2, <2>4, <2>6, DarwinEarlyFails
  <2> QED BY <1>5, <2>5, <2>6
<1>6. CASE /\ gid[a] = 0 /\ gid' = [gid EXCEPT ![a] = m]
           /\ \/ /\ darwinCall' = [darwinCall EXCEPT ![a].pc = "gid", ![a].did = @ \cup {"group record"}]
                 /\ UNCHANGED darwinFaults
              \/ Darwin!Fails(a)
  <2>1. m \in Nat /\ m # 0 /\ m <= MaxID /\ \A b \in Accounts : m # gid[b]
    <3>1. m \in 1..MaxID /\ \A b \in Accounts : m # gid[b]
      BY <1>1, FreshGID
    <3> QED BY <3>1
  <2>2. gid' = [gid EXCEPT ![a] = m]
    BY <1>6
  <2> HIDE DEF m
  <2>3. CASE Darwin!Fails(a)
    BY <1>1, <1>2, <2>1, <2>2, <2>3, DarwinEarlyFails
  <2>4. CASE /\ darwinCall' = [darwinCall EXCEPT ![a].pc = "gid", ![a].did = @ \cup {"group record"}]
             /\ UNCHANGED darwinFaults
    <3> DEFINE r == [c EXCEPT !.pc = "gid", !.did = c.did \cup {"group record"}]
    <3>1. darwinCall' = [darwinCall EXCEPT ![a] = r]
      BY <1>1, <2>4 DEF DarwinType
    <3>2. /\ r \in DarwinCall /\ r.pc = "gid" /\ r.changed = {} /\ r.todo = <<>> /\ ~r.ok
          /\ (r.new <=> c.new) /\ r.id = c.id
      <4>1. "group record" \in Darwin!Changes /\ "gid" \in DarwinPC
        BY DEF Darwin!Changes, DarwinPC
      <4> HIDE DEF c
      <4> QED BY <1>1, <4>1 DEF DarwinCall
    <3> HIDE DEF r
    <3>3. r.new => r.id # 0 /\ (~overlap => \A b \in Accounts \ {a} : r.id # rec[b].uid)
      BY <1>1, <3>2, GroupKnown DEF DarwinSound, Deciding
    <3> QED BY <1>1, <1>2, <2>1, <2>2, <2>4, <3>1, <3>2, <3>3, DarwinChooses
  <2> QED BY <1>6, <2>3, <2>4
<1> QED BY <1>3, <1>4, <1>5, <1>6 DEF Darwin!EnsureGroup, Darwin!NoID

LEMMA DarwinAllocateGID ==
  ASSUME Darwin!DarwinConstants, DarwinInv, NEW a \in Accounts, Darwin!AllocateGID(a)
  PROVE  DarwinStepOf(a)
<1> DEFINE c == darwinCall[a]
           g == IF darwinPolicy.gid THEN Darwin!Wanted(a) ELSE Darwin!allocateID(Darwin!GIDs)
           r == [c EXCEPT !.pc = "setgid", !.group = g]
<1>1. /\ c.pc = "gid" /\ Darwin!Active(a) /\ DarwinType /\ DarwinSound(a) /\ c \in DarwinCall
      /\ c.changed = {} /\ ~c.ok /\ c.todo = <<>>
  <2>1. darwinCall[a].pc = "gid"
    BY DEF Darwin!AllocateGID
  <2> QED BY <2>1, DarwinEarly
<1>2. UNCHANGED <<darwinPolicy, rec, gid, darwinHome, overlap>>
  BY DEF Darwin!AllocateGID
<1>3. CASE Darwin!Fails(a)
  BY <1>1, <1>2, <1>3, DarwinFailsAlone
<1>4. CASE darwinCall' = [darwinCall EXCEPT ![a].pc = "setgid", ![a].group = g] /\ UNCHANGED darwinFaults
  <2>1. /\ g \in Nat /\ g # 0 /\ (g <= MaxID \/ g = MaxID + a)
        /\ darwinPolicy.gid => g = MaxID + a
        /\ \A b \in Accounts \ {a} : g # gid[b]
    <3>1. CASE darwinPolicy.gid
      BY <3>1, WantedIs
    <3>2. CASE ~darwinPolicy.gid
      <4>1. /\ Darwin!allocateID(Darwin!GIDs) \in 1..MaxID
            /\ \A b \in Accounts : Darwin!allocateID(Darwin!GIDs) # gid[b]
        BY <1>1, FreshGID
      <4> QED BY <3>2, <4>1
    <3> QED BY <3>1, <3>2
  <2> HIDE DEF g
  <2>2. darwinCall' = [darwinCall EXCEPT ![a] = r]
    BY <1>1, <1>4 DEF DarwinType
  <2>3. /\ r \in DarwinCall /\ r.pc = "setgid" /\ r.changed = {} /\ r.todo = <<>> /\ ~r.ok
        /\ (r.new <=> c.new) /\ r.id = c.id /\ r.group = g
    <3> HIDE DEF c
    <3> QED BY <1>1, <2>1 DEF DarwinCall, DarwinPC
  <2> HIDE DEF r
  <2>4. r.new => r.id # 0 /\ (~overlap => \A b \in Accounts \ {a} : r.id # rec[b].uid)
    BY <1>1, <2>3, GroupKnown DEF DarwinSound, Deciding
  <2> QED BY ZenonT(30), <1>1, <1>2, <1>4, <2>1, <2>2, <2>3, <2>4, GroupKnown, DarwinChooses
<1> QED BY <1>3, <1>4 DEF Darwin!AllocateGID

LEMMA DarwinSetGID ==
  ASSUME Darwin!DarwinConstants, DarwinInv, NEW a \in Accounts, Darwin!SetGID(a)
  PROVE  DarwinStepOf(a)
<1> DEFINE c == darwinCall[a]
<1>1. /\ c.pc = "setgid" /\ Darwin!Active(a) /\ DarwinType /\ DarwinSound(a) /\ c \in DarwinCall
  <2>1. darwinCall[a].pc = "setgid"
    BY DEF Darwin!SetGID
  <2> QED BY <2>1, DarwinEarly
<1>2. UNCHANGED <<darwinPolicy, rec, darwinHome, overlap>>
  BY DEF Darwin!SetGID
<1>3. CASE Darwin!Fails(a) /\ UNCHANGED gid
  BY <1>1, <1>2, <1>3, DarwinFailsAlone
<1>4. CASE /\ gid' = [gid EXCEPT ![a] = c.group]
           /\ \/ Darwin!ToAccount(a, {"group record"}, {}) /\ UNCHANGED darwinFaults
              \/ Darwin!Fails(a)
  <2> DEFINE g == c.group
  <2>1. /\ g \in Nat /\ g # 0 /\ (g <= MaxID \/ g = MaxID + a)
        /\ darwinPolicy.gid => g = MaxID + a
        /\ gid' = [gid EXCEPT ![a] = g]
    BY <1>1, <1>4 DEF DarwinSound, DarwinCall
  <2>2. ~overlap => \A b \in Accounts \ {a} : g # gid[b]
    BY <1>1 DEF DarwinInv, Apart
  <2>3. {"group record"} \in SUBSET {"group record"} /\ {} \in SUBSET Darwin!Changes
    OBVIOUS
  <2> HIDE DEF g
  <2>4. CASE Darwin!ToAccount(a, {"group record"}, {}) /\ UNCHANGED darwinFaults
    BY <1>1, <1>2, <2>1, <2>2, <2>3, <2>4, DarwinToAccount
  <2>5. CASE Darwin!Fails(a)
    BY <1>1, <1>2, <2>1, <2>2, <2>5, DarwinEarlyFails
  <2> QED BY <1>4, <2>4, <2>5
<1> QED BY <1>3, <1>4 DEF Darwin!SetGID

\* What one command does to the record.
LEMMA AssignedIs ==
  ASSUME Darwin!DarwinConstants, DarwinType, NEW a \in Accounts,
         NEW f \in Commands, f = Head(darwinCall[a].todo)
  PROVE  LET v == Darwin!Assigned(a) IN
         /\ v \in Darwin!Record
         /\ v.exists <=> (rec[a].exists \/ f = "record")
         /\ v.uid = IF f = "uid" THEN darwinCall[a].id ELSE rec[a].uid
         /\ v.gid = IF f = "group" THEN gid[a] ELSE rec[a].gid
         /\ \A x \in Darwin!Attributes : v.attr[x] = IF f = x THEN "spec" ELSE rec[a].attr[x]
<1> DEFINE old == rec[a]
           id == darwinCall[a].id
           g == gid[a]
<1>1. old \in Darwin!Record /\ id \in Darwin!IDs \cup {Darwin!NoID} /\ g \in Nat
  <2>1. 0..MaxID = 1..MaxID \cup {0}
    BY DEF Darwin!DarwinConstants
  <2> QED BY <2>1 DEF DarwinType, DarwinCall, Darwin!IDs, Darwin!NoID
<1>2. CASE f = "record"
  <2>1. Darwin!Assigned(a) = [old EXCEPT !.exists = TRUE]
    BY <1>2 DEF Darwin!Assigned
  <2> HIDE DEF old
  <2> QED BY <1>1, <1>2, <2>1 DEF Darwin!Record, Darwin!Attributes, old
<1>3. CASE f = "uid"
  <2>1. Darwin!Assigned(a) = [old EXCEPT !.uid = id]
    BY <1>3 DEF Darwin!Assigned
  <2> HIDE DEF old, id
  <2> QED BY <1>1, <1>3, <2>1 DEF Darwin!Record, Darwin!Attributes, old, id
<1>4. CASE f = "group"
  <2>1. Darwin!Assigned(a) = [old EXCEPT !.gid = g]
    BY <1>4 DEF Darwin!Assigned
  <2> HIDE DEF old, g
  <2> QED BY <1>1, <1>4, <2>1 DEF Darwin!Record, Darwin!Attributes, old, g
<1>5. CASE f \in Darwin!Attributes
  <2>1. Darwin!Assigned(a) = [old EXCEPT !.attr[f] = "spec"]
    BY <1>5 DEF Darwin!Assigned, Darwin!Attributes
  <2>2. f \notin {"record", "uid", "group"}
    BY <1>5 DEF Darwin!Attributes
  <2> HIDE DEF old
  <2> QED BY <1>1, <1>5, <2>1, <2>2 DEF Darwin!Record, old
<1> QED BY <1>2, <1>3, <1>4, <1>5 DEF Commands, Darwin!Attributes

\* A command that takes effect: what was set stays so, and its own attribute
\* is set.
LEMMA Assigning ==
  ASSUME Darwin!DarwinConstants, DarwinInv, NEW a \in Accounts, darwinCall[a].pc = "account",
         UNCHANGED <<darwinPolicy, gid>>, rec' = [rec EXCEPT ![a] = Darwin!Assigned(a)]
  PROVE  /\ rec' \in [Accounts -> Darwin!Record] /\ \A b \in Accounts \ {a} : rec'[b] = rec[b]
         /\ rec'[a].attr["leave"] = "spec" \/ Complete(a)'
         /\ ~darwinCall[a].new => Complete(a)'
         /\ \A x \in Needed(darwinCall[a].new) :
              IsSet(a, x) \/ x = Head(darwinCall[a].todo) => IsSet(a, x)'
         /\ ~overlap => \A b \in Accounts \ {a} : rec'[a].uid = 0 \/ rec'[a].uid # rec[b].uid
<1> DEFINE c == darwinCall[a]
           f == Head(c.todo)
           v == Darwin!Assigned(a)
<1>1. DarwinType /\ DarwinSound(a) /\ c \in DarwinCall
  BY DEF DarwinInv, DarwinType
<1>2. /\ Setting(a) /\ c.todo \in Seq(Commands) /\ c.todo # <<>>
      /\ IF c.new THEN c.id # 0 ELSE Complete(a)
      /\ rec[a].attr["leave"] = "spec" \/ Complete(a)
  BY <1>1 DEF DarwinSound, DarwinCall, Deciding
<1>3. f \in Needed(c.new) /\ f \in Commands /\ gid[a] # 0
  <2>1. f = c.todo[1] /\ 1 \in 1..Len(c.todo)
    BY <1>2
  <2>2. /\ \A i \in 1..Len(c.todo) : c.todo[i] \in Needed(c.new)
        /\ gid[a] # 0
    BY <1>2 DEF Setting, GroupReady
  <2>3. Needed(c.new) \subseteq Commands
    BY DEF Needed, Commands
  <2> HIDE DEF f
  <2> QED BY <2>1, <2>2, <2>3
<1>4. /\ v \in Darwin!Record
      /\ v.exists <=> (rec[a].exists \/ f = "record")
      /\ v.uid = IF f = "uid" THEN c.id ELSE rec[a].uid
      /\ v.gid = IF f = "group" THEN gid[a] ELSE rec[a].gid
      /\ \A x \in Darwin!Attributes : v.attr[x] = IF f = x THEN "spec" ELSE rec[a].attr[x]
  BY <1>1, <1>3, AssignedIs
<1>5. rec' \in [Accounts -> Darwin!Record] /\ rec'[a] = v /\ \A b \in Accounts \ {a} : rec'[b] = rec[b]
  BY <1>1, <1>4 DEF DarwinType
<1>6. ~c.new => f # "uid"
  BY <1>3 DEF Needed
<1> HIDE DEF v, f
<1>7. Complete(a) => Complete(a)'
  <2> SUFFICES ASSUME Complete(a)
               PROVE  Complete(a)'
    OBVIOUS
  <2>1. v.exists /\ v.uid # 0 /\ v.gid # 0
    BY <1>2, <1>3, <1>4, <1>6 DEF Complete
  <2> QED BY <1>5, <2>1 DEF Complete
<1>10. rec[a].attr["leave"] = "spec" => rec'[a].attr["leave"] = "spec"
  BY <1>4, <1>5 DEF Darwin!Attributes
<1>8. ASSUME NEW x \in Needed(c.new), IsSet(a, x) \/ x = f
      PROVE  IsSet(a, x)'
  <2>1. x \in Commands
    BY DEF Needed, Commands
  <2>2. CASE x = "record"
    BY <1>4, <1>5, <1>8, <2>2 DEF IsSet
  <2>3. CASE x = "uid"
    <3>1. c.new
      BY <2>3 DEF Needed
    <3>2. v.uid # 0
      BY <1>2, <1>4, <1>8, <2>3, <3>1 DEF IsSet
    <3> QED BY <1>5, <2>3, <3>2 DEF IsSet
  <2>4. CASE x = "group"
    BY <1>4, <1>5, <1>8, <2>4 DEF IsSet
  <2>5. CASE x \in Darwin!Attributes
    <3>1. x \notin {"record", "uid", "group"}
      BY <2>5 DEF Darwin!Attributes
    <3>2. v.attr[x] = "spec"
      BY <1>4, <1>8, <2>5, <3>1 DEF IsSet
    <3> QED BY <1>5, <3>1, <3>2 DEF IsSet
  <2> QED BY <2>1, <2>2, <2>3, <2>4, <2>5 DEF Commands, Darwin!Attributes
<1>9. ASSUME ~overlap, NEW b \in Accounts \ {a}
      PROVE  rec'[a].uid = 0 \/ rec'[a].uid # rec[b].uid
  <2>1. Apart(a, b)
    BY <1>9 DEF DarwinInv
  <2> QED BY <1>4, <1>5, <1>6, <2>1 DEF Apart, Deciding
<1> QED BY <1>2, <1>5, <1>7, <1>8, <1>9, <1>10 DEF f

\* When the last command has run, the record agrees.
LEMMA AllSet ==
  ASSUME NEW a \in Accounts, GroupReady(a)', UNCHANGED darwinPolicy,
         NEW new \in BOOLEAN,
         ~new => Complete(a)',
         \A x \in Needed(new) : IsSet(a, x)'
  PROVE  /\ Complete(a)' /\ Darwin!compareFor(a)' \subseteq {"groups"}
         /\ rec'[a].attr["join"] = "spec"
         /\ ~new => Darwin!compareFor(a)' = {}
<1>1. "hidden" \in Needed(new) /\ "group" \in Needed(new) /\ "join" \in Needed(new)
  BY DEF Needed
<1>2. rec'[a].attr["hidden"] = "spec" /\ rec'[a].gid = gid'[a] /\ rec'[a].attr["join"] = "spec"
  BY <1>1 DEF IsSet
<1>3. darwinPolicy.home # "LeaveHomeUnchanged" => rec'[a].attr["home"] = "spec"
  <2> SUFFICES ASSUME darwinPolicy.home # "LeaveHomeUnchanged"
               PROVE  rec'[a].attr["home"] = "spec"
    OBVIOUS
  <2>1. "home" \in Needed(new)
    BY DEF Needed
  <2> QED BY <2>1 DEF IsSet
<1>4. darwinPolicy.shell => rec'[a].attr["shell"] = "spec"
  <2> SUFFICES ASSUME darwinPolicy.shell
               PROVE  rec'[a].attr["shell"] = "spec"
    OBVIOUS
  <2>1. "shell" \in Needed(new)
    BY DEF Needed
  <2> QED BY <2>1 DEF IsSet
<1>5. (~new => rec'[a].attr["leave"] = "spec") /\ Complete(a)'
  <2>1. CASE new
    <3>1. "record" \in Needed(new) /\ "uid" \in Needed(new)
      BY <2>1 DEF Needed
    <3>2. rec'[a].exists /\ rec'[a].uid # 0
      BY <3>1 DEF IsSet
    <3> QED BY <1>2, <2>1, <3>2 DEF Complete, GroupReady
  <2>2. CASE ~new
    <3>1. "leave" \in Needed(new)
      BY <2>2 DEF Needed
    <3> QED BY <2>2, <3>1 DEF IsSet
  <2> QED BY <2>1, <2>2
<1> QED BY <1>2, <1>3, <1>4, <1>5 DEF Darwin!compareFor, Darwin!compare, Darwin!Wanted, GroupReady

LEMMA DoneType ==
  ASSUME NEW a \in Accounts, Head(darwinCall[a].todo) \in Commands
  PROVE  Darwin!Done(a) \in SUBSET Darwin!Changes
<1> DEFINE f == Head(darwinCall[a].todo)
<1> DEFINE d == CASE f = "record" -> "account" [] f \in {"join", "leave"} -> "groups" [] OTHER -> f
<1>1. d \in Darwin!Changes
  <2> HIDE DEF f
  <2>1. f \in Commands
    BY DEF f
  <2> QED BY <2>1 DEF Commands, Darwin!Changes
<1>2. Darwin!Done(a) \in {{}, {d}}
  BY DEF Darwin!Done
<1> HIDE DEF d
<1> QED BY <1>1, <1>2

LEMMA TailIs ==
  ASSUME NEW S, NEW t \in Seq(S), t # <<>>, Len(t) # 1
  PROVE  /\ Len(Tail(t)) = Len(t) - 1 /\ Len(t) \in Nat /\ Len(t) > 1
         /\ Tail(t) # <<>> /\ Head(t) = t[1]
         /\ \A i \in 1..(Len(t) - 1) : Tail(t)[i] = t[i + 1]
<1>1. Len(t) \in Nat /\ Len(t) > 1
  <2>1. Len(t) \in Nat \ {0}
    BY EmptySeq
  <2>2. \A n \in Nat \ {0} : n # 1 => n > 1 /\ n \in Nat
    OBVIOUS
  <2> QED BY <2>1, <2>2
<1>2. Len(Tail(t)) = Len(t) - 1 /\ Head(t) = t[1] /\ Tail(t) \in Seq(S)
  BY <1>1
<1>3. Tail(t) # <<>>
  <2>1. Len(Tail(t)) # 0
    BY <1>1, <1>2
  <2> QED BY <2>1, EmptySeq
<1>4. \A i \in 1..(Len(t) - 1) : Tail(t)[i] = t[i + 1]
  BY <1>1, <1>2
<1> QED BY <1>1, <1>2, <1>3, <1>4

LEMMA LastIs ==
  ASSUME NEW S, NEW t \in Seq(S), t # <<>>, Len(t) = 1
  PROVE  Tail(t) = <<>> /\ \A i \in 1..Len(t) : t[i] = Head(t)
<1>1. Tail(t) \in Seq(S) /\ Len(Tail(t)) = 0
  OBVIOUS
<1>2. Tail(t) = <<>>
  BY <1>1, EmptySeq
<1>3. Head(t) = t[1]
  OBVIOUS
<1>4. \A i \in 1..Len(t) : i = 1
  OBVIOUS
<1> QED BY <1>2, <1>3, <1>4

LEMMA DarwinSetAttribute ==
  ASSUME Darwin!DarwinConstants, DarwinInv, NEW a \in Accounts, Darwin!SetAttribute(a)
  PROVE  DarwinStepOf(a)
<1> DEFINE c == darwinCall[a]
           last == Len(c.todo) = 1
           more == IF c.new THEN Darwin!creationChanges ELSE c.before
           r == [c EXCEPT !.todo = Tail(@), !.did = @ \cup Darwin!Done(a),
                          !.pc = IF last THEN Darwin!AfterAccount ELSE @,
                          !.changed = IF ~last THEN @ ELSE @ \cup more]
<1>1. /\ c.pc = "account" /\ Darwin!Active(a) /\ DarwinType /\ DarwinSound(a) /\ c \in DarwinCall
      /\ UNCHANGED <<darwinPolicy, gid, darwinHome, overlap>>
  BY DEF DarwinInv, DarwinType, Darwin!SetAttribute, Darwin!Active
<1>2. /\ Setting(a) /\ c.todo \in Seq(Commands) /\ c.todo # <<>> /\ ~c.ok /\ (c.new => c.id # 0)
  BY <1>1 DEF DarwinSound, DarwinCall, Deciding
<1>3. CASE Darwin!Fails(a) /\ UNCHANGED rec
  BY <1>1, <1>3, DarwinFailsAlone
<1>4. ASSUME rec' = [rec EXCEPT ![a] = Darwin!Assigned(a)]
      PROVE  /\ rec' \in [Accounts -> Darwin!Record] /\ \A b \in Accounts \ {a} : rec'[b] = rec[b]
             /\ rec'[a].attr["leave"] = "spec" \/ Complete(a)'
             /\ ~c.new => Complete(a)'
             /\ \A x \in Needed(c.new) : IsSet(a, x) \/ x = Head(c.todo) => IsSet(a, x)'
             /\ ~overlap => \A b \in Accounts \ {a} : rec'[a].uid = 0 \/ rec'[a].uid # rec[b].uid
  BY <1>1, <1>4, Assigning
<1>5. /\ gid' \in [Accounts -> Nat] /\ darwinHome' \in [Accounts -> {"absent", "made", "owned"}]
      /\ gid'[a] <= MaxID \/ gid'[a] = MaxID + a
      /\ ~overlap => \A b \in Accounts \ {a} : gid'[a] = 0 \/ gid'[a] # gid[b]
  BY <1>1, GroupKnown DEF DarwinType
<1>6. GroupReady(a) /\ GroupReady(a)' /\ c.changed \subseteq {"group record"}
  BY <1>1, <1>2 DEF Setting, GroupReady
<1>7. CASE rec' = [rec EXCEPT ![a] = Darwin!Assigned(a)] /\ Darwin!Fails(a)
  <2>1. OthersStay(a)
    BY <1>1, <1>4, <1>7 DEF OthersStay
  <2>2. \A f \in c.changed : Darwin!InEffect(a, f)' \/ Darwin!Joined(a, f)
    BY <1>6 DEF Darwin!InEffect, GroupReady, Darwin!NoID
  <2>3. rec'[a].attr["leave"] = "spec" \/ Complete(a)'
    BY <1>4, <1>7
  <2> QED BY <1>1, <1>4, <1>5, <1>7, <2>1, <2>2, <2>3, DarwinFailing
<1>8. CASE /\ rec' = [rec EXCEPT ![a] = Darwin!Assigned(a)]
           /\ darwinCall' = [darwinCall EXCEPT ![a] = r] /\ UNCHANGED darwinFaults
  <2> DEFINE next == IF last THEN Darwin!AfterAccount ELSE "account"
             ch == IF ~last THEN c.changed ELSE c.changed \cup more
  <2>1. Tail(c.todo) \in Seq(Commands) /\ Head(c.todo) \in Commands
    <3> HIDE DEF c
    <3> QED BY <1>2
  <2>2. Darwin!Done(a) \in SUBSET Darwin!Changes
    BY <2>1, DoneType
  <2>3. more \in SUBSET (Darwin!Changes \ {"home directory"})
    BY <1>1 DEF DarwinCall, Darwin!creationChanges, Darwin!Changes
  <2>4. next \in DarwinPC /\ next # "idle" /\ (IF last THEN next \in {"mkdir", "verify"} ELSE next = "account")
    BY DEF DarwinPC, Darwin!AfterAccount
  <2>5. ch \in SUBSET Darwin!Changes
    <3> HIDE DEF more
    <3> QED BY <1>1, <2>3 DEF DarwinCall
  <2>6. /\ r \in DarwinCall /\ r.pc = next /\ r.todo = Tail(c.todo) /\ r.changed = ch /\ r.new = c.new
        /\ (r.new <=> c.new) /\ r.id = c.id /\ ~r.ok
    <3>1. r = [c EXCEPT !.todo = Tail(c.todo), !.did = c.did \cup Darwin!Done(a), !.pc = next, !.changed = ch]
      BY <1>1
    <3> HIDE DEF r, next, ch, c
    <3> QED BY <1>1, <1>2, <2>1, <2>2, <2>4, <2>5, <3>1 DEF DarwinCall
  <2>7. darwinCall'[a] = r
    BY <1>1, <1>8, <2>6, DarwinMoves
  <2>8. OthersStay(a)
    BY <1>1, <1>4, <1>8 DEF OthersStay
  <2>9. CASE ~last
    <3>1. /\ Len(Tail(c.todo)) = Len(c.todo) - 1 /\ Len(c.todo) \in Nat /\ Len(c.todo) > 1
          /\ Tail(c.todo) # <<>> /\ Head(c.todo) = c.todo[1]
          /\ \A i \in 1..(Len(c.todo) - 1) : Tail(c.todo)[i] = c.todo[i + 1]
      BY <1>2, <2>9, TailIs
    <3>2. /\ \A i \in 1..Len(c.todo) : c.todo[i] \in Needed(c.new)
          /\ \A f \in Needed(c.new) : IsSet(a, f) \/ \E i \in 1..Len(c.todo) : c.todo[i] = f
      BY <1>2 DEF Setting
    <3>3. ASSUME NEW f \in Needed(c.new)
          PROVE  IsSet(a, f)' \/ \E i \in 1..(Len(c.todo) - 1) : Tail(c.todo)[i] = f
      <4>1. CASE IsSet(a, f) \/ f = Head(c.todo)
        BY <1>4, <1>8, <4>1
      <4>2. CASE \E i \in 1..Len(c.todo) : c.todo[i] = f /\ i # 1
        <5>1. PICK i \in 1..Len(c.todo) : c.todo[i] = f /\ i # 1
          BY <4>2
        <5>2. i - 1 \in 1..(Len(c.todo) - 1) /\ i - 1 + 1 = i
          BY <3>1, <5>1
        <5> QED BY <3>1, <5>1, <5>2
      <4> QED BY <3>1, <3>2, <4>1, <4>2
    <3>4. ASSUME NEW i \in 1..(Len(c.todo) - 1)
          PROVE  Tail(c.todo)[i] \in Needed(c.new)
      <4>1. i + 1 \in 1..Len(c.todo)
        BY <3>1
      <4> QED BY <3>1, <3>2, <4>1
    <3>5. Needed(darwinCall[a].new)' = Needed(c.new)
      BY <1>1, <2>6, <2>7 DEF Needed
    <3>6. Setting(a)'
      <4>1. r.todo = Tail(c.todo) /\ Len(r.todo) = Len(c.todo) - 1 /\ r.changed \subseteq {"group record"}
        BY <1>6, <2>6, <2>9, <3>1
      <4>2. \A i \in 1..Len(r.todo) : r.todo[i] \in Needed(c.new)
        BY <3>4, <4>1
      <4>3. \A f \in Needed(c.new) : IsSet(a, f)' \/ \E i \in 1..Len(r.todo) : r.todo[i] = f
        BY <3>3, <4>1
      <4> HIDE DEF r
      <4> QED BY <1>6, <2>7, <3>5, <4>1, <4>2, <4>3 DEF Setting
    <3>7. r.pc = "account" /\ r.todo # <<>>
      BY <2>4, <2>6, <2>9, <3>1
    <3> HIDE DEF r
    <3>8. DarwinSound(a)'
      BY <1>2, <1>4, <1>5, <1>8, <2>6, <2>7, <3>6, <3>7 DEF DarwinSound, Deciding, Applied
    <3>9. NobodyElses(a)
      BY <1>4, <1>5, <1>8, <1>1, <2>6, <2>7, <3>7, GroupKnown DEF NobodyElses, Deciding
    <3> QED BY <1>1, <1>4, <1>5, <1>8, <2>6, <2>8, <3>7, <3>8, <3>9, DarwinGoing
  <2>10. CASE last
    <3>1. Tail(c.todo) = <<>> /\ \A i \in 1..Len(c.todo) : c.todo[i] = Head(c.todo)
      BY <1>2, <2>10, LastIs
    <3>2. \A f \in Needed(c.new) : IsSet(a, f) \/ \E i \in 1..Len(c.todo) : c.todo[i] = f
      BY <1>2 DEF Setting
    <3>3. \A f \in Needed(c.new) : IsSet(a, f)'
      BY <1>4, <1>8, <3>1, <3>2
    <3>4. c.new \in BOOLEAN /\ (~c.new => Complete(a)')
      BY <1>1, <1>4, <1>8 DEF DarwinCall
    <3>5. /\ Complete(a)' /\ Darwin!compareFor(a)' \subseteq {"groups"}
          /\ rec'[a].attr["join"] = "spec"
          /\ ~c.new => Darwin!compareFor(a)' = {}
      BY <1>1, <1>6, <3>3, <3>4, AllSet
    <3>6. "home directory" \notin r.changed
      <4>1. r.changed = c.changed \cup more
        BY <2>6, <2>10
      <4> HIDE DEF r, more
      <4> QED BY <1>6, <2>3, <4>1
    <3>7. r.pc \in {"mkdir", "verify"} /\ r.todo = <<>>
      BY <2>4, <2>6, <2>10, <3>1
    <3> HIDE DEF r
    <3>8. InAgreement(a)'
      BY <1>6, <2>6, <2>7, <3>5, <3>6 DEF InAgreement
    <3>9. DarwinSound(a)'
      BY <1>5, <2>6, <2>7, <3>5, <3>7, <3>8 DEF DarwinSound, Deciding, Applied
    <3>10. NobodyElses(a)
      BY <1>4, <1>5, <1>8, <2>7, <3>7 DEF NobodyElses, Deciding
    <3>11. r.pc # "idle"
      BY <3>7
    <3> QED BY <1>1, <1>4, <1>5, <1>8, <2>6, <2>8, <3>9, <3>10, <3>11, DarwinGoing
  <2> QED BY <2>9, <2>10
<1> QED BY <1>3, <1>7, <1>8 DEF Darwin!SetAttribute

\* A call returns with what it has recorded.
LEMMA DarwinReturning ==
  ASSUME Darwin!DarwinConstants, DarwinInv, NEW a \in Accounts, Darwin!Active(a),
         NEW ok \in BOOLEAN, Darwin!Return(a, ok, darwinCall[a].changed),
         ok => Complete(a) /\ ~Darwin!Malformed(a) /\ Darwin!found(a) = {},
         UNCHANGED <<darwinPolicy, rec, gid, darwinHome, darwinFaults, overlap>>
  PROVE  DarwinStepOf(a)
<1>1. DarwinType /\ DarwinSound(a) /\ darwinCall[a].changed \in SUBSET Darwin!Changes
  BY DEF DarwinInv, DarwinType, DarwinCall
<1>2. /\ darwinCall' \in [Accounts -> DarwinCall]
      /\ \A b \in Accounts \ {a} : darwinCall'[b] = darwinCall[b]
      /\ LET r == darwinCall'[a] IN
         r.pc = "idle" /\ r.todo = <<>> /\ r.changed = darwinCall[a].changed /\ (r.ok <=> ok)
  BY <1>1, DarwinReturns
<1>3. DarwinType'
  BY <1>1, <1>2 DEF DarwinType
<1>4. OthersStay(a)
  BY DEF OthersStay
<1>5. /\ Darwin!compareFor(a)' = Darwin!compareFor(a)
      /\ Darwin!found(a)' = Darwin!found(a)
      /\ Darwin!Malformed(a)' <=> Darwin!Malformed(a)
      /\ Complete(a)' <=> Complete(a)
  <2>1. Complete(a)' <=> Complete(a)
    BY DEF Complete
  <2>2. Darwin!Malformed(a)' <=> Darwin!Malformed(a)
    BY DEF Darwin!Malformed
  <2>3. Darwin!compareFor(a)' = Darwin!compareFor(a)
    BY Zenon DEF Darwin!compareFor, Darwin!compare, Darwin!Wanted
  <2>4. Darwin!found(a)' = Darwin!found(a)
    BY <2>3, Zenon DEF Darwin!found, Darwin!compareFor, Darwin!HomeMissing, Darwin!Wanted
  <2> QED BY <2>1, <2>2, <2>3, <2>4
<1>6. DarwinSound(a)'
  BY <1>1, <1>2, <1>5 DEF DarwinSound, Deciding, Applied
<1>7. NobodyElses(a)
  <2>1. ~overlap => \A b \in Accounts \ {a} : Apart(a, b)
    BY DEF DarwinInv
  <2> QED BY <1>2, <2>1 DEF NobodyElses, Deciding, Apart
<1>8. ~overlap' => \A b \in Accounts \ {a} : Apart(a, b)' /\ Apart(b, a)'
  BY <1>2, <1>4, <1>7, DarwinApart
<1>9. \A f \in darwinCall[a].changed : Darwin!InEffect(a, f)' \/ Darwin!Joined(a, f)
  <2>1. \A f : Darwin!InEffect(a, f)' <=> Darwin!InEffect(a, f)
    BY <1>5 DEF Darwin!InEffect
  <2> QED BY <2>1, DarwinReported DEF Reported, Darwin!Joined
<1> QED BY <1>2, <1>3, <1>4, <1>6, <1>8, <1>9 DEF DarwinStepOf, OthersStay

\* The facts about a call whose commands have run.
LEMMA DarwinLate ==
  ASSUME DarwinInv, NEW a \in Accounts, darwinCall[a].pc \in Applied
  PROVE  /\ Darwin!Active(a) /\ DarwinType /\ DarwinSound(a) /\ darwinCall[a] \in DarwinCall
         /\ InAgreement(a) /\ ~darwinCall[a].ok /\ darwinCall[a].todo = <<>>
<1>1. DarwinType /\ DarwinSound(a) /\ darwinCall[a].pc \notin {"idle", "account"}
  BY DEF DarwinInv, Applied
<1>2. darwinCall[a] \in DarwinCall
  BY <1>1 DEF DarwinType
<1> QED BY <1>1, <1>2 DEF DarwinSound, Darwin!Active

\* A step of such a call that does not return.
LEMMA DarwinGoesOn ==
  ASSUME Darwin!DarwinConstants, DarwinInv, NEW a \in Accounts, darwinCall[a].pc \in Applied,
         UNCHANGED <<darwinPolicy, rec, gid, overlap, darwinFaults>>,
         NEW h \in {"made", "owned"}, darwinHome' = [darwinHome EXCEPT ![a] = h],
         NEW r \in DarwinCall, darwinCall' = [darwinCall EXCEPT ![a] = r],
         r.pc \in {"own", "verify"}, r.todo = <<>>, ~r.ok, r.new <=> darwinCall[a].new,
         "home directory" \in r.changed => r.pc = "verify"
  PROVE  DarwinStepOf(a)
<1>1. /\ Darwin!Active(a) /\ DarwinType /\ DarwinSound(a) /\ InAgreement(a)
  BY DarwinLate
<1>2. darwinCall'[a] = r
  BY <1>1, DarwinMoves
<1>3. /\ darwinHome' \in [Accounts -> {"absent", "made", "owned"}] /\ darwinHome'[a] = h
      /\ \A b \in Accounts \ {a} : darwinHome'[b] = darwinHome[b]
  BY <1>1 DEF DarwinType
<1>4. rec' \in [Accounts -> Darwin!Record] /\ gid' \in [Accounts -> Nat]
  BY <1>1 DEF DarwinType
<1>5. OthersStay(a)
  BY <1>3 DEF OthersStay
<1>6. /\ Darwin!compareFor(a)' = Darwin!compareFor(a)
      /\ Complete(a)' <=> Complete(a)
      /\ GroupReady(a)' <=> GroupReady(a)
  BY DEF Darwin!compareFor, Darwin!compare, Darwin!Wanted, Complete, GroupReady
<1>7. InAgreement(a)'
  BY <1>1, <1>2, <1>3, <1>6 DEF InAgreement
<1>8. DarwinSound(a)'
  BY <1>1, <1>2, <1>6, <1>7 DEF DarwinSound, Deciding, Applied
<1>9. NobodyElses(a)
  <2>1. ~overlap => \A b \in Accounts \ {a} : Apart(a, b)
    BY DEF DarwinInv
  <2> QED BY <1>2, <2>1 DEF NobodyElses, Deciding, Apart
<1>10. r.pc # "idle"
  OBVIOUS
<1> QED BY <1>1, <1>4, <1>3, <1>5, <1>8, <1>9, <1>10, DarwinGoing

LEMMA DarwinMakeHome ==
  ASSUME Darwin!DarwinConstants, DarwinInv, NEW a \in Accounts, Darwin!MakeHome(a)
  PROVE  DarwinStepOf(a)
<1> DEFINE c == darwinCall[a]
           h == IF darwinHome[a] = "absent" THEN "made" ELSE darwinHome[a]
           d == c.did \cup IF darwinHome[a] = "absent" THEN {"home directory"} ELSE {}
<1>1. c.pc = "mkdir" /\ UNCHANGED <<darwinPolicy, rec, gid, overlap>>
  BY DEF Darwin!MakeHome
<1>2. /\ c.pc \in Applied /\ Darwin!Active(a) /\ DarwinType /\ c \in DarwinCall
      /\ InAgreement(a) /\ ~c.ok /\ c.todo = <<>> /\ "home directory" \notin c.changed
  <2>1. darwinCall[a].pc \in Applied
    BY <1>1 DEF Applied
  <2> QED BY <1>1, <2>1, DarwinLate DEF InAgreement
<1>3. CASE Darwin!Fails(a) /\ UNCHANGED darwinHome
  BY <1>1, <1>2, <1>3, DarwinFailsAlone
<1>4. CASE /\ darwinHome' = [darwinHome EXCEPT ![a] = IF @ = "absent" THEN "made" ELSE @]
           /\ darwinCall' = [darwinCall EXCEPT ![a].pc = "own", ![a].made = (darwinHome[a] = "absent"),
                ![a].did = @ \cup IF darwinHome[a] = "absent" THEN {"home directory"} ELSE {}]
           /\ UNCHANGED darwinFaults
  <2>1. PICK m \in BOOLEAN : m = (darwinHome[a] = "absent")
    OBVIOUS
  <2> DEFINE r == [c EXCEPT !.pc = "own", !.made = m, !.did = d]
  <2>2. d \in SUBSET Darwin!Changes
    BY <1>2 DEF DarwinCall, Darwin!Changes
  <2>3. darwinCall' = [darwinCall EXCEPT ![a] = r]
    BY <1>2, <1>4, <2>1 DEF DarwinType
  <2>4. h \in {"made", "owned"} /\ darwinHome' = [darwinHome EXCEPT ![a] = h]
    BY <1>2, <1>4 DEF DarwinType
  <2> HIDE DEF d, h
  <2>5. /\ r \in DarwinCall /\ r.pc = "own" /\ r.todo = <<>> /\ ~r.ok /\ (r.new <=> c.new)
        /\ "home directory" \notin r.changed
    <3> HIDE DEF c
    <3> QED BY <1>2, <2>2 DEF DarwinCall, DarwinPC
  <2> HIDE DEF r
  <2> QED BY <1>1, <1>2, <1>4, <2>3, <2>4, <2>5, DarwinGoesOn
<1> QED BY <1>3, <1>4 DEF Darwin!MakeHome

LEMMA DarwinOwnHome ==
  ASSUME Darwin!DarwinConstants, DarwinInv, NEW a \in Accounts, Darwin!OwnHome(a)
  PROVE  DarwinStepOf(a)
<1> DEFINE c == darwinCall[a]
           ch == c.changed \cup IF c.made THEN {"home directory"} ELSE {}
           r == [c EXCEPT !.pc = "verify", !.changed = ch]
<1>1. c.pc = "own" /\ UNCHANGED <<darwinPolicy, rec, gid, overlap>>
  BY DEF Darwin!OwnHome
<1>2. /\ c.pc \in Applied /\ Darwin!Active(a) /\ DarwinType /\ c \in DarwinCall
      /\ ~c.ok /\ c.todo = <<>>
  <2>1. darwinCall[a].pc \in Applied
    BY <1>1 DEF Applied
  <2> QED BY <2>1, DarwinLate
<1>3. CASE Darwin!Fails(a) /\ UNCHANGED darwinHome
  BY <1>1, <1>2, <1>3, DarwinFailsAlone
<1>4. CASE Darwin!Return(a, FALSE, c.changed) /\ UNCHANGED <<darwinHome, darwinFaults>>
  <2>1. PICK ok \in BOOLEAN : ok = FALSE
    OBVIOUS
  <2>2. Darwin!Return(a, ok, darwinCall[a].changed) /\ ~ok
    BY <1>4, <2>1
  <2> QED BY <1>1, <1>2, <1>4, <2>2, DarwinReturning
<1>5. CASE /\ darwinHome' = [darwinHome EXCEPT ![a] = "owned"]
           /\ darwinCall' = [darwinCall EXCEPT ![a].pc = "verify",
                ![a].changed = @ \cup IF darwinCall[a].made THEN {"home directory"} ELSE {}]
           /\ UNCHANGED darwinFaults
  <2>1. ch \in SUBSET Darwin!Changes
    BY <1>2 DEF DarwinCall, Darwin!Changes
  <2>2. darwinCall' = [darwinCall EXCEPT ![a] = r]
    BY <1>2, <1>5 DEF DarwinType
  <2> HIDE DEF ch
  <2>3. /\ r \in DarwinCall /\ r.pc = "verify" /\ r.todo = <<>> /\ ~r.ok /\ (r.new <=> c.new)
    <3> HIDE DEF c
    <3> QED BY <1>2, <2>1 DEF DarwinCall, DarwinPC
  <2> HIDE DEF r
  <2>4. "owned" \in {"made", "owned"}
    OBVIOUS
  <2> QED BY <1>1, <1>2, <1>5, <2>2, <2>3, <2>4, DarwinGoesOn
<1> QED BY <1>3, <1>4, <1>5 DEF Darwin!OwnHome

LEMMA DarwinVerify ==
  ASSUME Darwin!DarwinConstants, DarwinInv, NEW a \in Accounts, Darwin!Verify(a)
  PROVE  DarwinStepOf(a)
<1>1. darwinCall[a].pc = "verify" /\ UNCHANGED <<darwinPolicy, rec, gid, darwinHome, overlap>>
  BY DEF Darwin!Verify
<1>2. Darwin!Active(a)
  BY <1>1 DEF Darwin!Active
<1>3. CASE Darwin!Fails(a)
  BY <1>1, <1>2, <1>3, DarwinFailsAlone
<1>4. CASE /\ Darwin!Return(a, "found" \in Darwin!lookup(a) /\ Darwin!found(a) = {}, darwinCall[a].changed)
           /\ UNCHANGED darwinFaults
  <2>1. PICK ok \in BOOLEAN : ok = ("found" \in Darwin!lookup(a) /\ Darwin!found(a) = {})
    OBVIOUS
  <2>2. Darwin!Return(a, ok, darwinCall[a].changed)
    BY <1>4, <2>1
  <2>3. ok => Complete(a) /\ ~Darwin!Malformed(a) /\ Darwin!found(a) = {}
    BY <2>1, LookupSays
  <2> QED BY <1>1, <1>2, <1>4, <2>2, <2>3, DarwinReturning
<1> QED BY <1>3, <1>4 DEF Darwin!Verify

LEMMA DarwinEnsure ==
  ASSUME Darwin!DarwinConstants, DarwinInv, NEW a \in Accounts, Darwin!Ensure(a)
  PROVE  DarwinStepOf(a)
  BY DarwinLookup, DarwinAllocateUID, DarwinEnsureGroup, DarwinAllocateGID, DarwinSetGID,
     DarwinSetAttribute, DarwinMakeHome, DarwinOwnHome, DarwinVerify DEF Darwin!Ensure

LEMMA DarwinUnchanged ==
  ASSUME DarwinInv, UNCHANGED darwinVars
  PROVE  DarwinInv'
<1>1. /\ UNCHANGED <<darwinPolicy, rec, gid, darwinHome, darwinFaults, overlap, darwinCall>>
  BY DEF darwinVars
<1>2. DarwinType'
  BY <1>1 DEF DarwinInv, DarwinType
<1>3. ASSUME NEW a \in Accounts
      PROVE  DarwinSound(a)'
  BY <1>1, DarwinSoundStays DEF DarwinInv
<1>4. \A a, b \in Accounts : Apart(a, b)' <=> Apart(a, b)
  BY <1>1 DEF Apart, Darwin!Active
<1> QED BY <1>1, <1>2, <1>3, <1>4 DEF DarwinInv

LEMMA DarwinNext ==
  ASSUME Darwin!DarwinConstants, DarwinInv, [Darwin!Next]_darwinVars
  PROVE  DarwinInv'
<1>1. CASE \E a \in Accounts : Darwin!Ensure(a)
  BY <1>1, DarwinEnsure, DarwinStepKeeps
<1>2. CASE UNCHANGED darwinVars
  BY <1>2, DarwinUnchanged
<1> QED BY <1>1, <1>2 DEF Darwin!Next, Darwin!Satisfied, darwinVars, Darwin!vars

LEMMA DarwinInit ==
  ASSUME Darwin!DarwinConstants, Darwin!Init
  PROVE  DarwinInv
<1>1. PICK present \in SUBSET Accounts :
         /\ rec = [a \in Accounts |-> IF a \in present THEN Darwin!Foreign(a) ELSE Darwin!NoRecord]
         /\ gid = [a \in Accounts |-> IF a \in present THEN a ELSE Darwin!NoID]
  BY DEF Darwin!Init
<1>2. MaxID \in Nat /\ MaxDarwinFaults \in Nat /\ Accounts \subseteq 1..(MaxID - 1)
  BY DEF Darwin!DarwinConstants
<1>3. \A a \in Accounts : a \in Nat /\ a # 0 /\ a <= MaxID /\ a \in Darwin!IDs
  BY <1>2 DEF Darwin!IDs
<1>4. Darwin!NoRecord \in Darwin!Record /\ Darwin!NoRecord.uid = 0 /\ Darwin!NoRecord.attr["leave"] = "spec"
  BY DEF Darwin!NoRecord, Darwin!Record, Darwin!Attributes, Darwin!NoID
<1>5. ASSUME NEW a \in Accounts
      PROVE  /\ Darwin!Foreign(a) \in Darwin!Record /\ Darwin!Foreign(a).exists
             /\ Darwin!Foreign(a).uid = a /\ Darwin!Foreign(a).gid = a
  BY <1>3 DEF Darwin!Foreign, Darwin!Record
<1> DEFINE q == Darwin!Caller("idle", FALSE, {})
<1>6. q \in DarwinCall /\ q.pc = "idle" /\ q.todo = <<>> /\ ~q.ok
  BY EarlyPCs, CallerFails
<1>7. darwinCall = [a \in Accounts |-> q]
  BY DEF Darwin!Init
<1> HIDE DEF q
<1>8. DarwinType
  <2>1. rec \in [Accounts -> Darwin!Record] /\ gid \in [Accounts -> Nat]
    BY <1>1, <1>3, <1>4, <1>5 DEF Darwin!NoID
  <2>2. darwinCall \in [Accounts -> DarwinCall]
    BY <1>6, <1>7
  <2>3. darwinFaults \in 0..MaxDarwinFaults
    BY <1>2 DEF Darwin!Init
  <2>4. darwinHome \in [Accounts -> {"absent", "made", "owned"}]
    BY DEF Darwin!Init
  <2> QED BY <2>1, <2>2, <2>3, <2>4 DEF DarwinType, Darwin!Init
<1>9. ASSUME NEW a \in Accounts
      PROVE  DarwinSound(a)
  <2>1. darwinCall[a].pc = "idle" /\ darwinCall[a].todo = <<>> /\ ~darwinCall[a].ok
    BY <1>6, <1>7
  <2>2. gid[a] <= MaxID
    BY <1>1, <1>2, <1>3 DEF Darwin!NoID
  <2>3. rec[a].attr["leave"] = "spec" \/ Complete(a)
    BY <1>1, <1>3, <1>4, <1>5 DEF Complete
  <2> QED BY <2>1, <2>2, <2>3 DEF DarwinSound, Deciding, Applied
<1>10. ASSUME NEW a \in Accounts, NEW b \in Accounts, a # b
       PROVE  Apart(a, b)
  <2>1. darwinCall[a].pc = "idle"
    BY <1>6, <1>7
  <2>2. rec[a].uid = 0 \/ rec[a].uid # rec[b].uid
    BY <1>1, <1>3, <1>4, <1>5, <1>10
  <2>3. gid[a] = 0 \/ gid[a] # gid[b]
    BY <1>1, <1>3, <1>10 DEF Darwin!NoID
  <2> QED BY <2>1, <2>2, <2>3 DEF Apart, Darwin!Active, Deciding
<1> QED BY <1>8, <1>9, <1>10 DEF DarwinInv

LEMMA DarwinConclusions ==
  ASSUME DarwinInv
  PROVE  Darwin!TypeOK /\ Darwin!SuccessAgrees /\ Darwin!IDsDistinct
<1>1. Darwin!TypeOK
  <2>1. DarwinType /\ \A a \in Accounts : darwinCall[a] \in DarwinCall /\ DarwinSound(a)
    BY DEF DarwinInv, DarwinType
  <2>2. ASSUME NEW a \in Accounts
        PROVE  /\ darwinCall[a].pc \in {"idle", "uid", "group", "gid", "setgid", "account", "mkdir", "own", "verify"}
               /\ darwinCall[a].changed \subseteq Darwin!Changes
               /\ darwinCall[a].todo # <<>> <=> darwinCall[a].pc = "account"
    BY <2>1 DEF DarwinCall, DarwinPC, DarwinSound
  <2> QED BY <2>1, <2>2 DEF Darwin!TypeOK, DarwinType
<1>2. Darwin!SuccessAgrees
  <2> SUFFICES ASSUME NEW a \in Accounts, darwinCall[a].ok
               PROVE  "found" \in Darwin!lookup(a) /\ Darwin!found(a) = {}
    BY DEF Darwin!SuccessAgrees
  <2>1. Complete(a) /\ ~Darwin!Malformed(a) /\ Darwin!found(a) = {}
    BY DEF DarwinInv, DarwinSound
  <2>2. rec[a].gid = gid[a]
    BY <2>1 DEF Darwin!found, Darwin!compareFor, Darwin!compare
  <2> QED BY <2>1, <2>2, LookupSays
<1>3. Darwin!IDsDistinct
  <2>1. ~overlap => \A a, b \in Accounts : a # b => Apart(a, b)
    BY DEF DarwinInv
  <2> QED BY <2>1 DEF Darwin!IDsDistinct, Apart, Darwin!NoID
<1> QED BY <1>1, <1>2, <1>3

\* The steps that OnlyCompleted allows.
DarwinTruthful ==
    \A a \in Accounts : Darwin!Active(a) /\ darwinCall'[a].pc = "idle" =>
      \A f \in darwinCall'[a].changed : Darwin!InEffect(a, f)' \/ Darwin!Joined(a, f)

LEMMA DarwinActs ==
  ASSUME Darwin!DarwinConstants, DarwinInv, [Darwin!Next]_darwinVars
  PROVE  DarwinTruthful
<1>1. ASSUME NEW a \in Accounts, Darwin!Ensure(a)
      PROVE  DarwinTruthful
  <2>1. DarwinStepOf(a)
    BY <1>1, DarwinEnsure
  <2> QED BY <2>1 DEF DarwinStepOf, DarwinTruthful, Darwin!Active
<1>2. CASE UNCHANGED darwinVars
  BY <1>2 DEF darwinVars, DarwinTruthful, Darwin!Active
<1> QED BY <1>1, <1>2 DEF Darwin!Next, Darwin!Satisfied, darwinVars, Darwin!vars

\* On macOS every variable keeps its type, and only a call that is setting an
\* account has commands left to run, for any number of accounts, identifiers
\* and failing commands (backend_darwin_impl.go).
THEOREM DarwinTypes ==
  Darwin!Spec => []Darwin!TypeOK
<1> USE HostConstants
<1>1. Darwin!Init => DarwinInv
  BY DarwinInit
<1>2. DarwinInv /\ [Darwin!Next]_Darwin!vars => DarwinInv'
  BY DarwinNext DEF Darwin!vars, darwinVars
<1>3. DarwinInv => Darwin!TypeOK
  BY DarwinConclusions
<1> QED BY <1>1, <1>2, <1>3, PTL DEF Darwin!Spec

\* An account whose call of Ensure has succeeded is found by lookup and agrees
\* with its specification, whatever other callers do meanwhile and wherever
\* earlier attempts stopped.
THEOREM DarwinSuccessAgrees ==
  Darwin!Spec => []Darwin!SuccessAgrees
<1> USE HostConstants
<1>1. Darwin!Init => DarwinInv
  BY DarwinInit
<1>2. DarwinInv /\ [Darwin!Next]_Darwin!vars => DarwinInv'
  BY DarwinNext DEF Darwin!vars, darwinVars
<1>3. DarwinInv => Darwin!SuccessAgrees
  BY DarwinConclusions
<1> QED BY <1>1, <1>2, <1>3, PTL DEF Darwin!Spec

\* Calls that do not overlap give no UID and no GID out twice, although an
\* identifier is chosen from a list (allocateID) and set by later commands, any
\* of which may fail.
THEOREM DarwinIDsDistinct ==
  Darwin!Spec => []Darwin!IDsDistinct
<1> USE HostConstants
<1>1. Darwin!Init => DarwinInv
  BY DarwinInit
<1>2. DarwinInv /\ [Darwin!Next]_Darwin!vars => DarwinInv'
  BY DarwinNext DEF Darwin!vars, darwinVars
<1>3. DarwinInv => Darwin!IDsDistinct
  BY DarwinConclusions
<1> QED BY <1>1, <1>2, <1>3, PTL DEF Darwin!Spec

\* What a call reports as changed when it returns is in effect then, whichever
\* of its commands failed (the promise of apply in backend_darwin_impl.go).
THEOREM DarwinReportsTruly ==
  Darwin!Spec => Darwin!OnlyCompleted
<1> USE HostConstants
<1>1. Darwin!Init => DarwinInv
  BY DarwinInit
<1>2. DarwinInv /\ [Darwin!Next]_Darwin!vars => DarwinInv'
  BY DarwinNext DEF Darwin!vars, darwinVars
<1>3. DarwinInv /\ [Darwin!Next]_Darwin!vars =>
        [\A a \in Accounts : Darwin!Active(a) /\ darwinCall'[a].pc = "idle" =>
           \A f \in darwinCall'[a].changed : Darwin!InEffect(a, f)' \/ Darwin!Joined(a, f)]_Darwin!vars
  BY DarwinActs DEF Darwin!vars, darwinVars, DarwinTruthful
<1> QED BY <1>1, <1>2, <1>3, PTL DEF Darwin!Spec, Darwin!OnlyCompleted

-----------------------------------------------------------------------------
\* The host

HostInv == TypeOK /\ LinuxInv /\ DarwinInv
hostVars == <<part, vars, linuxVars, darwinVars>>

LEMMA HostInit ==
  ASSUME Linux!AccountConstants, Darwin!DarwinConstants, MCInit
  PROVE  HostInv
  BY TypeInit, LinuxInit, DarwinInit DEF MCInit, HostInv

LEMMA HostMoves ==
  ASSUME [MCNext]_hostVars
  PROVE  [Next]_vars /\ [Linux!Next]_linuxVars /\ [Darwin!Next]_darwinVars
  BY DEF MCNext, hostVars

LEMMA HostNext ==
  ASSUME Linux!AccountConstants, Darwin!DarwinConstants, HostInv, [MCNext]_hostVars
  PROVE  HostInv' /\ LinuxTruthful /\ DarwinTruthful
<1>1. [Next]_vars /\ [Linux!Next]_linuxVars /\ [Darwin!Next]_darwinVars
  BY HostMoves
<1>2. TypeOK'
  BY <1>1, TypeStep DEF HostInv
<1>3. LinuxInv' /\ LinuxTruthful
  BY <1>1, LinuxNext, LinuxActs DEF HostInv
<1>4. DarwinInv' /\ DarwinTruthful
  BY <1>1, DarwinNext, DarwinActs DEF HostInv
<1> QED BY <1>2, <1>3, <1>4 DEF HostInv

\* The service of a program and the accounts of Linux and macOS keep their
\* types, for every installation, caller, account and bound.
THEOREM HostTypes ==
  MCSpec => []TypesOK
<1> USE HostConstants
<1>1. MCInit => HostInv
  BY HostInit
<1>2. HostInv /\ [MCNext]_hostVars => HostInv'
  BY HostNext
<1>3. HostInv => TypesOK
  BY DarwinConclusions DEF HostInv, TypesOK, LinuxInv
<1> QED BY <1>1, <1>2, <1>3, PTL DEF MCSpec, hostVars

\* Ensure tells the truth on both platforms: a success goes with an account
\* that agrees, a failure reports only changes that are in effect, Verify
\* leaves an account alone that exists, and calls that do not overlap give no
\* identifier out twice (operation.go, backend_linux_impl.go,
\* backend_darwin_impl.go).
THEOREM HostTruthful ==
  MCSpec => AccountsTruthful
<1> USE HostConstants
<1>1. MCInit => HostInv
  BY HostInit
<1>2. HostInv /\ [MCNext]_hostVars => HostInv'
  BY HostNext
<1>3. HostInv => Linux!SuccessAgrees /\ Darwin!SuccessAgrees /\ Darwin!IDsDistinct
  BY DarwinConclusions DEF HostInv, LinuxInv
<1>4. HostInv /\ [MCNext]_hostVars =>
        [\A c \in Callers : call[c].pc # "idle" /\ call'[c].pc = "idle" =>
           \A f \in call'[c].changed : Linux!InEffect(f)']_Linux!vars
  BY HostNext DEF LinuxTruthful
<1>5. HostInv /\ [MCNext]_hostVars =>
        [policy.existing = "Verify" /\ account.exists /\ drifts' = drifts =>
           account' = account /\ (group.gid => group'.gid)]_Linux!vars
  BY HostNext DEF LinuxTruthful
<1>6. HostInv /\ [MCNext]_hostVars =>
        [\A a \in Accounts : Darwin!Active(a) /\ darwinCall'[a].pc = "idle" =>
           \A f \in darwinCall'[a].changed : Darwin!InEffect(a, f)' \/ Darwin!Joined(a, f)]_Darwin!vars
  BY HostNext DEF DarwinTruthful
<1> QED BY <1>1, <1>2, <1>3, <1>4, <1>5, <1>6, PTL
        DEF MCSpec, hostVars, AccountsTruthful, Linux!OnlyCompleted, Linux!VerifyKeeps, Darwin!OnlyCompleted
=============================================================================
