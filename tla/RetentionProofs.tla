---------------------------- MODULE RetentionProofs ----------------------------
(***************************************************************************)
(* Proofs about Retention, for any number of loggers, files, directories   *)
(* and sizes.                                                              *)
(*                                                                         *)
(* NameInv says which files have which names and which of them are open;   *)
(* SizeInv that a file rotated away is large; and ListInv that the files   *)
(* of the file_log_mgr that is clearing stay as large as they were listed, *)
(* because m_Locker keeps do_logging() from giving their names to others.  *)
(* ClearInv, with RestInv and FreshInv, says what a clearing has still to  *)
(* remove.                                                                 *)
(***************************************************************************)
EXTENDS Retention, FiniteSetTheorems, TLAPS

TypeInv ==
    /\ linked \in [File -> {"active", "archive", "no"}]
    /\ size \in [File -> Nat]
    /\ made \in [Subs -> 1..MaxGen]
    /\ open \in [Subs -> Nat]
    /\ rotating \in Managers \cup {NoOne}
    /\ clearing \in Managers \cup {NoOne}

\* The newest file of a file_log has the active name, or has lost it; m_File
\* refers to it or is nullptr, and that only while the file_log_mgr rotates.
NameInv ==
    /\ \A f \in File :
          /\ linked[f] = "active" => f.gen = made[f.sub]
          /\ linked[f] = "archive" => f.gen < made[f.sub] \/ open[f.sub] = 0
          /\ f.gen > made[f.sub] => linked[f] = "no"
    /\ \A s \in Subs :
          /\ open[s] \in {0, made[s]}
          /\ rotating = MgrOf[s] /\ stage \in {"rotate", "open"} <=> open[s] = 0

SizeInv ==
    \A f \in File : linked[f] = "archive" => size[f] >= RemovalSize

ListInv ==
    /\ list # {} => listed
    /\ listed => clearing # NoOne
    /\ \A name \in list : \A f \in Named(name) :
          MgrOf[f.sub] = clearing => size[f] >= RemovalSize

Inv == TypeInv /\ NameInv /\ SizeInv /\ ListInv

-----------------------------------------------------------------------------
\* A file_log has one file of each number.
LEMMA Files ==
    /\ \A f \in File : f.sub \in Subs /\ f.gen \in 1..MaxGen /\ f.gen \in Nat
                       /\ MgrOf[f.sub] \in Managers
    /\ \A f, g \in File : f.sub = g.sub /\ f.gen = g.gen => f = g
    /\ \A s \in Subs : \A n \in 1..MaxGen :
          Nth(s, n) \in File /\ Nth(s, n).sub = s /\ Nth(s, n).gen = n
    /\ NoOne \notin Managers /\ MaxGen \in Nat \ {0}
    /\ RemovalSize \in Nat /\ LogFileLength \in Nat /\ RemovalSize <= LogFileLength
  <1>1. /\ MgrOf \in [Subs -> Managers] /\ NoOne \notin Managers /\ MaxGen \in Nat \ {0}
        /\ RemovalSize \in Nat /\ LogFileLength \in Nat /\ RemovalSize <= LogFileLength
    <2>1. /\ MaxGen \in Nat \ {0} /\ MaxSize \in Nat
          /\ RemovalSize \in 1..LogFileLength /\ LogFileLength \in 1..MaxSize
      BY RetentionAssumption
    <2> QED
      BY <2>1, RetentionAssumption
  <1>2. \A f, g \in File : f.sub = g.sub /\ f.gen = g.gen => f = g
    BY DEF File
  <1>3. \A s \in Subs : \A n \in 1..MaxGen :
            Nth(s, n) \in File /\ Nth(s, n).sub = s /\ Nth(s, n).gen = n
    BY DEF File, Nth
  <1>4. \A f \in File : f.sub \in Subs /\ f.gen \in 1..MaxGen /\ f.gen \in Nat
                        /\ MgrOf[f.sub] \in Managers
    BY <1>1 DEF File
  <1> QED
    BY <1>1, <1>2, <1>3, <1>4

\* There is one file of the active name at most, and IsNeedRotate() measures it.
LEMMA OneActive ==
    ASSUME Inv, NEW f \in File, linked[f] = "active"
    PROVE  /\ f = Nth(f.sub, made[f.sub])
           /\ IsNeedRotate(f.sub) => size[f] >= RemovalSize
  <1>0. f.sub \in Subs /\ made[f.sub] \in 1..MaxGen /\ f.gen = made[f.sub]
    BY Files DEF Inv, TypeInv, NameInv
  <1>1. f = Nth(f.sub, made[f.sub])
    BY <1>0, Files
  <1>2. ASSUME IsNeedRotate(f.sub) PROVE size[f] >= RemovalSize
    <2>1. PICK g \in File : g.sub = f.sub /\ linked[g] = "active" /\ size[g] >= LogFileLength
      BY <1>2 DEF IsNeedRotate, Active
    <2>2. g = f
      BY <1>0, <2>1, Files DEF Inv, NameInv
    <2>3. size[f] \in Nat
      BY DEF Inv, TypeInv
    <2> QED
      BY <2>1, <2>2, <2>3, Files
  <1> QED
    BY <1>1, <1>2

LEMMA InitInv == Init => Inv
  <1> SUFFICES ASSUME Init PROVE Inv
    OBVIOUS
  <1>0. /\ linked = [f \in File |-> IF f.gen = 1 THEN "active" ELSE "no"]
        /\ size = [f \in File |-> 0]
        /\ made = [s \in Subs |-> 1] /\ open = [s \in Subs |-> 1]
        /\ rotating = NoOne /\ stage = "close" /\ clearing = NoOne
        /\ listed = FALSE /\ list = {}
    BY DEF Init
  <1>1. TypeInv
    <2>1. ASSUME NEW s \in Subs PROVE 1 \in 1..MaxGen
      <3>1. MaxGen \in Nat \ {0}
        BY Files
      <3> QED
        BY <3>1
    <2> QED
      BY <1>0, <2>1 DEF TypeInv
  <1>2. NameInv
    BY <1>0, Files DEF NameInv
  <1>3. SizeInv /\ ListInv
    BY <1>0 DEF SizeInv, ListInv
  <1> QED
    BY <1>1, <1>2, <1>3 DEF Inv

-----------------------------------------------------------------------------
(***************************************************************************)
(* The steps.                                                              *)
(***************************************************************************)

LEMMA KeepsFlush == ASSUME Inv, NEW s \in Subs, Flush(s) PROVE Inv'
  <1> DEFINE f == Nth(s, open[s])
  <1>0. /\ TypeInv /\ NameInv /\ SizeInv /\ ListInv
        /\ clearing # MgrOf[s] /\ open[s] # 0
        /\ size' = [size EXCEPT ![f] = size[f] + 1]
        /\ UNCHANGED <<linked, made, open, rotating, stage, clearing, listed, list>>
    BY DEF Inv, Flush, Free, clearVars
  <1>1. f \in File /\ f.sub = s
    <2>1. open[s] = made[s] /\ made[s] \in 1..MaxGen
      BY <1>0 DEF NameInv, TypeInv
    <2> QED
      BY <2>1, Files
  <1> HIDE DEF f
  <1>2. /\ size' \in [File -> Nat]
        /\ size'[f] = size[f] + 1 /\ \A g \in File : g # f => size'[g] = size[g]
    BY <1>0, <1>1 DEF TypeInv
  <1>3. \A g \in File : size[g] >= RemovalSize => size'[g] >= RemovalSize
    BY <1>0, <1>2, Files DEF TypeInv
  <1>4. TypeInv'
    BY <1>0, <1>2 DEF TypeInv
  <1>5. NameInv'
    BY <1>0 DEF NameInv
  <1>6. SizeInv'
    BY <1>0, <1>3 DEF SizeInv
  <1>7. ListInv'
    <2>1. \A name \in list : Named(name)' = Named(name)
      BY <1>0 DEF Named, NameOf
    <2>2. \A name \in list : Named(name) \subseteq File
      BY DEF Named
    <2> QED
      BY <1>0, <1>3, <2>1, <2>2 DEF ListInv
  <1> QED
    BY <1>4, <1>5, <1>6, <1>7 DEF Inv

LEMMA KeepsBegin == ASSUME Inv, NEW m \in Managers, BeginRotation(m) PROVE Inv'
  <1>0. /\ TypeInv /\ NameInv /\ SizeInv /\ ListInv
        /\ rotating = NoOne /\ rotating' = m /\ stage' = "close"
        /\ UNCHANGED <<linked, size, made, open, clearing, listed, list>>
    BY DEF Inv, BeginRotation, fileVars, clearVars
  <1>1. TypeInv'
    BY <1>0 DEF TypeInv
  <1>2. NameInv'
    <2>1. \A s \in Subs : open[s] # 0
      BY <1>0, Files, RetentionAssumption DEF NameInv
    <2> QED
      BY <1>0, <2>1 DEF NameInv
  <1>3. SizeInv' /\ ListInv'
    BY <1>0 DEF SizeInv, ListInv, Named, NameOf
  <1> QED
    BY <1>1, <1>2, <1>3 DEF Inv

LEMMA KeepsClose == Inv /\ Close => Inv'
  <1> SUFFICES ASSUME Inv, Close PROVE Inv'
    OBVIOUS
  <1>0. /\ TypeInv /\ NameInv /\ SizeInv /\ ListInv
        /\ rotating # NoOne /\ stage = "close" /\ stage' = "rotate"
        /\ open' = [s \in Subs |-> IF MgrOf[s] = rotating THEN 0 ELSE open[s]]
        /\ UNCHANGED <<linked, size, made, rotating, clearing, listed, list>>
    BY DEF Inv, Close, clearVars
  <1>1. TypeInv'
    <2>1. open' \in [Subs -> Nat]
      BY <1>0 DEF TypeInv
    <2> QED
      BY <1>0, <2>1 DEF TypeInv
  <1>2. NameInv'
    <2>1. ASSUME NEW g \in File
          PROVE  linked[g] = "archive" => g.gen < made[g.sub] \/ open'[g.sub] = 0
      BY <1>0, Files DEF NameInv
    <2>2. ASSUME NEW s \in Subs
          PROVE  /\ open'[s] \in {0, made[s]}
                 /\ rotating = MgrOf[s] <=> open'[s] = 0
      BY <1>0 DEF NameInv
    <2> QED
      BY <1>0, <2>1, <2>2 DEF NameInv
  <1>3. SizeInv' /\ ListInv'
    BY <1>0 DEF SizeInv, ListInv, Named, NameOf
  <1> QED
    BY <1>1, <1>2, <1>3 DEF Inv

LEMMA KeepsRotate == Inv /\ Rotate => Inv'
  <1> SUFFICES ASSUME Inv, Rotate PROVE Inv'
    OBVIOUS
  <1> DEFINE due == UNION {Active(s) : s \in {s \in SubsOf(rotating) : IsNeedRotate(s)}}
  <1>0. /\ TypeInv /\ NameInv /\ SizeInv /\ ListInv
        /\ rotating # NoOne /\ stage = "rotate" /\ stage' = "open" /\ clearing # rotating
        /\ linked' = [f \in File |-> IF f \in due THEN "archive" ELSE linked[f]]
        /\ UNCHANGED <<size, made, open, rotating, clearing, listed, list>>
    BY DEF Inv, Rotate, Free, clearVars
  <1>1. \A f \in due : /\ f \in File /\ f.sub \in Subs /\ MgrOf[f.sub] = rotating
                       /\ linked[f] = "active" /\ IsNeedRotate(f.sub)
    BY DEF SubsOf, Active
  <1> HIDE DEF due
  <1>2. TypeInv'
    <2>1. linked' \in [File -> {"active", "archive", "no"}]
      BY <1>0 DEF TypeInv
    <2> QED
      BY <1>0, <2>1 DEF TypeInv
  <1>3. \A f \in due : open[f.sub] = 0 /\ size[f] >= RemovalSize
    BY <1>0, <1>1, OneActive DEF NameInv
  <1>4. \A f \in File : linked'[f] = IF f \in due THEN "archive" ELSE linked[f]
    BY <1>0
  <1>5. NameInv'
    <2>1. ASSUME NEW f \in File
          PROVE  /\ linked'[f] = "active" => f.gen = made[f.sub]
                 /\ linked'[f] = "archive" => f.gen < made[f.sub] \/ open[f.sub] = 0
                 /\ f.gen > made[f.sub] => linked'[f] = "no"
      <3>1. CASE f \in due
        <4>1. f.gen = made[f.sub] /\ made[f.sub] \in Nat
          BY <1>0, <1>1, <3>1, Files DEF NameInv
        <4> QED
          BY <1>3, <1>4, <3>1, <4>1
      <3>2. CASE f \notin due
        BY <1>0, <1>4, <3>2 DEF NameInv
      <3> QED
        BY <3>1, <3>2
    <2> QED
      BY <1>0, <2>1 DEF NameInv
  <1>6. SizeInv'
    BY <1>0, <1>3, <1>4 DEF SizeInv
  <1>7. ListInv'
    <2> SUFFICES ASSUME NEW name \in list, NEW f \in Named(name)', MgrOf[f.sub] = clearing
                 PROVE  size[f] >= RemovalSize
      BY <1>0 DEF ListInv
    <2>1. f \in File /\ f \notin due
      BY <1>0, <1>1 DEF Named
    <2>2. linked'[f] = linked[f]
      BY <1>4, <2>1
    <2>3. f \in Named(name)
      BY <2>1, <2>2 DEF Named, NameOf
    <2> QED
      BY <1>0, <2>3 DEF ListInv
  <1> QED
    BY <1>2, <1>5, <1>6, <1>7 DEF Inv

LEMMA KeepsOpen == Inv /\ Open => Inv'
  <1> SUFFICES ASSUME Inv, Open PROVE Inv'
    OBVIOUS
  <1> DEFINE new == {s \in SubsOf(rotating) : Active(s) = {}}
  <1>0. /\ TypeInv /\ NameInv /\ SizeInv /\ ListInv
        /\ rotating # NoOne /\ stage = "open" /\ clearing # rotating
        /\ rotating' = NoOne /\ stage' = "close"
        /\ made' = [s \in Subs |-> IF s \in new THEN made[s] + 1 ELSE made[s]]
        /\ linked' = [f \in File |-> IF f.sub \in new /\ f.gen = made'[f.sub]
                                     THEN "active" ELSE linked[f]]
        /\ open' = [s \in Subs |-> IF MgrOf[s] = rotating THEN made'[s] ELSE open[s]]
        /\ \A s \in new : made[s] < MaxGen
        /\ UNCHANGED <<size, clearing, listed, list>>
    BY DEF Inv, Open, Free, clearVars
  <1>1. /\ \A s \in new : s \in Subs /\ MgrOf[s] = rotating
        /\ \A f \in File : f.sub \in new => linked[f] # "active"
    BY DEF SubsOf, Active
  <1> HIDE DEF new
  <1>2. \A s \in Subs : /\ made[s] \in 1..MaxGen /\ made[s] \in Nat /\ made[s] >= 1
                        /\ made'[s] = IF s \in new THEN made[s] + 1 ELSE made[s]
    BY <1>0, Files DEF TypeInv
  <1>3. made' \in [Subs -> 1..MaxGen]
    <2>1. \A s \in Subs : (IF s \in new THEN made[s] + 1 ELSE made[s]) \in 1..MaxGen
      BY <1>0, <1>2, Files
    <2> QED
      BY <1>0, <2>1
  <1>4. /\ \A s \in Subs : made'[s] \in Nat /\ made'[s] >= 1
        /\ \A s \in Subs : open'[s] = IF MgrOf[s] = rotating THEN made'[s] ELSE open[s]
        /\ \A f \in File : linked'[f] = IF f.sub \in new /\ f.gen = made'[f.sub]
                                        THEN "active" ELSE linked[f]
    BY <1>0, <1>3, Files
  <1>5. TypeInv'
    <2>1. linked' \in [File -> {"active", "archive", "no"}]
      BY <1>0 DEF TypeInv
    <2>2. open' \in [Subs -> Nat]
      <3>1. \A s \in Subs : (IF MgrOf[s] = rotating THEN made'[s] ELSE open[s]) \in Nat
        BY <1>0, <1>4 DEF TypeInv
      <3> QED
        BY <1>0, <3>1
    <2> QED
      BY <1>0, <1>3, <2>1, <2>2 DEF TypeInv
  <1>6. ASSUME NEW s \in Subs
        PROVE  open'[s] \in {0, made'[s]} /\ open'[s] # 0
    <2>1. CASE MgrOf[s] = rotating
      BY <1>4, <2>1
    <2>2. CASE MgrOf[s] # rotating
      <3>1. s \notin new
        BY <1>1, <2>2
      <3>2. open[s] # 0 /\ open[s] \in {0, made[s]}
        BY <1>0, <2>2 DEF NameInv
      <3> QED
        BY <1>2, <1>4, <2>2, <3>1, <3>2
    <2> QED
      BY <2>1, <2>2
  <1>7. ASSUME NEW f \in File
        PROVE  /\ linked'[f] = "active" => f.gen = made'[f.sub]
               /\ linked'[f] = "archive" => f.gen < made'[f.sub]
               /\ f.gen > made'[f.sub] => linked'[f] = "no"
    <2>0. /\ f.sub \in Subs /\ f.gen \in Nat /\ made[f.sub] \in Nat
          /\ linked[f] = "active" => f.gen = made[f.sub]
          /\ linked[f] = "archive" => f.gen < made[f.sub] \/ open[f.sub] = 0
          /\ f.gen > made[f.sub] => linked[f] = "no"
          /\ linked[f] \in {"active", "archive", "no"}
      BY <1>0, <1>2, Files DEF NameInv, TypeInv
    <2>1. CASE f.sub \in new
      <3>1. linked[f] # "active" /\ made'[f.sub] = made[f.sub] + 1
        BY <1>1, <1>2, <2>0, <2>1
      <3>2. linked'[f] = IF f.gen = made[f.sub] + 1 THEN "active" ELSE linked[f]
        BY <1>4, <2>1, <3>1
      <3>3. linked[f] = "archive" => f.gen <= made[f.sub]
        BY <2>0
      <3> QED
        BY <2>0, <3>1, <3>2, <3>3
    <2>2. CASE f.sub \notin new
      <3>1. linked'[f] = linked[f] /\ made'[f.sub] = made[f.sub]
        BY <1>2, <1>4, <2>0, <2>2
      <3>2. linked[f] = "archive" => f.gen < made[f.sub]
        <4> SUFFICES ASSUME linked[f] = "archive", open[f.sub] = 0
                     PROVE  f.gen < made[f.sub]
          BY <2>0
        <4>1. MgrOf[f.sub] = rotating
          BY <1>0, <2>0 DEF NameInv
        <4>2. f.sub \in SubsOf(rotating)
          BY <2>0, <4>1 DEF SubsOf
        <4>3. Active(f.sub) # {}
          BY <2>2, <4>2 DEF new
        <4>4. PICK g \in File : g.sub = f.sub /\ linked[g] = "active"
          BY <4>3 DEF Active
        <4>5. g.gen = made[f.sub] /\ g # f
          BY <1>0, <4>4 DEF NameInv
        <4>6. f.gen # made[f.sub]
          BY <4>4, <4>5, Files
        <4> QED
          BY <2>0, <4>6
      <3> QED
        BY <2>0, <3>1, <3>2
    <2> QED
      BY <2>1, <2>2
  <1>8. NameInv'
    BY <1>0, <1>6, <1>7, RetentionAssumption, Files DEF NameInv
  <1>9. SizeInv'
    BY <1>0, <1>4 DEF SizeInv
  <1>10. ListInv'
    <2> SUFFICES ASSUME NEW name \in list, NEW f \in Named(name)', MgrOf[f.sub] = clearing
                 PROVE  size[f] >= RemovalSize
      BY <1>0 DEF ListInv
    <2>1. f \in File /\ f.sub \notin new
      BY <1>0, <1>1 DEF Named
    <2>2. linked'[f] = linked[f]
      BY <1>4, <2>1
    <2>3. f \in Named(name)
      BY <2>1, <2>2 DEF Named, NameOf
    <2> QED
      BY <1>0, <2>3 DEF ListInv
  <1> QED
    BY <1>5, <1>8, <1>9, <1>10 DEF Inv

LEMMA KeepsList == Inv /\ ListExpired => Inv'
  <1> SUFFICES ASSUME Inv, ListExpired PROVE Inv'
    OBVIOUS
  <1>0. /\ TypeInv /\ NameInv /\ SizeInv /\ ListInv
        /\ clearing # NoOne /\ listed' = TRUE
        /\ UNCHANGED <<linked, size, made, open, rotating, stage, clearing>>
    BY DEF Inv, ListExpired, fileVars
  <1>1. TypeInv' /\ NameInv' /\ SizeInv'
    BY <1>0 DEF TypeInv, NameInv, SizeInv
  <1>2. ListInv'
    <2> SUFFICES ASSUME NEW name \in list', NEW f \in Named(name)
                 PROVE  size[f] >= RemovalSize
      BY <1>0 DEF ListInv, Named, NameOf
    <2>1. PICK g \in File : linked[g] # "no" /\ Expired(g) /\ name = NameOf(g)
      BY DEF ListExpired
    <2>2. f \in File /\ linked[f] # "no" /\ NameOf(f) = NameOf(g)
      BY <2>1 DEF Named
    <2>3. /\ f.sub = g.sub /\ f.gen \in 1..MaxGen /\ g.gen \in 1..MaxGen
          /\ (IF linked[f] = "active" THEN 0 ELSE f.gen)
                = (IF linked[g] = "active" THEN 0 ELSE g.gen)
      BY <2>1, <2>2, Files DEF NameOf
    <2>4. f.gen = g.gen
      <3>1. /\ linked[f] = "active" => f.gen = made[f.sub]
            /\ linked[g] = "active" => g.gen = made[g.sub]
        BY <1>0, <2>1, <2>2 DEF NameInv
      <3> QED
        BY <2>3, <3>1, Files
    <2>5. f = g
      BY <2>1, <2>2, <2>3, <2>4, Files
    <2> QED
      BY <2>1, <2>5 DEF Expired, ExpiredAt
  <1> QED
    BY <1>1, <1>2 DEF Inv

LEMMA KeepsRemove == Inv /\ RemoveNext => Inv'
  <1> SUFFICES ASSUME Inv, RemoveNext PROVE Inv'
    OBVIOUS
  <1>0. /\ TypeInv /\ NameInv /\ SizeInv /\ ListInv /\ listed
        /\ UNCHANGED <<size, made, open, rotating, stage, clearing, listed>>
    BY DEF Inv, RemoveNext
  <1>1. PICK removed \in list :
            /\ list' = list \ {removed}
            /\ linked' = [f \in File |-> IF f \in Removed(removed) THEN "no" ELSE linked[f]]
    BY DEF RemoveNext
  <1>2. \A f \in File : linked'[f] = linked[f] \/ linked'[f] = "no"
    BY <1>1
  <1>3. TypeInv'
    <2>1. linked' \in [File -> {"active", "archive", "no"}]
      BY <1>0, <1>1 DEF TypeInv
    <2> QED
      BY <1>0, <2>1 DEF TypeInv
  <1>4. NameInv'
    BY <1>0, <1>2 DEF NameInv
  <1>5. SizeInv'
    BY <1>0, <1>2 DEF SizeInv
  <1>6. ListInv'
    <2> SUFFICES ASSUME NEW name \in list, NEW f \in Named(name)', MgrOf[f.sub] = clearing
                 PROVE  size[f] >= RemovalSize
      BY <1>0, <1>1 DEF ListInv
    <2>1. f \in Named(name)
      BY <1>2 DEF Named, NameOf
    <2> QED
      BY <1>0, <2>1 DEF ListInv
  <1> QED
    BY <1>3, <1>4, <1>5, <1>6 DEF Inv

\* Time passes, and the clearing thread begins or ends a turn: no name changes.
LEMMA KeepsTurns ==
    Inv /\ (Tick \/ ClearEnd \/ \E m \in Managers : ClearBegin(m)) => Inv'
  <1> SUFFICES ASSUME Inv, Tick \/ ClearEnd \/ \E m \in Managers : ClearBegin(m)
               PROVE  Inv'
    OBVIOUS
  <1>0. /\ TypeInv /\ NameInv /\ SizeInv /\ ListInv
        /\ UNCHANGED <<linked, size, made, open, rotating, stage, list>>
    BY DEF Inv, Tick, ClearEnd, ClearBegin, fileVars, clearVars
  <1>1. \/ UNCHANGED <<clearing, listed>>
        \/ list = {} /\ listed' = FALSE /\ clearing' \in {clearing, NoOne}
        \/ clearing = NoOne /\ clearing' \in Managers /\ listed' = listed
    BY DEF Tick, ClearEnd, ClearBegin, clearVars
  <1>2. TypeInv'
    BY <1>0, <1>1 DEF TypeInv
  <1>3. NameInv' /\ SizeInv'
    BY <1>0 DEF NameInv, SizeInv
  <1>4. ListInv'
    <2>1. \A name : Named(name)' = Named(name)
      BY <1>0 DEF Named, NameOf
    <2>2. clearing = NoOne => list = {} /\ ~listed
      BY <1>0 DEF ListInv
    <2>3. CASE UNCHANGED <<clearing, listed>>
      BY <1>0, <2>1, <2>3 DEF ListInv
    <2>4. CASE list = {} /\ listed' = FALSE
      BY <1>0, <2>4 DEF ListInv
    <2>5. CASE clearing = NoOne /\ listed' = listed
      BY <1>0, <2>2, <2>5 DEF ListInv
    <2> QED
      BY <1>1, <2>3, <2>4, <2>5
  <1> QED
    BY <1>2, <1>3, <1>4 DEF Inv

LEMMA NextInv == Inv /\ [Next]_vars => Inv'
  <1> SUFFICES ASSUME Inv, [Next]_vars PROVE Inv'
    OBVIOUS
  <1>1. CASE Tick
    BY <1>1, KeepsTurns
  <1>2. CASE do_logging
    BY <1>2, KeepsFlush, KeepsBegin, KeepsClose, KeepsRotate, KeepsOpen DEF do_logging
  <1>3. CASE clear_expired_log
    BY <1>3, KeepsTurns, KeepsList, KeepsRemove DEF clear_expired_log
  <1>4. CASE UNCHANGED vars
    BY <1>4 DEF vars, fileVars, clearVars, Inv, TypeInv, NameInv, SizeInv, ListInv, Named,
                NameOf
  <1> QED
    BY <1>1, <1>2, <1>3, <1>4 DEF Next

LEMMA SpecInv == Spec => []Inv
  <1> QED
    BY InitInv, NextInv, PTL DEF Spec

-----------------------------------------------------------------------------
(***************************************************************************)
(* What is removed, and what comes after it.                               *)
(***************************************************************************)
LEMMA OnlyRemoveNextRemoves ==
    ASSUME Inv, Next, NEW f \in File, IsRemoved(f)
    PROVE  RemoveNext /\ \E name \in list : f \in Removed(name)
  <1>1. linked'[f] = "no" /\ linked[f] # "no"
    BY DEF IsRemoved
  <1>2. CASE linked' = linked
    BY <1>1, <1>2
  <1>3. CASE Rotate
    <2>1. linked'[f] = "archive" \/ linked'[f] = linked[f]
      BY <1>3 DEF Rotate
    <2> QED
      BY <1>1, <2>1
  <1>4. CASE Open
    <2>1. linked'[f] = "active" \/ linked'[f] = linked[f]
      BY <1>4 DEF Open
    <2> QED
      BY <1>1, <2>1
  <1>5. CASE RemoveNext
    <2>1. PICK name \in list :
              linked' = [g \in File |-> IF g \in Removed(name) THEN "no" ELSE linked[g]]
      BY <1>5 DEF RemoveNext
    <2>2. f \in Removed(name)
      BY <1>1, <2>1
    <2> QED
      BY <1>5, <2>2
  <1> QED
    BY <1>2, <1>3, <1>4, <1>5
       DEF Next, Tick, do_logging, Flush, BeginRotation, Close, clear_expired_log,
           ClearBegin, ListExpired, ClearEnd, fileVars

\* A file below the size limit is removed only in the place of a larger one of
\* another file_log_mgr, rotated away after its name was listed: m_Locker rules
\* that out for the files of the file_log_mgr that is clearing.
THEOREM SpecSmallOnlyByOthers == Spec => SmallOnlyByOthers
  <1> DEFINE Others == \A f \in File :
                           IsRemoved(f) /\ size[f] < RemovalSize =>
                               MgrOf[f.sub] # clearing /\ linked[f] = "active"
  <1>1. ASSUME Inv, Next PROVE Others
    <2> SUFFICES ASSUME NEW f \in File, IsRemoved(f), size[f] < RemovalSize
                 PROVE  MgrOf[f.sub] # clearing /\ linked[f] = "active"
      OBVIOUS
    <2>1. PICK name \in list : f \in Named(name)
      BY <1>1, OnlyRemoveNextRemoves DEF Removed
    <2>2. size[f] \in Nat /\ RemovalSize \in Nat
      BY <1>1, Files DEF Inv, TypeInv
    <2>3. MgrOf[f.sub] # clearing
      BY <1>1, <2>1, <2>2 DEF Inv, ListInv
    <2>4. linked[f] = "active"
      <3>1. linked[f] # "no" /\ linked[f] \in {"active", "archive", "no"}
        BY <1>1 DEF IsRemoved, Inv, TypeInv
      <3>2. linked[f] # "archive"
        BY <1>1, <2>2 DEF Inv, SizeInv
      <3> QED
        BY <3>1, <3>2
    <2> QED
      BY <2>3, <2>4
  <1>2. Inv /\ [Next]_vars => [Others]_vars
    BY <1>1
  <1> QED
    BY <1>2, SpecInv, PTL DEF Spec, SmallOnlyByOthers

\* A file_log_mgr whose open files have all been removed writes to them for good:
\* is_need_rotate() finds no file of the name, and so nothing opens one.
THEOREM SpecGoneForGood == Spec => GoneForGood
  <1> DEFINE Stays == \A m \in Managers : Gone(m) => Gone(m)'
  <1>1. ASSUME Inv, Next PROVE Stays
    <2> SUFFICES ASSUME NEW m \in Managers, Gone(m) PROVE Gone(m)'
      OBVIOUS
    <2>1. rotating # m
      BY DEF Gone
    <2>2. ASSUME NEW s \in SubsOf(m)
          PROVE  /\ s \in Subs /\ MgrOf[s] = m /\ open[s] # 0 /\ open[s] = made[s]
                 /\ Nth(s, open[s]) \in File /\ Nth(s, open[s]).sub = s
                 /\ linked[Nth(s, open[s])] = "no"
      <3>1. s \in Subs /\ MgrOf[s] = m /\ open[s] # 0 /\ linked[Nth(s, open[s])] = "no"
        BY DEF Gone, SubsOf
      <3>2. open[s] = made[s] /\ made[s] \in 1..MaxGen
        BY <1>1, <3>1 DEF Inv, NameInv, TypeInv
      <3> QED
        BY <3>1, <3>2, Files
    <2>3. rotating' # m
      <3>1. ~BeginRotation(m)
        <4> SUFFICES ASSUME NEW s \in SubsOf(m), IsNeedRotate(s) PROVE FALSE
          BY DEF BeginRotation
        <4>1. PICK f \in File : f.sub = s /\ linked[f] = "active"
          BY DEF IsNeedRotate, Active
        <4>2. f = Nth(s, made[s])
          BY <1>1, <4>1, OneActive
        <4> QED
          BY <2>2, <4>1, <4>2
      <3>2. rotating' \in {rotating, NoOne} \/ \E n \in Managers : BeginRotation(n) /\ rotating' = n
        BY <1>1 DEF Next, Tick, do_logging, Flush, BeginRotation, Close, Rotate, Open,
                    clear_expired_log, ClearBegin, ListExpired, RemoveNext, ClearEnd
      <3> QED
        BY <2>1, <3>1, <3>2, Files
    <2>4. ASSUME NEW s \in SubsOf(m)
          PROVE  open'[s] = open[s]
      <3>1. CASE open' = open
        BY <3>1
      <3>2. CASE Close
        BY <2>1, <2>2, <3>2 DEF Close
      <3>3. CASE Open
        BY <2>1, <2>2, <3>3 DEF Open
      <3> QED
        BY <1>1, <3>1, <3>2, <3>3
           DEF Next, Tick, do_logging, Flush, BeginRotation, Rotate, clear_expired_log,
               ClearBegin, ListExpired, RemoveNext, ClearEnd, fileVars
    <2>5. ASSUME NEW s \in SubsOf(m)
          PROVE  linked'[Nth(s, open[s])] = "no"
      <3> DEFINE f == Nth(s, open[s])
      <3>0. f \in File /\ f.sub = s /\ linked[f] = "no" /\ MgrOf[s] = m /\ s \in Subs
        BY <2>2
      <3> HIDE DEF f
      <3>1. CASE linked' = linked
        BY <3>0, <3>1 DEF f
      <3>2. CASE Rotate
        <4>1. \A q \in Subs : f \in Active(q) => FALSE
          BY <3>0 DEF Active
        <4>2. f \notin UNION {Active(q) : q \in {q \in SubsOf(rotating) : IsNeedRotate(q)}}
          BY <4>1 DEF SubsOf
        <4> QED
          BY <3>0, <3>2, <4>2 DEF Rotate, f
      <3>3. CASE Open
        <4>1. f.sub \notin SubsOf(rotating)
          BY <2>1, <3>0 DEF SubsOf
        <4> QED
          BY <3>0, <3>3, <4>1 DEF Open, f
      <3>4. CASE RemoveNext
        BY <3>0, <3>4 DEF RemoveNext, f
      <3> QED
        BY <1>1, <3>1, <3>2, <3>3, <3>4
           DEF Next, Tick, do_logging, Flush, BeginRotation, Close, clear_expired_log,
               ClearBegin, ListExpired, ClearEnd, fileVars
    <2> QED
      BY <2>2, <2>3, <2>4, <2>5 DEF Gone, SubsOf, Nth
  <1>2. Inv /\ [Next]_vars => [Stays]_vars
    BY <1>1
  <1> QED
    BY <1>2, SpecInv, PTL DEF Spec, GoneForGood

-----------------------------------------------------------------------------
(***************************************************************************)
(* The types of the rest, and what a clearing leaves behind.  A number a   *)
(* file_log has not reached yet is a file without lines, so one that is    *)
(* made after the listing is not due to be removed; ClearInv says that     *)
(* what was due and has not changed since is still among the names to      *)
(* remove, until it has none.                                              *)
(***************************************************************************)
RestInv ==
    /\ m_Path \in [Managers -> Dirs]
    /\ size \in [File -> 0..MaxSize]
    /\ written \in [File -> 0..MaxTime]
    /\ stage \in {"close", "rotate", "open"}
    /\ round \in 0..Cardinality(Subs)
    /\ clearing # NoOne => round >= 1
    /\ listed \in BOOLEAN
    /\ list \subseteq [sub : Subs, gen : 0..MaxGen]
    /\ now \in 0..MaxTime
    /\ touched \subseteq File
    /\ listedAt \in 0..MaxTime

FreshInv == \A f \in File : f.gen > made[f.sub] => size[f] = 0

\* A file that had expired by its listing, in the working directory.
Due(f) ==
    /\ linked[f] # "no"
    /\ DirOf(f.sub) = Cwd
    /\ ExpiredAt(f, listedAt)

ClearInv ==
    listed /\ m_Path[clearing] = Cwd =>
        \A f \in File \ touched : Due(f) => NameOf(f) \in list

\* A file_log_mgr has a file_log, and no more of them than there are.
LEMMA Rounds ==
    /\ Cardinality(Subs) \in Nat
    /\ \A m \in Managers : Cardinality(SubsOf(m)) \in 1..Cardinality(Subs)
  <1>1. IsFiniteSet(Subs) /\ MgrOf \in [Subs -> Managers] /\ Range(MgrOf) = Managers
    BY RetentionAssumption
  <1>2. Cardinality(Subs) \in Nat
    BY <1>1, FS_CardinalityType
  <1>3. ASSUME NEW m \in Managers
        PROVE  Cardinality(SubsOf(m)) \in 1..Cardinality(Subs)
    <2>1. SubsOf(m) \in SUBSET Subs
      BY DEF SubsOf
    <2>2. PICK s \in Subs : MgrOf[s] = m
      BY <1>1 DEF Range
    <2>3. SubsOf(m) # {}
      BY <2>2 DEF SubsOf
    <2>4. IsFiniteSet(SubsOf(m)) /\ Cardinality(SubsOf(m)) <= Cardinality(Subs)
      BY <1>1, <2>1, FS_Subset
    <2>5. Cardinality(SubsOf(m)) \in Nat
      BY <2>4, FS_CardinalityType
    <2>6. Cardinality(SubsOf(m)) # 0
      BY <2>3, <2>4, FS_EmptySet
    <2> QED
      BY <1>2, <2>4, <2>5, <2>6
  <1> QED
    BY <1>2, <1>3

LEMMA InitRest == Init => RestInv /\ FreshInv /\ ClearInv
  <1> SUFFICES ASSUME Init PROVE RestInv /\ FreshInv /\ ClearInv
    OBVIOUS
  <1>0. /\ m_Path \in Paths
        /\ size = [f \in File |-> 0] /\ written = [f \in File |-> 0]
        /\ stage = "close" /\ clearing = NoOne /\ round = 0
        /\ listed = FALSE /\ list = {} /\ now = 0 /\ touched = {} /\ listedAt = 0
    BY DEF Init
  <1>1. MaxSize \in Nat /\ MaxTime \in Nat /\ Paths \subseteq [Managers -> Dirs]
    BY RetentionAssumption
  <1>2. 0 \in 0..MaxSize /\ 0 \in 0..MaxTime /\ 0 \in 0..Cardinality(Subs)
    BY <1>1, Rounds
  <1>3. RestInv
    BY <1>0, <1>1, <1>2 DEF RestInv
  <1>4. FreshInv /\ ClearInv
    BY <1>0 DEF FreshInv, ClearInv
  <1> QED
    BY <1>3, <1>4

\* Names are of the type of the list.
LEMMA Names == \A f \in File : NameOf(f) \in [sub : Subs, gen : 0..MaxGen]
  <1> SUFFICES ASSUME NEW f \in File
               PROVE  NameOf(f) \in [sub : Subs, gen : 0..MaxGen]
    OBVIOUS
  <1>1. f.sub \in Subs /\ f.gen \in 0..MaxGen /\ 0 \in 0..MaxGen
    BY Files
  <1> QED
    BY <1>1 DEF NameOf

LEMMA KeepsRest == Inv /\ RestInv /\ [Next]_vars => RestInv'
  <1> SUFFICES ASSUME Inv, RestInv, [Next]_vars PROVE RestInv'
    OBVIOUS
  <1>0. MaxSize \in Nat /\ MaxTime \in Nat
    BY RetentionAssumption
  <1>1. CASE Tick
    <2>1. now' = now + 1 /\ now < MaxTime /\ now \in 0..MaxTime
      BY <1>1 DEF Tick, RestInv
    <2>2. now' \in 0..MaxTime
      BY <1>0, <2>1
    <2> QED
      BY <1>1, <2>2 DEF Tick, RestInv, fileVars, clearVars, histVars
  <1>2. ASSUME NEW s \in Subs, Flush(s)
        PROVE  RestInv'
    <2> DEFINE f == Nth(s, open[s])
    <2>1. /\ size[f] < MaxSize /\ size' = [size EXCEPT ![f] = size[f] + 1]
          /\ written' = [written EXCEPT ![f] = now] /\ Touch({f}) /\ open[s] # 0
          /\ UNCHANGED <<m_Path, stage, clearing, round, listed, list, now, listedAt>>
      BY <1>2 DEF Flush, clearVars
    <2>2. f \in File
      <3>1. open[s] = made[s] /\ made[s] \in 1..MaxGen
        BY <2>1 DEF Inv, NameInv, TypeInv
      <3> QED
        BY <3>1, Files
    <2> HIDE DEF f
    <2>3. size[f] + 1 \in 0..MaxSize
      <3>1. size[f] \in 0..MaxSize
        BY <2>2 DEF RestInv
      <3> QED
        BY <1>0, <2>1, <3>1
    <2>4. size' \in [File -> 0..MaxSize] /\ written' \in [File -> 0..MaxTime]
      BY <2>1, <2>2, <2>3 DEF RestInv
    <2>5. touched' \subseteq File
      BY <2>1, <2>2 DEF Touch, RestInv
    <2> QED
      BY <2>1, <2>4, <2>5 DEF RestInv
  <1>3. CASE \E m \in Managers : BeginRotation(m)
    BY <1>3 DEF BeginRotation, RestInv, fileVars, clearVars, histVars
  <1>4. CASE Close
    BY <1>4 DEF Close, RestInv, clearVars, histVars
  <1>5. CASE Rotate
    <2>1. PICK due : due \subseteq File /\ Touch(due)
      BY <1>5 DEF Rotate, Active
    <2>2. touched' \subseteq File
      BY <2>1 DEF Touch, RestInv
    <2> QED
      BY <1>5, <2>2 DEF Rotate, RestInv, clearVars
  <1>6. CASE Open
    BY <1>6 DEF Open, RestInv, clearVars, histVars
  <1>7. ASSUME NEW m \in Managers, ClearBegin(m)
        PROVE  RestInv'
    <2>1. round' \in 1..Cardinality(Subs) /\ Cardinality(Subs) \in Nat
      BY <1>7, Rounds DEF ClearBegin
    <2>2. round' \in 0..Cardinality(Subs) /\ round' >= 1
      BY <2>1
    <2> QED
      BY <1>7, <2>2 DEF ClearBegin, RestInv, fileVars, histVars
  <1>8. CASE ListExpired
    <2>1. list' \subseteq [sub : Subs, gen : 0..MaxGen]
      BY <1>8, Names DEF ListExpired
    <2> QED
      BY <1>8, <2>1 DEF ListExpired, RestInv, fileVars
  <1>9. CASE RemoveNext
    BY <1>9 DEF RemoveNext, RestInv, histVars
  <1>10. CASE ClearEnd
    <2>1. /\ clearing # NoOne /\ round >= 1 /\ round \in 0..Cardinality(Subs)
          /\ round' = round - 1 /\ clearing' = IF round = 1 THEN NoOne ELSE clearing
      BY <1>10 DEF ClearEnd, Inv, ListInv, RestInv
    <2>2. round' \in 0..Cardinality(Subs) /\ (clearing' # NoOne => round' >= 1)
      BY <2>1, Rounds
    <2>3. 0 \in 0..MaxTime
      BY <1>0
    <2> QED
      BY <1>10, <2>2, <2>3 DEF ClearEnd, RestInv, fileVars
  <1>11. CASE UNCHANGED vars
    BY <1>11 DEF vars, fileVars, clearVars, histVars, RestInv
  <1> QED
    BY <1>1, <1>2, <1>3, <1>4, <1>5, <1>6, <1>7, <1>8, <1>9, <1>10, <1>11
       DEF Next, do_logging, clear_expired_log

\* Only the file a file_log has open grows, and that is the newest.
LEMMA KeepsFresh == Inv /\ FreshInv /\ [Next]_vars => FreshInv'
  <1> SUFFICES ASSUME Inv, FreshInv, [Next]_vars PROVE FreshInv'
    OBVIOUS
  <1>1. ASSUME NEW s \in Subs, Flush(s)
        PROVE  FreshInv'
    <2>1. open[s] = made[s] /\ made[s] \in 1..MaxGen /\ Nth(s, open[s]) \in File
      <3>1. open[s] = made[s] /\ made[s] \in 1..MaxGen
        BY <1>1 DEF Flush, Inv, NameInv, TypeInv
      <3> QED
        BY <3>1, Files
    <2>2. /\ size' = [size EXCEPT ![Nth(s, open[s])] = size[Nth(s, open[s])] + 1]
          /\ made' = made
      BY <1>1 DEF Flush
    <2> SUFFICES ASSUME NEW f \in File, f.gen > made[f.sub] PROVE size'[f] = 0
      BY <2>2 DEF FreshInv
    <2>3. Nth(s, open[s]).sub = s /\ Nth(s, open[s]).gen = made[s] /\ made[s] \in Nat
      BY <2>1, Files
    <2>4. f # Nth(s, open[s])
      BY <2>3
    <2>5. size'[f] = size[f]
      BY <2>2, <2>4 DEF Inv, TypeInv
    <2> QED
      BY <2>5 DEF FreshInv
  <1>2. CASE Open
    <2>1. /\ size' = size
          /\ \A s \in Subs : made'[s] \in {made[s], made[s] + 1}
      BY <1>2 DEF Open
    <2> SUFFICES ASSUME NEW f \in File, f.gen > made'[f.sub] PROVE size[f] = 0
      BY <2>1 DEF FreshInv
    <2>2. f.gen \in Nat /\ made[f.sub] \in Nat /\ made'[f.sub] \in {made[f.sub], made[f.sub] + 1}
      BY <2>1, Files DEF Inv, TypeInv
    <2>3. f.gen > made[f.sub]
      BY <2>2
    <2> QED
      BY <2>3 DEF FreshInv
  <1>3. CASE UNCHANGED <<size, made>>
    BY <1>3 DEF FreshInv
  <1> QED
    BY <1>1, <1>2, <1>3
       DEF Next, Tick, do_logging, BeginRotation, Close, Rotate, clear_expired_log, ClearBegin,
           ListExpired, RemoveNext, ClearEnd, vars, fileVars

\* A file whose name, lines and time are the same is due as it was.
LEMMA SameDue ==
    ASSUME NEW f \in File, UNCHANGED <<m_Path, listedAt>>,
           linked'[f] = linked[f], size'[f] = size[f], written'[f] = written[f]
    PROVE  (Due(f)' <=> Due(f)) /\ NameOf(f)' = NameOf(f)
  <1> QED
    BY DEF Due, DirOf, ExpiredAt, NameOf

LEMMA ClearSteps ==
    ASSUME ClearInv, UNCHANGED <<m_Path, clearing, listedAt, listed, list>>,
           listed => \A f \in File \ touched' :
                         /\ f \notin touched
                         /\ Due(f)' => Due(f) /\ NameOf(f)' = NameOf(f)
    PROVE  ClearInv'
  <1> QED
    BY DEF ClearInv

LEMMA ClearFlush == ASSUME Inv, ClearInv, NEW s \in Subs, Flush(s) PROVE ClearInv'
  <1> DEFINE f == Nth(s, open[s])
  <1>1. /\ size' = [size EXCEPT ![f] = size[f] + 1]
        /\ written' = [written EXCEPT ![f] = now]
        /\ touched' = IF listed THEN touched \cup {f} ELSE {}
        /\ UNCHANGED <<m_Path, linked, clearing, listedAt, listed, list>>
    BY DEF Flush, Touch, clearVars
  <1> HIDE DEF f
  <1>2. ASSUME listed, NEW g \in File \ touched'
        PROVE  g \notin touched /\ (Due(g)' => Due(g) /\ NameOf(g)' = NameOf(g))
    <2>1. g \in File /\ g \notin touched /\ g # f
      BY <1>1, <1>2
    <2>2. size'[g] = size[g] /\ written'[g] = written[g] /\ linked'[g] = linked[g]
      BY <1>1, <2>1
    <2> QED
      BY <1>1, <2>1, <2>2, SameDue
  <1> QED
    BY <1>1, <1>2, ClearSteps

LEMMA ClearRotate == Inv /\ ClearInv /\ Rotate => ClearInv'
  <1> SUFFICES ASSUME Inv, ClearInv, Rotate PROVE ClearInv'
    OBVIOUS
  <1>1. PICK due :
            /\ linked' = [f \in File |-> IF f \in due THEN "archive" ELSE linked[f]]
            /\ touched' = IF listed THEN touched \cup due ELSE {}
    BY DEF Rotate, Touch
  <1>2. UNCHANGED <<m_Path, size, written, clearing, listedAt, listed, list>>
    BY DEF Rotate, clearVars
  <1>3. ASSUME listed, NEW g \in File \ touched'
        PROVE  g \notin touched /\ (Due(g)' => Due(g) /\ NameOf(g)' = NameOf(g))
    <2>1. g \in File /\ g \notin touched /\ g \notin due
      BY <1>1, <1>3
    <2>2. linked'[g] = linked[g]
      BY <1>1, <2>1
    <2> QED
      BY <1>2, <2>1, <2>2, SameDue
  <1> QED
    BY <1>2, <1>3, ClearSteps

LEMMA ClearOpen == Inv /\ FreshInv /\ ClearInv /\ Open => ClearInv'
  <1> SUFFICES ASSUME Inv, FreshInv, ClearInv, Open PROVE ClearInv'
    OBVIOUS
  <1>1. PICK new \in SUBSET Subs :
            /\ made' = [s \in Subs |-> IF s \in new THEN made[s] + 1 ELSE made[s]]
            /\ linked' = [f \in File |-> IF f.sub \in new /\ f.gen = made'[f.sub]
                                         THEN "active" ELSE linked[f]]
    <2>1. {s \in SubsOf(rotating) : Active(s) = {}} \in SUBSET Subs
      BY DEF SubsOf
    <2> QED
      BY <2>1 DEF Open
  <1>2. UNCHANGED <<m_Path, size, written, clearing, listedAt, listed, list, touched>>
    BY DEF Open, clearVars, histVars
  <1>3. ASSUME NEW g \in File
        PROVE  Due(g)' => Due(g) /\ NameOf(g)' = NameOf(g)
    <2>1. CASE g.sub \in new /\ g.gen = made'[g.sub]
      <3>1. g.gen = made[g.sub] + 1 /\ made[g.sub] \in Nat
        BY <1>1, <2>1, Files DEF Inv, TypeInv
      <3>2. size[g] = 0
        BY <3>1 DEF FreshInv
      <3>3. RemovalSize \in Nat /\ RemovalSize >= 1
        <4>1. MaxSize \in Nat /\ RemovalSize \in 1..LogFileLength /\ LogFileLength \in 1..MaxSize
          BY RetentionAssumption
        <4> QED
          BY <4>1
      <3>4. ~(size[g] >= RemovalSize)
        BY <3>2, <3>3
      <3> QED
        BY <1>2, <3>4 DEF Due, ExpiredAt
    <2>2. CASE ~(g.sub \in new /\ g.gen = made'[g.sub])
      <3>1. linked'[g] = linked[g]
        BY <1>1, <2>2
      <3> QED
        BY <1>2, <3>1, SameDue
    <2> QED
      BY <2>1, <2>2
  <1> QED
    BY <1>2, <1>3, ClearSteps

\* The list names whatever is due, below the working directory as well as in it.
LEMMA ClearList == RestInv /\ ListExpired => ClearInv'
  <1> SUFFICES ASSUME RestInv, ListExpired, m_Path'[clearing'] = Cwd,
                      NEW f \in File, Due(f)'
               PROVE  NameOf(f)' \in list'
    BY DEF ClearInv
  <1>1. /\ clearing # NoOne /\ listedAt' = now
        /\ list' = {NameOf(g) : g \in {g \in File : /\ linked[g] # "no"
                                                    /\ DirOf(g.sub) \in Below(m_Path[clearing])
                                                    /\ Expired(g)}}
        /\ UNCHANGED <<m_Path, linked, size, written, clearing>>
    BY DEF ListExpired, fileVars
  <1>2. linked[f] # "no" /\ DirOf(f.sub) = Cwd /\ ExpiredAt(f, now)
    BY <1>1 DEF Due, DirOf, ExpiredAt
  <1>3. DirOf(f.sub) \in Below(m_Path[clearing])
    BY <1>1, <1>2, RetentionAssumption DEF Below
  <1>4. NameOf(f) \in list'
    BY <1>1, <1>2, <1>3 DEF Expired
  <1> QED
    BY <1>1, <1>4 DEF NameOf

\* What is due and is still there after a removal has another name.
LEMMA ClearRemove == ClearInv /\ RemoveNext => ClearInv'
  <1> SUFFICES ASSUME ClearInv, RemoveNext, m_Path'[clearing'] = Cwd,
                      NEW f \in File, f \notin touched', Due(f)'
               PROVE  NameOf(f)' \in list'
    BY DEF ClearInv
  <1>1. PICK name \in list :
            /\ list' = list \ {name}
            /\ linked' = [g \in File |-> IF g \in Removed(name) THEN "no" ELSE linked[g]]
    BY DEF RemoveNext
  <1>2. listed /\ UNCHANGED <<m_Path, size, written, clearing, touched, listedAt>>
    BY DEF RemoveNext, histVars
  <1>3. linked'[f] # "no"
    BY DEF Due
  <1>4. f \notin Removed(name) /\ linked'[f] = linked[f]
    BY <1>1, <1>3
  <1>5. Due(f) /\ NameOf(f)' = NameOf(f)
    BY <1>2, <1>4, SameDue
  <1>6. NameOf(f) \in list
    BY <1>2, <1>5 DEF ClearInv
  <1>7. NameOf(f) # name
    BY <1>4, <1>5 DEF Removed, Named, Due
  <1> QED
    BY <1>1, <1>5, <1>6, <1>7

LEMMA KeepsClear ==
    Inv /\ RestInv /\ FreshInv /\ ClearInv /\ [Next]_vars => ClearInv'
  <1> SUFFICES ASSUME Inv, RestInv, FreshInv, ClearInv, [Next]_vars PROVE ClearInv'
    OBVIOUS
  <1>1. CASE UNCHANGED <<m_Path, linked, size, written, clearing, listed, list, touched, listedAt>>
    <2>1. \A f \in File : (Due(f)' <=> Due(f)) /\ NameOf(f)' = NameOf(f)
      BY <1>1, SameDue
    <2> QED
      BY <1>1, <2>1 DEF ClearInv
  <1>2. CASE \E m \in Managers : ClearBegin(m)
    <2>1. clearing = NoOne /\ listed' = listed
      BY <1>2 DEF ClearBegin
    <2> QED
      BY <2>1 DEF ClearInv, Inv, ListInv
  <1>3. CASE ClearEnd
    BY <1>3 DEF ClearEnd, ClearInv
  <1> QED
    BY <1>1, <1>2, <1>3, ClearFlush, ClearRotate, ClearOpen, ClearList, ClearRemove
       DEF Next, Tick, do_logging, BeginRotation, Close, clear_expired_log, vars, fileVars,
           clearVars, histVars

LEMMA SpecRest == Spec => [](RestInv /\ FreshInv /\ ClearInv)
  <1>1. Inv /\ (RestInv /\ FreshInv /\ ClearInv) /\ [Next]_vars
            => (RestInv /\ FreshInv /\ ClearInv)'
    BY KeepsRest, KeepsFresh, KeepsClear
  <1> QED
    BY <1>1, InitRest, SpecInv, PTL DEF Spec

\* Every variable has its type, and each file_log one file of its name: open()
\* makes one only if there is none.
THEOREM SpecTypeOK == Spec => []TypeOK
  <1>1. Inv /\ RestInv => TypeOK
    <2> SUFFICES ASSUME Inv, RestInv PROVE TypeOK
      OBVIOUS
    <2>1. /\ linked \in [File -> {"active", "archive", "no"}]
          /\ made \in [Subs -> 1..MaxGen]
          /\ rotating \in Managers \cup {NoOne} /\ clearing \in Managers \cup {NoOne}
      BY DEF Inv, TypeInv
    <2>2. open \in [Subs -> 0..MaxGen]
      <3>1. \A s \in Subs : open[s] \in {0, made[s]} /\ made[s] \in 1..MaxGen
        BY DEF Inv, TypeInv, NameInv
      <3>2. \A s \in Subs : open[s] \in 0..MaxGen
        BY <3>1, Files
      <3> QED
        BY <3>2 DEF Inv, TypeInv
    <2>3. ASSUME NEW s \in Subs
          PROVE  Cardinality(Active(s)) <= 1
      <3>1. Active(s) \in SUBSET {Nth(s, made[s])}
        BY OneActive DEF Active
      <3>2. IsFiniteSet({Nth(s, made[s])}) /\ Cardinality({Nth(s, made[s])}) = 1
        BY FS_Singleton
      <3> QED
        BY <3>1, <3>2, FS_Subset
    <2> QED
      BY <2>1, <2>2, <2>3 DEF TypeOK, RestInv
  <1> QED
    BY <1>1, SpecInv, SpecRest, PTL

\* When a file_log_mgr that logs to the working directory has cleared it, what
\* had expired by its listing is gone from there, or has been written or renamed
\* since, whichever file_log_mgr it belongs to.
THEOREM SpecClearedWhenDone == Spec => []ClearedWhenDone
  <1>1. ClearInv => ClearedWhenDone
    BY DEF ClearInv, ClearedWhenDone, Due
  <1> QED
    BY <1>1, SpecRest, PTL
================================================================================
