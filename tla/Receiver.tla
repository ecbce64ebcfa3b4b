------------------------------ MODULE Receiver ------------------------------
(* The FHEM module 36_Foxstaub2018viaJeelink.pm: its table of devices by    *)
(* address, and which device a received frame is credited to.  What the     *)
(* readings are is in modules Frame and Reports.                            *)
(*                                                                          *)
(* FHEM keeps one hash per defined device.  The table's entries refer to    *)
(* hashes, not to names: an entry that outlives its device refers to a hash *)
(* nobody sees any more.                                                    *)
EXTENDS Naturals

CONSTANTS Names,   \* names of devices
          Ids,     \* identities stations send, 0 .. 255
          Typed,   \* addresses users type: [digits |-> "dec" | "hex" | "HEX" | "0X", n |-> number]
          Undefined

ASSUME TypedAddresses == Typed \subseteq [digits : {"dec", "hex", "HEX", "0X"}, n : 0 .. 999]
ASSUME Identities == Ids \subseteq 0 .. 255

VARIABLES defptr,  \* $modules{...}{defptr}: the table
          devs,    \* $hash->{addr} of each defined device, or Undefined
          ignored, \* devices with the attribute ignore
          credited, \* identity of the frame that last updated a device's readings, or Undefined
          had      \* history: the addresses each device has had since it was defined

tableVars == <<defptr, devs, ignored, credited, had>>

\* The key an address is stored under.  Decimal numbers are printed with
\* "%02x", digits behind 0x are stored as typed, and 0X is not recognised:
\* what is printed then is the number Perl reads in "0X..", 0.
Key(t) ==
  CASE t.digits \in {"dec", "hex"} -> <<t.n, "lower">>
    [] t.digits = "HEX"            -> <<t.n, "upper">>
    [] t.digits = "0X"             -> <<0, "lower">>

\* The key a frame's identity is looked up under: sprintf("%02x").
FrameKey(id) == <<id, "lower">>

Keys == {Key(t) : t \in Typed} \cup {FrameKey(id) : id \in Ids}

Entry == [name : Names, live : BOOLEAN]

ASSUME UndefinedIsNothing == Undefined \notin Keys \cup Entry

TableInit ==
  /\ defptr = [k \in Keys |-> Undefined]
  /\ devs = [d \in Names |-> Undefined]
  /\ ignored = {}
  /\ credited = [d \in Names |-> Undefined]
  /\ had = [d \in Names |-> {}]

-----------------------------------------------------------------------------
\* Faulty: an address in use is not refused.
Bug_Used(k, d) == FALSE

\* The address is in the table for another name.
Used(k, d) == defptr[k] # Undefined /\ defptr[k].name # d

\* Faulty: the device keeps the address cut to a byte, the table does not.
Bug_Enter(d, k) ==
  /\ devs' = [devs EXCEPT ![d] = <<k[1] % 256, k[2]>>]
  /\ defptr' = [defptr EXCEPT ![k] = [name |-> d, live |-> TRUE]]

\* The end of Foxstaub2018viaJeelink_Define().
Enter(d, k) ==
  /\ devs' = [devs EXCEPT ![d] = k]
  /\ defptr' = [defptr EXCEPT ![k] = [name |-> d, live |-> TRUE]]

\* "define": FHEM makes a hash for a new name and calls Define(); it drops
\* the hash if Define() returns a message.
Define(d, t) ==
  /\ devs[d] = Undefined
  /\ ~Used(Key(t), d)
  /\ Enter(d, Key(t))
  /\ credited' = [credited EXCEPT ![d] = Undefined]
  /\ had' = [had EXCEPT ![d] = {Key(t)}]
  /\ UNCHANGED ignored

\* "modify" calls Define() with the old hash and the new address; nothing
\* calls Undef(), so the old entry stays.
Modify(d, t) ==
  /\ devs[d] # Undefined
  /\ ~Used(Key(t), d)
  /\ Enter(d, Key(t))
  /\ had' = [had EXCEPT ![d] = @ \cup {Key(t)}]
  /\ UNCHANGED <<ignored, credited>>

\* "delete": Foxstaub2018viaJeelink_Undef() removes the entry of the
\* device's present address, then FHEM drops the hash.
Delete(d) ==
  /\ devs[d] # Undefined
  /\ defptr' = [k \in Keys |->
       IF k = devs[d] THEN Undefined
       ELSE IF defptr[k] # Undefined /\ defptr[k].name = d THEN [name |-> d, live |-> FALSE]
       ELSE defptr[k]]
  /\ devs' = [devs EXCEPT ![d] = Undefined]
  /\ ignored' = ignored \ {d}
  /\ credited' = [credited EXCEPT ![d] = Undefined]
  /\ had' = [had EXCEPT ![d] = {}]

\* "attr d ignore 1" and "deleteattr d ignore".
Ignore(d) ==
  /\ devs[d] # Undefined
  /\ ignored' = IF d \in ignored THEN ignored \ {d} ELSE ignored \cup {d}
  /\ UNCHANGED <<defptr, devs, credited, had>>

\* Faulty: the device is looked up by the name in the entry.
Bug_Parse(id) ==
  /\ LET e == defptr[FrameKey(id)]
     IN  credited' = IF e # Undefined /\ devs[e.name] # Undefined /\ e.name \notin ignored
                       THEN [credited EXCEPT ![e.name] = id] ELSE credited
  /\ UNCHANGED <<defptr, devs, ignored, had>>

\* Foxstaub2018viaJeelink_Parse(), from the look-up of the address on.
Parse(id) ==
  /\ LET e == defptr[FrameKey(id)]
     IN  credited' = IF e # Undefined /\ e.live /\ e.name \notin ignored
                       THEN [credited EXCEPT ![e.name] = id] ELSE credited
  /\ UNCHANGED <<defptr, devs, ignored, had>>

TableNext ==
  \/ \E d \in Names, t \in Typed : Define(d, t)
  \/ \E d \in Names, t \in Typed : Modify(d, t)
  \/ \E d \in Names : Delete(d)
  \/ \E d \in Names : Ignore(d)
  \/ \E id \in Ids : Parse(id)

TableSpec == TableInit /\ [][TableNext]_tableVars

-----------------------------------------------------------------------------
(* Properties.                                                              *)

TypeOK ==
  /\ defptr \in [Keys -> Entry \cup {Undefined}]
  /\ devs \in [Names -> Keys \cup {Undefined}]
  /\ ignored \in SUBSET {d \in Names : devs[d] # Undefined}
  /\ credited \in [Names -> Ids \cup {Undefined}]
  /\ had \in [Names -> SUBSET Keys]

\* After any history of define, modify and delete, and though entries of old
\* addresses stay in the table, the table has each defined device under its
\* present address (36_...pm:59-63, 82).
Reachable == \A d \in Names : devs[d] # Undefined => defptr[devs[d]] = [name |-> d, live |-> TRUE]

\* A device is never credited with a frame meant for an earlier device of
\* the same name, whose entries may still be in the table (36_...pm:194).
NotInherited == \A d \in Names : credited[d] # Undefined => FrameKey(credited[d]) \in had[d]

=============================================================================
