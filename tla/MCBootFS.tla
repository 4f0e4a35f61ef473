------------------------------- MODULE MCBootFS -------------------------------
(* BootFS on small images and machines, with every size of heap. *)
EXTENDS BootFS

Dir(name, k) == [name |-> name, type |-> "DIRECTORY", n |-> k]
File(name) == [name |-> name, type |-> "REGULAR", n |-> 0]

\* initrd.img of the repository, with one file less.
Shipped == <<Dir("", 2), Dir("test_empty", 0), Dir("test_fill", 2), File("temp1"), File("temp2")>>

\* Entries of unknown type, a directory two levels down.
Deep == <<Dir("", 3), File("temp1"), [File("temp2") EXCEPT !.type = "OTHER_TYPE"],
          Dir("test_fill", 2), File("temp1"), Dir("test_empty", 1), File("temp2")>>

\* A directory with entries that is not the last.
Early == <<Dir("", 2), Dir("test_fill", 1), File("temp1"), File("temp2")>>

None == <<Dir("", 1), File("temp1")>>

Func(bus, dev, func, multi) ==
  [bus |-> bus, dev |-> dev, func |-> func, multi |-> multi, bridge |-> FALSE, secondary |-> 0]
Bridge(bus, dev, func, multi, secondary) ==
  [Func(bus, dev, func, multi) EXCEPT !.bridge = TRUE, !.secondary = secondary]

\* A host bridge and, on the next device, a bridge of two functions to buses 1 and 2,
\* the second bus behind a device that reads as of one function.
Branches == {Func(0, 0, 0, FALSE), Bridge(0, 1, 0, TRUE, 1), Bridge(0, 1, 1, FALSE, 2), Func(2, 1, 0, FALSE)}

\* A bridge behind a bridge, back to bus 0; function 1 of a device of one function.
Circle == {Bridge(0, 0, 0, FALSE, 1), Func(0, 1, 0, FALSE), Func(0, 1, 1, FALSE), Bridge(1, 1, 0, FALSE, 0)}

\* Buses 1 and 2 lead to each other, away from the host; bus 1 goes on after its bridge.
FarCircle == {Bridge(0, 0, 0, FALSE, 1), Bridge(1, 0, 0, FALSE, 2), Func(1, 1, 0, FALSE), Bridge(2, 1, 0, FALSE, 1)}

\* Two host controllers; a bridge that is not configured leads to bus 0.
TwoHosts == {Func(0, 0, 0, TRUE), Func(0, 0, 1, FALSE), Func(1, 0, 0, FALSE), Bridge(1, 1, 0, FALSE, 0)}

\* Three host controllers; the bus of the second is also behind a bridge of the first,
\* and the third is passed over.
Shared == {Func(0, 0, 0, TRUE), Bridge(0, 0, 1, FALSE, 1), Func(0, 0, 2, FALSE), Func(1, 0, 0, FALSE),
           Func(2, 0, 0, FALSE)}

MCMachines == {[image |-> m[1], wired |-> m[2]] : m \in
  {<<Shipped, Branches>>, <<Shipped, Circle>>, <<Deep, TwoHosts>>, <<Deep, {}>>, <<Shipped, FarCircle>>,
   <<Early, Shared>>, <<None, {Func(0, 0, 0, FALSE)}>>}}

=============================================================================
