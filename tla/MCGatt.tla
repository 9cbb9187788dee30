-------------------------------- MODULE MCGatt --------------------------------
(* Devices for TLC.  Handles are numbered as a server numbers them: a service  *)
(* declaration, then declaration and value of each characteristic.             *)
EXTENDS GattTool

\* What fits into a response of 23 bytes: services with a UUID of 16 or of 128
\* bits, characteristics and descriptors with a UUID of 16 bits.
Short == [P |-> 3, C |-> 3, D |-> 5]
Vendor == [P |-> 1, C |-> 3, D |-> 5]

\* One service with one readable characteristic: the smallest device there is
\* something to read from.
Small == [attrs |-> 1..3, ends |-> {3}, decls |-> {2}, reads |-> <<3>>,
          blobs |-> [h \in 1..3 |-> 0], fits |-> Short]

\* Two services, of one and two readable characteristics; the value at 6 takes
\* two READ_BLOB requests.
Usual == [attrs |-> 1..8, ends |-> {3, 8}, decls |-> {2, 5, 7},
          reads |-> <<3, 6, 8>>,
          blobs |-> [h \in 1..8 |-> IF h = 6 THEN 2 ELSE 0], fits |-> Short]

\* The last service and its attributes reach the highest handle, one value
\* cannot be read.
Full == [attrs |-> {1, 2, 3, 10, 11, 12}, ends |-> {3, 12}, decls |-> {2, 11},
         reads |-> <<12>>, blobs |-> [h \in {1, 2, 3, 10, 11, 12} |-> 0],
         fits |-> Short]

\* A server without attributes.
Empty == [attrs |-> {}, ends |-> {}, decls |-> {}, reads |-> <<>>,
          blobs |-> <<>>, fits |-> Short]

\* Three vendor services of one characteristic each.
ThreeVendor == [attrs |-> 1..9, ends |-> {3, 6, 9}, decls |-> {2, 5, 8},
                reads |-> <<3, 6, 9>>, blobs |-> [h \in 1..9 |-> 0],
                fits |-> Vendor]

AllDevices == {Usual, Full, Empty}
SmallDevice == {Small}
VendorDevice == {ThreeVendor}
NoFaults == {}
=============================================================================
