----------------------------- MODULE MCLauncher -----------------------------
(* Small instances of CentralAppLauncher for TLC.                           *)
EXTENDS CentralAppLauncher, TLC

OneStronger == {-80, -70}
OneWeaker == {-90, -80}
MCNewRssi == -80
DefaultToggles == {"GATT", "SDP"}
AllToggles == Tools
NoFaults == {}
AllFaults == {"fork", "log", "torn"}

CONSTANTS d1, d2
OneDevice == {d1}
TwoDevices == {d1, d2}
NoSkips == {}
DeviceSymmetry == Permutations(TwoDevices)
=============================================================================
