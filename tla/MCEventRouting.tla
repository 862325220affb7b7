----------------------------- MODULE MCEventRouting -----------------------------
(* A push button that may be pressed at any time, the shell, and the BLE bridge *)
(* with a phone that waits for its answers.                                     *)
EXTENDS EventRouting

MCDevices == {"button", "shell", "ble"}
MCReceivers == {2, 4}
MCLists == [d \in MCDevices |->
    CASE d = "button" -> {{2}, {}}
      [] d = "shell" -> {{2}, {2, 4}}
      [] d = "ble" -> {{2}, {4}}]

================================================================================
