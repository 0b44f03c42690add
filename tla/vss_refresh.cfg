SPECIFICATION Spec
CONSTANTS
    phone = phone
    desktop = desktop
    receive = receive
    refresh = refresh
    Devices <- Alone
    Ops <- Refreshed
    Counted <- Received
    Exclusive <- Refresh
    Instants = {1, 2, 3, 4}
    MaxUploads = 2
    Reloading <- Alone
    Filing <- Alone
    Features = {"loss"}
CHECK_DEADLOCK FALSE
INVARIANTS NotRequiredIsBackedUp
