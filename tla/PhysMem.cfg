\* Devices that meet the RAM and each other, hide each other and refuse accesses; holes;
\* every size at every address, and pages that meet or not.
SPECIFICATION PhysMemSpec
CONSTANTS
    AddressLimit = 64
    RamStart = 4
    RamEnd = 12
    Regions <- Meeting
    Refused <- Refusals
    Wholes <- EverySize
    Pairs <- AnyPages
    MaxSize = 4
    MaxStores = 1
INVARIANTS TransferIsExact HolesUntouched EachByteOnce
