SPECIFICATION MCPhoneSpec
CONSTANTS
    laptop = laptop
    phone = phone
    l1 = l1
    l2 = l2
    p1 = p1
    c1 = c1
    c2 = c2
    Devices <- MCDevices
    Tabs <- MCTabs
    DeviceOf <- MCDeviceOf
    Calls <- MCCalls
    MaxTokens = 3
SYMMETRY Twins
INVARIANTS AgreeUndisturbed OnlyOverlapForks
