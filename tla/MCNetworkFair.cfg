SPECIFICATION FairSpec
CONSTANTS
    Foci = {"arp", "tcp_one"}
PROPERTIES
    AddressesLearned
    RequestsEnd
    CallsReturn
CHECK_DEADLOCK FALSE
