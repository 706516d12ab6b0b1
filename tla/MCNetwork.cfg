SPECIFICATION Spec
CONSTANTS
    Foci = {"tcp", "tcp_early", "stream", "datagram", "udp", "dhcp", "dns", "netif", "layers", "rtl8139"}
INVARIANTS
    
    AnswersReachAsker
    
    BytesReadBack
    EntryIsFree
PROPERTIES
    ReachesOwnConnection
    
    FirstAddress
CHECK_DEADLOCK FALSE
