SPECIFICATION Spec
CONSTANTS
    Components = {"tcp", "mbuf", "arp", "dhcp", "dns", "sockets"}
    tcp_MBUF_MAX_LEN = 2
    SeqSpace = 16
    TCP_RX_BUF_SIZE = 2
    MaxPacket = 3
    tcp_ReadMax = 2
    PeerIss = 14
    PeerWindow = 3
    tcp_MaxData = 2
    Writes = {2}
    tcp_MaxConnects = 1
    tcp_Lossy = {"SYN", "DATA"}
    Ends = {"FIN", "RST", "CLOSE"}
    MaxNet = 2
    mbuf_MBUF_MAX_LEN = 3
    Inputs <- Pieces
    MaxLen = 4
    MaxBytes = 4
    Local = {"g", "h", "k"}
    Remote = {"r"}
    Gateway = "g"
    NumEntries = 2
    arp_Lossy = TRUE
    MaxPackets = 4
    MaxUptime = 1
    Servers = {"s", "t"}
    Others = {"other"}
    Options = {{"netmask", "router", "dns"}, {"netmask", "dns"}}
    dhcp_Lossy = TRUE
    MaxFrames = 5
    dns_Tasks = {1, 2}
    Hosts = {"a", "b"}
    Missing = {"m"}
    Long = {}
    IdMod = 3
    dns_Lossy = TRUE
    MaxQueries = 3
    sock_Tasks = {"shell", "app"}
    SOCKETS_MAX = 2
    TCP_PCBS_MAX = 3
    Ports = {4, 5, 6, 7}
    Urls <- SomeUrls
    sock_ReadMax = 1
    SegmentMax = 2
    DataWords = {0, 2}
    sock_MaxConnects = 3
    sock_MaxData = 1
    MaxQueue = 2
    MaxKills = 1
INVARIANTS StreamsIntact AddressesRight SocketsOwned
CHECK_DEADLOCK FALSE
