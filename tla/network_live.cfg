SPECIFICATION FairSpec
CONSTANTS
    Components = {"tcp", "mbuf", "arp", "dhcp", "dns", "sockets"}
    tcp_MBUF_MAX_LEN = 1
    SeqSpace = 16
    TCP_RX_BUF_SIZE = 2
    MaxPacket = 2
    tcp_ReadMax = 1
    PeerIss = 14
    PeerWindow = 2
    tcp_MaxData = 2
    Writes = {2}
    tcp_MaxConnects = 1
    tcp_Lossy = {"DATA"}
    Ends = {}
    MaxNet = 1
    mbuf_MBUF_MAX_LEN = 3
    Inputs <- Pieces
    MaxLen = 4
    MaxBytes = 4
    Local = {"g", "h", "k"}
    Remote = {"r"}
    Gateway = "g"
    NumEntries = 3
    arp_Lossy = FALSE
    MaxPackets = 3
    MaxUptime = 1
    Servers = {"s", "t"}
    Others = {"other"}
    Options = {{"netmask", "router", "dns"}}
    dhcp_Lossy = FALSE
    MaxFrames = 5
    dns_Tasks = {1, 2}
    Hosts = {"a", "b"}
    Missing = {"m"}
    Long = {}
    IdMod = 4
    dns_Lossy = FALSE
    MaxQueries = 4
    sock_Tasks = {"shell", "app"}
    SOCKETS_MAX = 2
    TCP_PCBS_MAX = 3
    Ports = {4, 5, 6}
    Urls <- SomeUrls
    sock_ReadMax = 1
    SegmentMax = 1
    DataWords = {0}
    sock_MaxConnects = 2
    sock_MaxData = 1
    MaxQueue = 1
    MaxKills = 1
PROPERTIES StreamsFlow RequestsEnd ImplementsByteQueue
CHECK_DEADLOCK FALSE
