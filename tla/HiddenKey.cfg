CONSTANTS
    Home = Home
    Abroad = Abroad
    Office = Office
    Cafe = Cafe
    RouterIP = RouterIP
    OfficeIP = OfficeIP
    CafeMAC = CafeMAC
    AS1 = AS1
    AS2 = AS2
    Places = {Home, Abroad, Office, Cafe}
    Hidden = {Home, Abroad, Office}
    Gateway <- MCGateway
    ISP <- MCISP
    NoASN = NoASN
    NoGateway = NoGateway
    TTL = 1
SPECIFICATION Spec
INVARIANTS
    TypeOK
    RowNamesObservedGateway
    ConfirmedRowIsRight
PROPERTIES
    OutagesEnd
    OutagesAreRecorded
