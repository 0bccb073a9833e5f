SPECIFICATION Spec
CONSTANTS
    Root = "rtsp"
    Bases <- MCBases
    RequestUrl <- MCRequestUrl
    Names <- MCNames
    Attributes <- MCAttributes
    SessionControls <- MCSessionControls
    MediaControls <- MCMediaControls
    MaxLines = 5
INVARIANTS TypeOK SectionsKept UrlsResolved MediaToldApart
