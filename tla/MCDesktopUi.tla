------------------------------- MODULE MCDesktopUi -------------------------------
EXTENDS DesktopUi

BothTransfers == {"upload", "download"}
UploadOnly == {"upload"}
================================================================================
